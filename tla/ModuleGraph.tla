---------------------------- MODULE ModuleGraph ----------------------------
(***************************************************************************)
(* Loading a program from its root module (module_graph.rs): imports are   *)
(* resolved by name next to the importing module, in its package, among    *)
(* the package's dependencies or in the shipped stdlib; modules are loaded *)
(* depth first, each once; the declarations of all of them are collected,  *)
(* in load order, into one namespace.  What is wrong with the program is   *)
(* noted and loading goes on, except that a module that does not parse     *)
(* ends it.                                                                *)
(***************************************************************************)
EXTENDS Naturals, Sequences, FiniteSets

CONSTANTS
  Dirs,         (* directories of modules                                  *)
  Std,          (* the one of the shipped stdlib                           *)
  Names,        (* names of modules                                        *)
  Reserved,     (* those of the stdlib: stdlib_module_path                 *)
  Lib,          (* the name of a package's library entry                   *)
  Items,        (* names that modules declare                              *)
  NoPackage, InvalidPackage, NoDir,
  Programs      (* the programs considered                                 *)

Kinds == {"struct", "enum", "function", "method"}
Files == Dirs \X Names

(* A program: its files and, of each, the imports and declarations in the  *)
(* order of the text; the files that cannot be read or do not parse; of    *)
(* each directory the package it is in: the source root and, by alias, the *)
(* source roots of the dependencies; or that there is no package, or that  *)
(* a manifest is invalid.                                                  *)
ASSUME ProgramAssumption ==
  /\ Std \in Dirs /\ Reserved \subseteq Names /\ Lib \in Names
  /\ \A p \in Programs :
       /\ p.files \subseteq Files /\ p.root \in p.files /\ p.broken \subseteq p.files
       /\ p.unreadable \subseteq p.files \ {p.root}
       /\ p.imports \in [p.files -> Seq(Names)]
       /\ p.declares \in [p.files -> [Kinds -> Seq(Items)]]
       /\ p.package \in [Dirs -> {NoPackage, InvalidPackage}
            \cup [root : Dirs, dependencies : [Names -> Dirs \cup {NoDir}]]]

VARIABLES
  program,
  pc,           (* "load", "collect", "done" or "failed"                   *)
  stack,        (* loading_stack, with the next import of each module      *)
  loadOrder,    (* load_order                                              *)
  diagnostics,  (* the kinds of diagnostics so far                         *)
  module,       (* the loaded module whose declarations are collected      *)
  declaration,  (* <<kind, index>>: the declaration that comes next        *)
  seen,         (* seen[k]: the names of that kind seen so far             *)
  items         (* the declarations collected                              *)

vars == <<program, pc, stack, loadOrder, diagnostics, module, declaration, seen, items>>

Problems == {"manifest", "reserved", "unresolved", "cycle", "syntax", "duplicate"}
Frames == [file : Files, next : Nat \ {0}]
Item == [kind : Kinds, name : Items, file : Files]

TypeOK ==
  /\ pc \in {"load", "collect", "done", "failed"}
  /\ stack \in Seq(Frames) /\ loadOrder \in Seq(Files)
  /\ diagnostics \subseteq Problems
  /\ module \in Nat \ {0} /\ declaration \in Kinds \X (Nat \ {0})
  /\ seen \in [Kinds -> SUBSET Items]
  /\ items \in Seq(Item)

----------------------------------------------------------------------------
(* Resolving an import                                                     *)

IsFile(f) == f \in program.files
Package(file) == program.package[file[1]]

(* The local files a name can stand for, in the order they are tried: next *)
(* to the module, in its package, the entry of a dependency.               *)
InPackage(file) == Package(file) \notin {NoPackage, InvalidPackage}
SameDir(file, name) == {f \in {<<file[1], name>>} : IsFile(f)}
PackageRoot(file, name) ==
  IF InPackage(file) THEN {f \in {<<Package(file).root, name>>} : IsFile(f)} ELSE {}
Dependency(file, name) ==
  IF InPackage(file)
    THEN {<<d, Lib>> : d \in {Package(file).dependencies[name]} \ {NoDir}}
    ELSE {}

(* A name of the stdlib that local code has too is refused.                *)
Conflicts(file, name) ==
  SameDir(file, name) \cup PackageRoot(file, name) \cup Dependency(file, name) # {}

(* resolve_import_path: the file the import stands for, or none, as a set. *)
Resolved(file, name) ==
  LET std == {f \in {<<Std, name>>} : name \in Reserved /\ IsFile(f)}
      candidates ==
        <<std, IF name \in Reserved THEN {} ELSE SameDir(file, name), PackageRoot(file, name),
          {f \in Dependency(file, name) : IsFile(f)}>>
      found == {i \in DOMAIN candidates : candidates[i] # {}}
  IN UNION {candidates[i] : i \in {n \in found : \A m \in found : n <= m}}

Refusal(file, name) ==
  IF Package(file) = InvalidPackage THEN {"manifest"}
  ELSE IF name \in Reserved /\ Conflicts(file, name) THEN {"reserved"}
  ELSE IF Resolved(file, name) = {} THEN {"unresolved"}
  ELSE {}

----------------------------------------------------------------------------
(* Loading                                                                 *)

Init ==
  /\ program \in Programs
  /\ IF program.root \in program.broken
       THEN /\ pc = "failed" /\ stack = <<>> /\ diagnostics = {"syntax"}
       ELSE /\ pc = "load" /\ stack = <<[file |-> program.root, next |-> 1]>>
            /\ diagnostics = {}
  /\ loadOrder = <<>>
  /\ module = 1 /\ declaration = <<"struct", 1>>
  /\ seen = [k \in Kinds |-> {}] /\ items = <<>>

Top == stack[Len(stack)]
Imports == program.imports[Top.file]
Importing == pc = "load" /\ stack # <<>> /\ Top.next <= Len(Imports)

Target == CHOOSE f \in Resolved(Top.file, Imports[Top.next]) : TRUE
Trouble == Refusal(Top.file, Imports[Top.next])
Loaded == {loadOrder[i] : i \in DOMAIN loadOrder}
Loading == {stack[i].file : i \in DOMAIN stack}
Advanced == [stack EXCEPT ![Len(stack)].next = @ + 1]
loading == <<program, module, declaration, seen, items>>

RefuseImport ==
  /\ Importing /\ Trouble # {}
  /\ diagnostics' = diagnostics \cup Trouble
  /\ stack' = Advanced
  /\ UNCHANGED <<loading, pc, loadOrder>>

FindCycle ==
  /\ Importing /\ Trouble = {} /\ Target \in Loading
  /\ diagnostics' = diagnostics \cup {"cycle"}
  /\ stack' = Advanced
  /\ UNCHANGED <<loading, pc, loadOrder>>

(* Wrong: a module that is loaded is looked at again and again.            *)
FindLoadedStays ==
  /\ Importing /\ Trouble = {} /\ Target \notin Loading /\ Target \in Loaded
  /\ UNCHANGED vars

FindLoaded ==
  /\ Importing /\ Trouble = {} /\ Target \notin Loading /\ Target \in Loaded
  /\ stack' = Advanced
  /\ UNCHANGED <<loading, pc, loadOrder, diagnostics>>

FindUnreadable ==
  /\ Importing /\ Trouble = {} /\ Target \notin Loading \cup Loaded
  /\ Target \in program.unreadable
  /\ diagnostics' = diagnostics \cup {"unresolved"}
  /\ stack' = Advanced
  /\ UNCHANGED <<loading, pc, loadOrder>>

(* Wrong: a module is listed when it is met, before what it imports.       *)
DescendListing ==
  /\ Importing /\ Trouble = {} /\ Target \notin Loading \cup Loaded
  /\ Target \notin program.broken
  /\ stack' = Append(Advanced, [file |-> Target, next |-> 1])
  /\ loadOrder' = Append(loadOrder, Target)
  /\ UNCHANGED <<loading, pc, diagnostics>>

Descend ==
  /\ Importing /\ Trouble = {}
  /\ Target \notin Loading \cup Loaded \cup program.unreadable
  /\ IF Target \in program.broken
       THEN /\ pc' = "failed"
            /\ diagnostics' = diagnostics \cup {"syntax"}
            /\ UNCHANGED stack
       ELSE /\ stack' = Append(Advanced, [file |-> Target, next |-> 1])
            /\ UNCHANGED <<pc, diagnostics>>
  /\ UNCHANGED <<loading, loadOrder>>

FinishModule ==
  /\ pc = "load" /\ stack # <<>> /\ Top.next > Len(Imports)
  /\ stack' = SubSeq(stack, 1, Len(stack) - 1)
  /\ loadOrder' = Append(loadOrder, Top.file)
  /\ pc' = IF Len(stack) = 1 THEN "collect" ELSE "load"
  /\ UNCHANGED <<loading, diagnostics>>

----------------------------------------------------------------------------
(* Collecting                                                              *)

Declared == program.declares[loadOrder[module]][declaration[1]]
Collecting == pc = "collect" /\ module <= Len(loadOrder)
Here == Declared[declaration[2]]

(* The kinds among whose names a declaration of kind k looks for its own.  *)
(* Wrong: functions do not look among the enums.                           *)
RivalsButEnums(k) ==
  CASE k = "struct" -> {"struct", "function"}
    [] k = "enum" -> {"enum", "struct", "function"}
    [] k = "function" -> {"struct", "function"}
    [] k = "method" -> {"method"}

Rivals(k) ==
  CASE k = "struct" -> {"struct", "function"}
    [] k = "enum" -> {"enum", "struct", "function"}
    [] k = "function" -> {"struct", "enum", "function"}
    [] k = "method" -> {"method"}

collecting == <<program, stack, loadOrder>>

Collect ==
  /\ Collecting /\ declaration[2] <= Len(Declared)
  /\ LET k == declaration[1] IN
     IF \E r \in Rivals(k) : Here \in seen[r]
       THEN /\ diagnostics' = diagnostics \cup {"duplicate"}
            /\ UNCHANGED <<seen, items>>
       ELSE /\ seen' = [seen EXCEPT ![k] = @ \cup {Here}]
            /\ items' = Append(items, [kind |-> k, name |-> Here, file |-> loadOrder[module]])
            /\ UNCHANGED diagnostics
  /\ declaration' = <<declaration[1], declaration[2] + 1>>
  /\ UNCHANGED <<collecting, pc, module>>

KindAfter(k) ==
  CASE k = "struct" -> "enum"
    [] k = "enum" -> "function"
    [] k = "function" -> "method"
    [] k = "method" -> "struct"

(* Structs come first, then enums, then functions and methods (which the   *)
(* text may mix, but which share no table).                                *)
NextKind ==
  /\ Collecting /\ declaration[2] > Len(Declared)
  /\ declaration' = <<KindAfter(declaration[1]), 1>>
  /\ module' = IF declaration[1] = "method" THEN module + 1 ELSE module
  /\ UNCHANGED <<collecting, pc, diagnostics, seen, items>>

Conclude ==
  /\ pc = "collect" /\ module > Len(loadOrder)
  /\ pc' = IF diagnostics = {} THEN "done" ELSE "failed"
  /\ UNCHANGED <<collecting, diagnostics, module, declaration, seen, items>>

Next ==
  \/ RefuseImport \/ FindCycle \/ FindLoaded \/ FindUnreadable \/ Descend \/ FinishModule
  \/ Collect \/ NextKind \/ Conclude

Spec == Init /\ [][Next]_vars /\ WF_vars(Next)

----------------------------------------------------------------------------
(* Properties                                                              *)

ImportsOf(f) == {program.imports[f][i] : i \in DOMAIN program.imports[f]}
Edges == {e \in program.files \X program.files :
            \E n \in ImportsOf(e[1]) : Refusal(e[1], n) = {} /\ e[2] \in Resolved(e[1], n)}
Before(f, g) == \E i, j \in DOMAIN loadOrder : i < j /\ loadOrder[i] = f /\ loadOrder[j] = g

(* A program that is accepted is loaded whole and in order: everything a   *)
(* loaded module imports was loaded before it, nothing was loaded twice,   *)
(* and the root comes last.                                                *)
LoadedInOrder ==
  pc = "done" =>
    /\ \A f \in Loaded : \A n \in ImportsOf(f) :
         Refusal(f, n) = {} /\ \E g \in Resolved(f, n) : Before(g, f)
    /\ \A i, j \in DOMAIN loadOrder : loadOrder[i] = loadOrder[j] => i = j
    /\ loadOrder[Len(loadOrder)] = program.root

(* A cycle is reported only where there is one: the modules being loaded   *)
(* import one another down the stack, so a target among them closes a ring.*)
CyclesAreReal ==
  \A i \in 1 .. Len(stack) - 1 : <<stack[i].file, stack[i + 1].file>> \in Edges

(* Nothing is lost: of an accepted program every declaration of every      *)
(* loaded module is among the items.                                       *)
AllCollected ==
  pc = "done" =>
    \A f \in Loaded, k \in Kinds : \A i \in DOMAIN program.declares[f][k] :
      \E x \in DOMAIN items :
        items[x] = [kind |-> k, name |-> program.declares[f][k][i], file |-> f]

(* No two items of an accepted program share a name and a kind, and no     *)
(* function shares its name with a type.                                   *)
CallsAreUnambiguous ==
  pc = "done" =>
    \A x, y \in DOMAIN items :
      (x # y /\ items[x].name = items[y].name) =>
        /\ items[x].kind # items[y].kind
        /\ items[x].kind = "function" => items[y].kind = "method"

(* An accepted program has all its items, and each call means one of them; *)
(* and a cycle is reported only where there is one.                        *)
ItemsAreSound == AllCollected /\ CallsAreUnambiguous
ModulesAreSound == ItemsAreSound /\ CyclesAreReal

(* "struct, enum, and function names cannot conflict at top level"         *)
(* (spec/language-v1.md).                                                  *)
NamesAreUnique ==
  pc = "done" =>
    \A x, y \in DOMAIN items :
      (x # y /\ items[x].name = items[y].name) =>
        "method" \in {items[x].kind, items[y].kind} /\ items[x].kind # items[y].kind

(* Loading ends, with a program or with a diagnostic.                      *)
Ends == <>(pc = "done" \/ (pc = "failed" /\ diagnostics # {}))
=============================================================================
