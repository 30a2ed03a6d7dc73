------------------------------ MODULE MCGraphs ------------------------------
(* One instance for the two graphs a program is found by, for TLC.         *)
EXTENDS JoinedGraphs

----------------------------------------------------------------------------
(* The modules.                                                            *)

CONSTANTS app, tests, math, stdlib, main, util, extra, mathlib, io, x, y

MCDirs == {app, tests, math, stdlib}
MCNames == {main, util, extra, mathlib, io, Lib}

File(d, n) == <<d, n>>
UpTo(n, S) == UNION {[1 .. k -> S] : k \in 0 .. n}
Silent(files) == [f \in files |-> [k \in Kinds |-> <<>>]]

(* The package app with sources in app, tests in tests, and a dependency.  *)
Packages ==
  [d \in Dirs |->
     CASE d \in {app, tests} ->
            [root |-> app,
             dependencies |-> [n \in Names |-> IF n = mathlib THEN math ELSE NoDir]]
       [] d = math -> [root |-> math, dependencies |-> [n \in Names |-> NoDir]]
       [] OTHER -> NoPackage]

Local == {File(app, main), File(app, util), File(app, extra), File(math, Lib), File(stdlib, io)}

(* Every way three modules of a package can import one another, a module   *)
(* of the dependency, one of the stdlib and one that is missing.           *)
Loads ==
  {[files |-> Local, root |-> File(app, main), broken |-> {}, unreadable |-> {},
    imports |-> [f \in Local |->
                   CASE f = File(app, main) -> a
                     [] f = File(app, util) -> b
                     [] f = File(app, extra) -> c
                     [] OTHER -> <<>>],
    declares |-> Silent(Local), package |-> Packages] :
     a \in UpTo(2, {main, util, extra, mathlib, io, Lib}),
     b \in UpTo(2, {main, util, extra, mathlib}),
     c \in UpTo(1, {main, util, extra, io})}

(* Every failure a file can bring, for modules of a test next to a package *)
(* that may have a module with a reserved name, and may be invalid.        *)
Around == {File(tests, main), File(tests, util), File(app, util), File(app, io),
           File(math, Lib), File(stdlib, io)}
Failures ==
  {[files |-> files, root |-> File(tests, main), broken |-> broken, unreadable |-> unreadable,
    imports |-> [f \in files |->
                   CASE f = File(tests, main) -> a
                     [] f = File(math, Lib) -> <<io>>
                     [] f = File(app, util) -> <<mathlib>>
                     [] OTHER -> <<>>],
    declares |-> Silent(files), package |-> package] :
     files \in {S \in SUBSET Around : {File(tests, main), File(math, Lib)} \subseteq S},
     broken \in {{}, {File(tests, main)}, {File(app, util)}, {File(math, Lib)}},
     unreadable \in {{}, {File(math, Lib)}},
     a \in UpTo(2, {util, mathlib, io}),
     package \in {Packages, [Packages EXCEPT ![math] = InvalidPackage]}}
MCPossible(S) == {p \in S : p.broken \cup p.unreadable \subseteq p.files}

LoadPrograms == Loads \cup MCPossible(Failures)

(* Every way two modules can declare two names in the four kinds; one of   *)
(* them twice.                                                             *)
Pair == {File(app, main), File(app, util)}
Declarations == UNION {[Kinds -> {<<>>, <<x>>}], [Kinds -> {<<>>, <<x, x>>, <<y>>}]}
DeclarePrograms ==
  {[files |-> Pair, root |-> File(app, main), broken |-> {}, unreadable |-> {},
    imports |-> [f \in Pair |-> IF f = File(app, main) THEN <<util>> ELSE <<>>],
    declares |-> [f \in Pair |-> IF f = File(app, main) THEN a ELSE b],
    package |-> Packages] : a \in Declarations, b \in Declarations}

SmallPrograms == LoadPrograms \cup DeclarePrograms

(* A struct in one module and an enum of the same name in another.         *)
ClashPrograms ==
  {p \in DeclarePrograms : \A f \in Pair : \A k \in Kinds : Len(p.declares[f][k]) <= 1}

----------------------------------------------------------------------------
(* The packages.                                                           *)
CONSTANTS left, right, appMod, leftMod, rightMod, e1, e2

(* Three directories: the root and two that may depend on each other, and  *)
(* on the root.                                                            *)
Dep(n, d) == [alias |-> n, root |-> d]
Mod(m, e, ds) == [module |-> m, edition |-> e, dependencies |-> ds]
Dir(m, hasMain, hasLib) == [manifest |-> m, main |-> hasMain, lib |-> hasLib]

AppContents ==
  {Dir(Mod(appMod, e1, ds), TRUE, TRUE) :
     ds \in {<<>>, <<Dep(1, left)>>, <<Dep(1, left), Dep(2, right)>>,
             <<Dep(1, right), Dep(2, left)>>}}
  \cup {Dir(Mod(appMod, e2, <<Dep(1, left), Dep(2, left)>>), FALSE, lib) : lib \in BOOLEAN}
  \cup {Dir(NoManifest, TRUE, FALSE), Dir(BadManifest, TRUE, FALSE)}
LeftContents ==
  {Dir(Mod(leftMod, e, ds), FALSE, TRUE) :
     e \in {e1, e2}, ds \in {<<>>, <<Dep(1, right)>>, <<Dep(2, app)>>}}
  \cup {Dir(BadManifest, FALSE, TRUE)}
RightContents ==
  {Dir(Mod(m, e1, ds), FALSE, TRUE) : m \in {leftMod, rightMod}, ds \in {<<>>, <<Dep(1, left)>>}}
  \cup {Dir(Mod(rightMod, e1, <<>>), FALSE, FALSE), Dir(NoManifest, FALSE, FALSE)}
SomeContents == [d \in Roots |->
  CASE d = app -> AppContents [] d = left -> LeftContents [] d = right -> RightContents]
=============================================================================
