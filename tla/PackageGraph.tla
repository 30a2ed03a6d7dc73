---------------------------- MODULE PackageGraph ----------------------------
(***************************************************************************)
(* gof.mod and gof.lock (package.rs): the packages a root depends on are   *)
(* read depth first from their manifests, each time one is met, while      *)
(* their owner may edit them; the first thing that is wrong ends it.  What *)
(* was found is written as the lockfile (`gof mod resolve`) or compared    *)
(* with it (`gof run`, `gof build`, `gof test`).                           *)
(***************************************************************************)
EXTENDS Naturals, Sequences, FiniteSets

CONSTANTS
  Roots,        (* directories of packages                                 *)
  Main,         (* the one the command is given                            *)
  Modules, Editions,
  Aliases,      (* names of dependencies; numbers, for their order         *)
  NoManifest,   (* there is no gof.mod                                     *)
  BadManifest,  (* or it does not parse                                    *)
  NoLock,
  Contents,     (* Contents[r]: the contents the directory r may have      *)
  MaxEdits      (* bound on edits                                          *)

Dependency == [alias : Aliases, root : Roots]
Manifest == [module : Modules, edition : Editions, dependencies : Seq(Dependency)]
Directory == [manifest : Manifest \cup {NoManifest, BadManifest},
              main : BOOLEAN, lib : BOOLEAN]

(* What is assumed of the constants: the dependencies of a manifest are in *)
(* the order of their names.                                               *)
PackageAssumption ==
  /\ Main \in Roots /\ Aliases \subseteq Nat /\ MaxEdits \in Nat
  /\ {NoManifest, BadManifest} \cap Manifest = {}
  /\ \A r \in Roots : Contents[r] \subseteq Directory
  /\ \A r \in Roots : \A c \in Contents[r] : c.manifest \in Manifest =>
       \A i, j \in DOMAIN c.manifest.dependencies : i < j =>
         c.manifest.dependencies[i].alias < c.manifest.dependencies[j].alias

VARIABLES
  disk,         (* disk[r]: what is in the directory r                     *)
  lock,         (* the lockfile                                            *)
  pc,           (* "idle", "context", "root", "visit", "finish"            *)
  command,      (* "write" or "check"                                      *)
  stack,        (* the packages being visited, with what they are past     *)
  packages,     (* the packages resolved, in that order                    *)
  modules,      (* modules: <<module, root>> of the packages met           *)
  answer,       (* of the last command                                     *)
  locked,       (* the manifests that the lockfile was made from           *)
  edits,        (* number of edits                                         *)
  disturbed     (* one of them was made while the command was running      *)

vars == <<disk, lock, pc, command, stack, packages, modules, answer, locked, edits, disturbed>>

Answers == {"none", "written", "fresh", "stale", "no lock", "no package",
            "manifest", "missing", "cycle", "module", "metadata", "entry"}
Known(m) == m \notin {NoManifest, BadManifest}

TypeOK ==
  /\ disk \in [Roots -> Directory]
  /\ pc \in {"idle", "context", "root", "visit", "finish"}
  /\ command \in {"write", "check"}
  /\ \A i \in DOMAIN stack :
       /\ stack[i].root \in Roots /\ Known(stack[i].manifest)
       /\ Len(stack[i].found) < stack[i].next
  /\ \A i, j \in DOMAIN stack : stack[i].root = stack[j].root => i = j
  /\ modules \subseteq Modules \X Roots
  /\ answer \in Answers
  /\ edits \in 0 .. MaxEdits /\ disturbed \in BOOLEAN

----------------------------------------------------------------------------
(* The lockfile                                                            *)

(* Wrong: the digest of a manifest is of the names of dependencies only.   *)
DigestOfNames(m) ==
  [module |-> m.module, edition |-> m.edition,
   dependencies |-> [i \in DOMAIN m.dependencies |-> m.dependencies[i].alias]]

(* manifest_digest: of the module, the edition, and the dependencies with  *)
(* their paths.                                                            *)
Digest(m) ==
  [module |-> m.module, edition |-> m.edition, dependencies |-> m.dependencies]

Bag(s) == [m \in {s[i] : i \in DOMAIN s} |-> Cardinality({i \in DOMAIN s : s[i] = m})]

(* A package by its path (and identity), its digest, and its sorted        *)
(* dependencies.                                                           *)
LockedPackage(p) ==
  [root |-> p.root, module |-> p.manifest.module, digest |-> Digest(p.manifest),
   dependencies |-> Bag(p.found), entry |-> p.entry]

Resolved == {packages[i] : i \in DOMAIN packages}
Lockfile ==
  [packages |-> {LockedPackage(p) : p \in Resolved},
   edition |-> {p.manifest.edition : p \in {q \in Resolved : q.root = Main}}]

----------------------------------------------------------------------------
(* A command                                                               *)

world == <<disk, edits, disturbed>>

Fail(why) ==
  /\ pc' = "idle" /\ answer' = why
  /\ UNCHANGED <<stack, packages, modules>>

Begin(c) ==
  /\ pc = "idle" /\ command' = c
  /\ stack' = <<>> /\ packages' = <<>> /\ modules' = {} /\ disturbed' = FALSE
  /\ answer' = "none"
  /\ pc' = IF c = "check" THEN "context" ELSE "root"
  /\ UNCHANGED <<disk, edits, lock, locked>>

(* Reading the manifest of a dependency, or of the root.                   *)
Problem(r) ==
  CASE disk[r].manifest = NoManifest -> {"missing"}
    [] disk[r].manifest = BadManifest -> {"manifest"}
    [] OTHER -> {}

(* find_package_context_for_source                                         *)
Context ==
  /\ pc = "context"
  /\ LET m == disk[Main].manifest IN
     CASE m = NoManifest -> Fail("no package")
       [] m = BadManifest -> Fail("manifest")
       [] Known(m) /\ \E i \in DOMAIN m.dependencies :
            disk[m.dependencies[i].root].manifest = NoManifest -> Fail("missing")
       [] OTHER -> pc' = "root" /\ UNCHANGED <<stack, packages, modules, answer>>
  /\ UNCHANGED <<world, lock, locked, command>>

OnStack(r) == \E i \in DOMAIN stack : stack[i].root = r
Rivals(r, m) == {p \in modules : p[1] = m.module /\ p[2] # r}
Earlier(r) == {p \in Resolved : p.root = r}

Push(r, m, below) ==
  /\ stack' = Append(below, [root |-> r, manifest |-> m, next |-> 1, found |-> <<>>])
  /\ modules' = modules \cup {<<m.module, r>>}
  /\ pc' = "visit"
  /\ UNCHANGED <<packages, answer>>

(* What visiting returned is noted in the package that depends on it.      *)
Noting(m, s) ==
  IF s = <<>> THEN s
  ELSE [s EXCEPT ![Len(s)].next = @ + 1, ![Len(s)].found = Append(@, m)]

VisitMain ==
  /\ pc = "root"
  /\ IF Problem(Main) # {}
       THEN \E why \in Problem(Main) : Fail(why)
       ELSE Push(Main, disk[Main].manifest, stack)
  /\ UNCHANGED <<world, lock, locked, command>>

Top == stack[Len(stack)]
Visiting == pc = "visit" /\ Top.next <= Len(Top.manifest.dependencies)
Target == Top.manifest.dependencies[Top.next].root

(* Wrong: a package whose module is registered counts as resolved.         *)
VisitRegisteredFirst ==
  /\ Visiting
  /\ LET r == Target  m == disk[Target].manifest IN
     CASE Problem(r) # {} -> \E why \in Problem(r) : Fail(why)
       [] Problem(r) = {} /\ <<m.module, r>> \in modules ->
            stack' = Noting(m.module, stack) /\ UNCHANGED <<pc, packages, modules, answer>>
       [] Problem(r) = {} /\ <<m.module, r>> \notin modules /\ Rivals(r, m) # {} ->
            Fail("module")
       [] OTHER -> Push(r, m, stack)
  /\ UNCHANGED <<world, lock, locked, command>>

(* A dependency is met: its manifest is read, even if it was before.       *)
Visit ==
  /\ Visiting
  /\ LET r == Target  m == disk[Target].manifest IN
     IF Problem(r) # {} THEN \E why \in Problem(r) : Fail(why)
     ELSE IF OnStack(r) THEN Fail("cycle")
     ELSE IF Rivals(r, m) # {} THEN Fail("module")
     ELSE IF \E p \in Earlier(r) :
               p.manifest.module # m.module \/ p.manifest.edition # m.edition
       THEN Fail("metadata")
     ELSE IF Earlier(r) # {}
       THEN stack' = Noting(m.module, stack) /\ UNCHANGED <<pc, packages, modules, answer>>
     ELSE Push(r, m, stack)
  /\ UNCHANGED <<world, lock, locked, command>>

(* The root prefers src/main.gof, a dependency has src/lib.gof.            *)
Entries(r) ==
  LET mains == {e \in {"main"} : r = Main /\ disk[r].main}
  IN IF mains # {} THEN mains ELSE {e \in {"lib"} : disk[r].lib}

FinishPackage ==
  /\ pc = "visit" /\ ~Visiting
  /\ IF Entries(Top.root) = {} THEN Fail("entry")
     ELSE /\ \E e \in Entries(Top.root) :
               packages' = Append(packages,
                 [root |-> Top.root, manifest |-> Top.manifest, found |-> Top.found, entry |-> e])
          /\ stack' = Noting(Top.manifest.module, SubSeq(stack, 1, Len(stack) - 1))
          /\ pc' = IF Len(stack) = 1 THEN "finish" ELSE "visit"
          /\ UNCHANGED <<modules, answer>>
  /\ UNCHANGED <<world, lock, locked, command>>

(* write_lockfile_for_directory                                            *)
WriteLock ==
  /\ pc = "finish" /\ command = "write"
  /\ lock' = Lockfile
  /\ locked' = [r \in {p.root : p \in Resolved} |->
                  (CHOOSE p \in Resolved : p.root = r).manifest]
  /\ pc' = "idle" /\ answer' = "written"
  /\ UNCHANGED <<world, stack, packages, modules, command>>

(* ensure_fresh_lockfile_for_source                                        *)
CheckLock ==
  /\ pc = "finish" /\ command = "check"
  /\ Fail(CASE lock = NoLock -> "no lock"
            [] lock # NoLock /\ lock = Lockfile -> "fresh"
            [] OTHER -> "stale")
  /\ UNCHANGED <<world, lock, locked, command>>

(* The owner of a directory changes what is in it.                         *)
Edit(r) ==
  /\ edits < MaxEdits /\ edits' = edits + 1
  /\ \E c \in Contents[r] \ {disk[r]} : disk' = [disk EXCEPT ![r] = c]
  /\ disturbed' = TRUE
  /\ UNCHANGED <<lock, pc, command, stack, packages, modules, answer, locked>>

Init ==
  /\ disk \in [Roots -> UNION {Contents[r] : r \in Roots}]
  /\ \A r \in Roots : disk[r] \in Contents[r]
  /\ lock = NoLock /\ locked = <<>>
  /\ pc = "idle" /\ command = "write" /\ answer = "none"
  /\ stack = <<>> /\ packages = <<>> /\ modules = {}
  /\ edits = 0 /\ disturbed = FALSE

Step == Context \/ VisitMain \/ Visit \/ FinishPackage \/ WriteLock \/ CheckLock
Next ==
  \/ \E c \in {"write", "check"} : Begin(c)
  \/ Step
  \/ \E r \in Roots : Edit(r)

Spec == Init /\ [][Next]_vars /\ WF_vars(Step)

----------------------------------------------------------------------------
(* Properties                                                              *)

Fresh == pc = "idle" /\ answer = "fresh"
Accepted == pc = "idle" /\ answer \in {"written", "fresh", "stale", "no lock"}

(* Unless someone edits during the check, a lockfile is fresh if and only  *)
(* if the packages are those it was made from, with the same manifests,    *)
(* whoever is called what, and the same entries.                           *)
FreshIffSame ==
  (Accepted /\ command = "check" /\ lock # NoLock /\ ~disturbed) =>
    LET same ==
          /\ DOMAIN locked = {p.root : p \in Resolved}
          /\ \A r \in DOMAIN locked :
               /\ locked[r] = disk[r].manifest
               /\ \E q \in lock.packages : q.root = r /\ q.entry \in Entries(r)
    IN answer = "fresh" <=> same

(* Whatever is edited meanwhile, what is resolved is closed and without    *)
(* cycles: the dependencies of a package come before it.                   *)
DependenciesFirst ==
  \A i \in DOMAIN packages : \A d \in DOMAIN packages[i].manifest.dependencies :
    \E j \in 1 .. i - 1 : packages[j].root = packages[i].manifest.dependencies[d].root

(* The packages resolved have directories and modules of their own.        *)
OnePackagePerModule ==
  \A i, j \in DOMAIN packages : i # j =>
    /\ packages[i].root # packages[j].root
    /\ packages[i].manifest.module # packages[j].manifest.module

(* What is resolved is sound at every moment of the walk.                  *)
ResolutionIsSound == TypeOK /\ DependenciesFirst /\ OnePackagePerModule

(* A refusal that no edit interfered with is for a reason that is there.   *)
CyclesAreReal ==
  (pc = "idle" /\ answer = "cycle" /\ ~disturbed) =>
    \E i \in DOMAIN stack :
      /\ Target = stack[i].root
      /\ \A k \in i .. Len(stack) - 1 :
           \E d \in DOMAIN disk[stack[k].root].manifest.dependencies :
             disk[stack[k].root].manifest.dependencies[d].root = stack[k + 1].root

(* A command ends, however often its packages are edited.                  *)
Ends == []<>(pc = "idle")
=============================================================================
