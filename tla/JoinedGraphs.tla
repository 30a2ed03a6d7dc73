---------------------------- MODULE JoinedGraphs ----------------------------
(* The two graphs a program is found by: that of its packages, with the    *)
(* lockfile (part = "packages"), and that of its modules.  They share no   *)
(* step: a behaviour is of the one or of the other.                        *)
EXTENDS ModuleGraph

CONSTANTS Roots, Main, Modules, Editions, Aliases, NoManifest, BadManifest, NoLock, Contents,
          MaxEdits
VARIABLES part, disk, lock, pkgPc, command, pkgStack, packages, pkgModules, answer, locked,
          edits, disturbed
packageVars == <<disk, lock, pkgPc, command, pkgStack, packages, pkgModules, answer, locked,
                 edits, disturbed>>

P == INSTANCE PackageGraph WITH
       pc <- pkgPc, stack <- pkgStack, modules <- pkgModules
ASSUME GraphsAssumption == P!PackageAssumption

GraphsInit ==
  \/ /\ part = "modules" /\ Init
     /\ disk = <<>> /\ lock = NoLock /\ pkgPc = "" /\ command = "" /\ pkgStack = <<>>
     /\ packages = <<>> /\ pkgModules = {} /\ answer = "" /\ locked = <<>> /\ edits = 0
     /\ disturbed = FALSE
  \/ /\ part = "packages" /\ P!Init
     /\ program = <<>> /\ pc = "" /\ stack = <<>> /\ loadOrder = <<>> /\ diagnostics = {}
     /\ module = 0 /\ declaration = <<>> /\ seen = {} /\ items = <<>>
OnModules == part = "modules" /\ UNCHANGED <<part, packageVars>>
OnPackages == part = "packages" /\ UNCHANGED <<part, vars>>
GraphsNext == (OnModules /\ Next) \/ (OnPackages /\ P!Next)
GraphsSpec ==
  /\ GraphsInit /\ [][GraphsNext]_<<part, vars, packageVars>>
  /\ WF_vars(OnModules /\ Next) /\ WF_packageVars(OnPackages /\ P!Step)

(* See PackageGraph.                                                       *)
FreshIffSame == part = "packages" => P!FreshIffSame

(* What is resolved is sound at every moment of the walk, and a refusal    *)
(* for a cycle that no edit interfered with has one (see PackageGraph).    *)
PackagesAreSound == part = "packages" => P!ResolutionIsSound /\ P!CyclesAreReal

(* A command ends, however often its packages are edited; loading ends,    *)
(* with a program or with a diagnostic.                                    *)
BothEnd == (part = "packages" => P!Ends) /\ (part = "modules" => Ends)
=============================================================================
