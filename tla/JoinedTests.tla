----------------------------- MODULE JoinedTests -----------------------------
(* The two things a test file is given: its fixtures (part = "fixtures"),  *)
(* and what a test and its tasks get from a TestContext.  They share no    *)
(* step: a behaviour is of the one or of the other.                        *)
EXTENDS Fixtures

CONSTANTS Processes, Body, Tasks, Variables, Values, Originally, Kinds, Awaits, MaxCalls,
          TestsOfContext
VARIABLES part, env, disk, nextId, resources, thread, tester, undo
contextVars == <<env, disk, nextId, resources, thread, tester, undo>>

C == INSTANCE TestContext WITH Tests <- TestsOfContext, runner <- tester
ASSUME TestsAssumption == C!TestContextAssumption

TestsInit ==
  \/ /\ part = "fixtures" /\ Init
     /\ env = <<>> /\ disk = <<>> /\ nextId = <<>> /\ resources = <<>> /\ thread = <<>>
     /\ tester = <<>> /\ undo = <<>>
  \/ part = "context" /\ Init /\ mode = "human" /\ failFast /\ C!Init
OnFixtures == part = "fixtures" /\ UNCHANGED <<part, contextVars>>
OnContext == part = "context" /\ UNCHANGED <<part, vars>>
TestsNext == (OnFixtures /\ Next) \/ (OnContext /\ C!Next)
TestsSpec == TestsInit /\ [][TestsNext]_<<part, vars, contextVars>>

(* Between two tests every variable has the value it had before and no     *)
(* file or directory of a test is left; the notes that make it so keep the *)
(* original first, whichever task made them (see TestContext).             *)
TracesAreRemoved ==
  part = "context" => C!EnvRestored /\ C!TempsRemoved /\ C!FirstNoteIsOriginal

(* See TestContext.                                                        *)
TempsArePrivate == part = "context" => C!TempsArePrivate
=============================================================================
