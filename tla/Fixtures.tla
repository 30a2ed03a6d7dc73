------------------------------ MODULE Fixtures ------------------------------
(***************************************************************************)
(* One language test file under `gof test`: its tests run one after the    *)
(* other, each resolves the typed fixtures it needs (interpreter.rs), and  *)
(* fixtures are torn down after the test or after the file.  The human     *)
(* report and the machine reports (--json, --junit) are two loops of       *)
(* their own (tools/gof-cli/src/test_runner.rs).                           *)
(***************************************************************************)
EXTENDS Naturals, Sequences, FiniteSets

CONSTANTS
  Names,        (* the fixtures the file declares                          *)
  Scope,        (* Scope[f]: "test" or "module"                            *)
  Tests,        (* how many tests run; they are numbered in their order    *)
  TestContext,  (* the parameter that is not a fixture                     *)
  Needs,        (* Needs[x]: the parameters of fixture or test x, in order *)
  Runs          (* the <<report, --fail-fast>> pairs considered            *)

(* The compiler rejects unknown fixtures, cycles (so fixtures have ranks,  *)
(* above those of what they need), and module fixtures that need a test    *)
(* fixture or a TestContext.                                               *)
FixturesResolve ==
  /\ Needs \in [Names \cup 1 .. Tests -> Seq(Names \cup {TestContext})]
  /\ \E rank \in [Names -> 0 .. Cardinality(Names)] :
       \A f \in Names : \A i \in DOMAIN Needs[f] :
         Needs[f][i] # TestContext => rank[Needs[f][i]] < rank[f]
  /\ \A f \in Names : Scope[f] = "module" =>
       \A i \in DOMAIN Needs[f] :
         Needs[f][i] # TestContext /\ Scope[Needs[f][i]] = "module"

ASSUME FixtureAssumption ==
  /\ Tests \in Nat \ {0} /\ IsFiniteSet(Names)
  /\ Names \cap (1 .. Tests) = {} /\ TestContext \notin Names
  /\ Scope \in [Names -> {"test", "module"}]
  /\ FixturesResolve
  /\ Runs \subseteq {"human", "machine"} \X BOOLEAN

VARIABLES
  mode, failFast,
  pc,           (* where the runner is                                     *)
  current,      (* the test that runs, or ran last                         *)
  stack,        (* resolve_fixture's calls: <<who, its next parameter>>    *)
  testOrder, testCache,       (* test_fixture_order and _cache             *)
  moduleOrder, moduleCache,   (* of TestModuleState                        *)
  context,      (* the test's TestContext exists                           *)
  outcome,      (* the test's outcome so far                               *)
  cleanupError, (* a cleanup of this test, or of the module, failed        *)
  counts,       (* RunSummary                                              *)
  failures,     (* how many ids failed                                     *)
  stopped,      (* stopped after the first failure                         *)
  (* History.                                                              *)
  made,         (* made[f]: how often f was made in this test or file      *)
  live,         (* the fixtures made whose cleanup has not run             *)
  faulty        (* the tests something of which failed; 0 is the teardown  *)
                (* of the module                                           *)

vars == <<mode, failFast, pc, current, stack, testOrder, testCache, moduleOrder,
          moduleCache, context, outcome, cleanupError, counts, failures,
          stopped, made, live, faulty>>

PCs == {"next", "resolve", "body", "cleanTest", "cleanContext", "report",
        "cleanModule", "reportModule", "done"}
Outcomes == {"none", "passed", "skipped", "todo", "failed"}
Zero == [passed |-> 0, failed |-> 0, skipped |-> 0, todo |-> 0]

TypeOK ==
  /\ <<mode, failFast>> \in Runs
  /\ pc \in PCs /\ current \in 0 .. Tests
  /\ stack \in Seq((Names \cup 1 .. Tests) \X (Nat \ {0}))
  /\ testOrder \in Seq(Names) /\ testCache \subseteq Names
  /\ moduleOrder \in Seq(Names) /\ moduleCache \subseteq Names
  /\ context \in BOOLEAN /\ cleanupError \in BOOLEAN /\ stopped \in BOOLEAN
  /\ outcome \in Outcomes
  /\ counts \in [{"passed", "failed", "skipped", "todo"} -> 0 .. Tests + 1]
  /\ failures \in 0 .. Tests + 1
  /\ made \in [Names -> 0 .. 1] /\ live \subseteq Names
  /\ faulty \subseteq 0 .. Tests

Init ==
  /\ \E run \in Runs : mode = run[1] /\ failFast = run[2]
  /\ pc = "next" /\ current = 0 /\ stack = <<>>
  /\ testOrder = <<>> /\ testCache = {}
  /\ moduleOrder = <<>> /\ moduleCache = {}
  /\ context = FALSE /\ outcome = "none" /\ cleanupError = FALSE
  /\ counts = Zero /\ failures = 0 /\ stopped = FALSE
  /\ made = [f \in Names |-> 0] /\ live = {} /\ faulty = {}

----------------------------------------------------------------------------
(* Running a test                                                          *)

runner == <<mode, failFast, counts, failures, stopped>>
moduleState == <<moduleOrder, moduleCache>>
testState == <<testOrder, testCache>>

Blame(failed, who) == IF failed THEN faulty \cup {who} ELSE faulty
OfScope(scope) == {f \in Names : Scope[f] = scope}

StartTest ==
  /\ pc = "next" /\ current < Tests
  /\ current' = current + 1
  /\ stack' = <<<<current + 1, 1>>>>
  /\ testOrder' = <<>> /\ testCache' = {}
  /\ context' = FALSE
  /\ outcome' = "none" /\ cleanupError' = FALSE
  /\ made' = [f \in Names |-> IF Scope[f] = "test" THEN 0 ELSE made[f]]
  /\ pc' = "resolve"
  /\ UNCHANGED <<runner, moduleState, live, faulty>>

Top == stack[Len(stack)]
Rest == SubSeq(stack, 1, Len(stack) - 1)

(* Fixtures are looked up in the test's cache, then in the module's.       *)
Cached == testCache \cup moduleCache

(* The parameter the call at the top is to bind next.                      *)
Wants(f) == Top[2] <= Len(Needs[Top[1]]) /\ f = Needs[Top[1]][Top[2]]
BoundAll == Top[2] > Len(Needs[Top[1]])
Bound == [stack EXCEPT ![Len(stack)] = <<Top[1], Top[2] + 1>>]

ResolveCached ==
  /\ pc = "resolve"
  /\ \E f \in Cached : Wants(f)
  /\ stack' = Bound
  /\ UNCHANGED <<runner, pc, current, testState, moduleState, context, outcome,
                 cleanupError, made, live, faulty>>

(* The first TestContext parameter makes the test's one context.           *)
BindContext ==
  /\ pc = "resolve" /\ Wants(TestContext)
  /\ context' = TRUE
  /\ stack' = Bound
  /\ UNCHANGED <<runner, pc, current, testState, moduleState, outcome,
                 cleanupError, made, live, faulty>>

(* A fixture that is not there yet: its own parameters come first.         *)
ResolveNeeded ==
  /\ pc = "resolve"
  /\ \E f \in Names \ Cached :
       /\ Wants(f)
       /\ stack' = Append(stack, <<f, 1>>)
  /\ UNCHANGED <<runner, pc, current, testState, moduleState, context, outcome,
                 cleanupError, made, live, faulty>>

(* The fixture's function returns a value: it is cached, in its scope, and *)
(* its caller goes on with its next parameter.                             *)
MakeFixture ==
  /\ pc = "resolve" /\ Len(stack) > 1 /\ BoundAll
  /\ LET f == Top[1] IN
     /\ IF Scope[f] = "test"
          THEN /\ testOrder' = Append(testOrder, f)
               /\ testCache' = testCache \cup {f}
               /\ UNCHANGED moduleState
          ELSE /\ moduleOrder' = Append(moduleOrder, f)
               /\ moduleCache' = moduleCache \cup {f}
               /\ UNCHANGED testState
     /\ made' = [made EXCEPT ![f] = @ + 1]
     /\ live' = live \cup {f}
  /\ stack' = [Rest EXCEPT ![Len(Rest)] = <<@[1], @[2] + 1>>]
  /\ UNCHANGED <<runner, pc, current, context, outcome, cleanupError, faulty>>

(* It fails, returns Err, or asks to skip: the test ends without its body. *)
FixtureFails ==
  /\ pc = "resolve" /\ Len(stack) > 1 /\ BoundAll
  /\ outcome' \in {"failed", "skipped", "todo"}
  /\ stack' = <<>> /\ pc' = "cleanTest"
  /\ faulty' = Blame(outcome' = "failed", current)
  /\ UNCHANGED <<runner, current, testState, moduleState, context,
                 cleanupError, made, live>>

EnterBody ==
  /\ pc = "resolve" /\ Len(stack) = 1 /\ BoundAll
  /\ stack' = <<>> /\ pc' = "body"
  /\ UNCHANGED <<runner, current, testState, moduleState, context, outcome,
                 cleanupError, made, live, faulty>>

BodyEnds ==
  /\ pc = "body"
  /\ outcome' \in Outcomes \ {"none"}
  /\ faulty' = Blame(outcome' = "failed", current)
  /\ pc' = "cleanTest"
  /\ UNCHANGED <<runner, current, stack, testState, moduleState, context,
                 cleanupError, made, live>>

----------------------------------------------------------------------------
(* Teardown                                                                *)

(* Which one is torn down next: the last made.                             *)
(* Wrong: the fixtures are torn down in the order they were made.          *)
FirstOf(order) == 1
LastOf(order) == Len(order)
Without(order, i) == [j \in 1 .. Len(order) - 1 |-> IF j < i THEN order[j] ELSE order[j + 1]]

(* A cleanup hook succeeds or fails.                                       *)
HookRuns(who) ==
  \E failed \in BOOLEAN :
    cleanupError' = (cleanupError \/ failed) /\ faulty' = Blame(failed, who)

(* cleanup_fixture_cache: one fixture after the other, last made first; a  *)
(* failing hook does not keep the others from running.                     *)
CleanTestFixture ==
  /\ pc = "cleanTest" /\ testOrder # <<>>
  /\ LET i == LastOf(testOrder) IN
     /\ testOrder' = Without(testOrder, i)
     /\ testCache' = testCache \ {testOrder[i]}
     /\ live' = live \ {testOrder[i]}
  /\ HookRuns(current)
  /\ UNCHANGED <<runner, pc, current, stack, moduleState, context, outcome, made>>

TestFixturesCleaned == pc = "cleanTest" /\ testOrder = <<>>

(* Then the TestContext, if any, removes files and restores variables.     *)
CleanContext ==
  /\ TestFixturesCleaned
  /\ IF context THEN HookRuns(current) ELSE UNCHANGED <<cleanupError, faulty>>
  /\ context' = FALSE
  /\ pc' = "report"
  /\ UNCHANGED <<runner, current, stack, testState, moduleState, outcome, made, live>>

----------------------------------------------------------------------------
(* Reports                                                                 *)

(* Wrong: a skipped or passed test stays so although its cleanup failed.   *)
VerdictOfBody == outcome

(* A failed cleanup fails the test whatever its outcome.                   *)
Verdict == IF cleanupError THEN "failed" ELSE outcome

(* The human loop breaks out of the file's tests on the first failure, the *)
(* machine loop out of the loop over the files.                            *)
Report ==
  /\ pc = "report"
  /\ counts' = [counts EXCEPT ![Verdict] = @ + 1]
  /\ LET failed == Verdict = "failed" IN
     /\ failures' = IF failed THEN failures + 1 ELSE failures
     /\ stopped' = (failed /\ failFast)
     /\ pc' = IF failed /\ failFast
                THEN (IF mode = "human" THEN "cleanModule" ELSE "done")
              ELSE IF current = Tests THEN "cleanModule" ELSE "next"
  /\ cleanupError' = FALSE
  /\ UNCHANGED <<mode, failFast, current, stack, testState, moduleState, context,
                 outcome, made, live, faulty>>

CleanModuleFixture ==
  /\ pc = "cleanModule" /\ moduleOrder # <<>>
  /\ LET i == LastOf(moduleOrder) IN
     /\ moduleOrder' = Without(moduleOrder, i)
     /\ moduleCache' = moduleCache \ {moduleOrder[i]}
     /\ live' = live \ {moduleOrder[i]}
  /\ HookRuns(0)
  /\ UNCHANGED <<runner, pc, current, stack, testState, context, outcome, made>>

ReportModule ==
  /\ pc = "cleanModule" /\ moduleOrder = <<>>
  /\ IF cleanupError
       THEN /\ counts' = [counts EXCEPT !["failed"] = @ + 1]
            /\ failures' = failures + 1
            /\ stopped' = (stopped \/ failFast)
       ELSE UNCHANGED <<counts, failures, stopped>>
  /\ pc' = "done"
  /\ UNCHANGED <<mode, failFast, current, stack, testState, moduleState, context,
                 outcome, cleanupError, made, live, faulty>>

Next ==
  \/ StartTest
  \/ ResolveCached \/ BindContext \/ ResolveNeeded \/ MakeFixture \/ FixtureFails
  \/ EnterBody \/ BodyEnds
  \/ CleanTestFixture \/ CleanContext \/ Report
  \/ CleanModuleFixture \/ ReportModule

Spec == Init /\ [][Next]_vars

----------------------------------------------------------------------------
(* Properties                                                              *)

FixturesOf(x) == {Needs[x][i] : i \in DOMAIN Needs[x]} \ {TestContext}
HasContext(x) == \E i \in DOMAIN Needs[x] : Needs[x][i] = TestContext

(* Whatever runs, or has yet to be torn down, finds everything it was made *)
(* from still alive: teardown goes in reverse dependency order in and      *)
(* across the two scopes and before the TestContext's (rfcs/0042), and a   *)
(* cache never hands out a fixture that is gone.                           *)
DependenciesOutlive ==
  /\ \A f \in live : FixturesOf(f) \subseteq live /\ (HasContext(f) => context)
  /\ pc = "body" => FixturesOf(current) \subseteq live /\ (HasContext(current) => context)
  /\ Cached \subseteq live

(* No test sees a fixture of an earlier one, and no fixture is made twice  *)
(* for the test or file it is scoped to (spec/language-v1.md).             *)
ScopesHold ==
  /\ TypeOK
  /\ \A f \in Names : made[f] <= 1
  /\ pc \in {"next", "report", "cleanModule", "done"} => live \subseteq OfScope("module")

(* Every fixture that was made has been torn down when the file is done    *)
(* (spec/language-v1.md: module-scoped fixture cleanup runs once after the *)
(* language test file finishes).                                           *)
NothingIsLeft == pc = "done" => live = {}

(* A fixture lives from before whatever is made from it to after that is   *)
(* torn down, is made once for its scope, never seen outside it, and torn  *)
(* down in the end.                                                        *)
FixturesLive == DependenciesOutlive /\ ScopesHold /\ NothingIsLeft

(* The report tells the truth: every test that ran is counted once, a test *)
(* counts as failed exactly when its body, one of its fixtures or one of   *)
(* its cleanups failed, the module's teardown when one of its hooks did,   *)
(* and only a failure under --fail-fast leaves tests out.                  *)
Honest ==
  pc \in {"next", "done"} =>
    /\ counts["failed"] = failures /\ failures = Cardinality(faulty)
    /\ counts["passed"] + counts["failed"] + counts["skipped"] + counts["todo"]
         = Cardinality(1 .. current \cup faulty)
    /\ stopped => failFast /\ failures > 0
    /\ pc = "done" /\ current < Tests => stopped
=============================================================================
