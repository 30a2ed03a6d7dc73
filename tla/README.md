# gof: specifications, model checks and proofs

TLA+ models of gof, from the source of a program to its end: how its packages
and modules are found, what the checker makes of it, how the evaluator runs it,
and what its tasks do to each other through channels, tokens, `select`, sockets
and the test context; and, around a program, the test runner, the watch loop of
`gof run --watch` and the background checks of the VS Code extension.  TLC
checks every module on small instances.  TLAPS proves the main safety properties
of the channels, the tasks, select, the streams, connect, the fixtures, the test
context, the module loader, the package graph and its lockfile, the watch loop and
the editor's checks for every size, and that the channels implement an abstract
line of values.

Paths below are relative to the repository.  `interpreter.rs`, `typed_hir.rs`,
`ast.rs`, `module_graph.rs` and `package.rs` are in `compiler/gof-compiler/src/`,
`main.rs`, `watch.rs` and `test_runner.rs` in `tools/gof-cli/src/`, the extension
in `tools/vscode-gof/`.

## The system

| component | source | state | operations | what is hard |
|---|---|---|---|---|
| cancel tokens, wait signals | interpreter.rs 972-1111 | a flag and a list of weak waiters per token; a generation under a mutex and condvar per thread | cancel, register, notify, wait | flag and notification are two steps; a notification wakes every live waiter and leaves it listed; only dead ones are dropped |
| channels | interpreter.rs 1612-2159 | `queue`, `slot`, `closed`, `receivers`, listeners under one mutex | send, recv, close, try_send, try_recv | wakeups between look and sleep; hand-over through one slot; close and cancel against offers |
| tasks | interpreter.rs 1591-1847, 5352-5407 | result and listeners per handle | spawn, await, await_result, store | a join waits for two sources; failures and panics travel through joins |
| select | interpreter.rs 34-55, 3769-3919, 8866-9162 | arms, guards that count as receivers, a rotation counter per thread | poll, guard, sleep, wake, body | two polling passes, guards that wake others, rotation |
| streams, TCP, HTTP, deadlines | interpreter.rs 279-402, 9707-10395, stdlib/net.gof | one mutex per socket, deadline and token per view | connect, accept, read, write, flush, close | a mutex is held across blocking I/O; 25 ms slices; loops that fail half way |
| evaluator | interpreter.rs 2163-9700 | scope stack, signals of `return`, `?`, loops | statements, expressions, some 130 builtins | three tables (validation, type, work) that must agree |
| type checker | typed_hir.rs | scopes, mutability, the return types inferred so far | statements, expressions, builtins, rounds of inference | inference by rounds with a cap; types that are unknown until the program runs |
| test context | interpreter.rs 434-700, 12080-12240 | restores, temporary paths, `cleaned`; the process' environment | env, temp_dir, temp_file, cleanup | several threads of a test, teardown against late tasks, two processes |
| fixtures, test runner | interpreter.rs 2571-3047, test_runner.rs | caches by scope, outcome and counts | resolve, set up, run, clean, report | failures anywhere in setup, body and teardown |
| module graph | module_graph.rs | loading stack, load order, items | resolve, load, collect | cycles, reserved names, clashes over modules |
| package graph, lockfile | package.rs | stack, resolved packages, gof.lock | lock, check | edits between reads, diamonds, cycles |
| watch loop | watch.rs, main.rs 470-492 | plan, watched roots, running/dirty, stop flag, message queue | plan, run, drain, debounce, wait | edits and Ctrl+C at every moment of the loop |
| VS Code extension | extension.cjs, lib/inflight.cjs, lib/diagnostics.cjs | timer, generation and check in flight per document | schedule, fire, cancel, settle, publish | checks end in any order |
| lexer, parser, formatter, HIR/MIR/SSA, pipeline, CLI | compiler/gof-compiler/src | one pass at a time | pure functions of the source | size, not interleaving |

Interactions.  A blocked thread owns one `WaitSignal` and puts it into the
listener list of what it waits for: a channel, a task, tokens, or all channels
and tokens of a select.  Whoever changes one of these signals every waiter
that is still alive and leaves it on the list; only the waiters that have gone are dropped.  `select` uses the channels' internals directly (guards count as waiting
receivers).  The test runner calls the evaluator, whose fixtures and TestContext
live through setup, body and cleanup.  The watch loop calls `execute_run_target`,
which checks the lockfile (package graph) and then reads the sources (module
graph).  The checker and the evaluator share the tree and nothing else: what the
one accepts the other must be able to run.  The extension starts `gof check`
processes.

## Modules

| module | models | a state variable is | an action is |
|---|---|---|---|
| `Cancellation` | CancelTokenValue, WaitSignal | `token[k]`; `signal[t]`: the generation moved since t read it | raising the flag; notifying the waiters |
| `Channel` | ChannelHandle, with Cancellation | `chan[c]`, `op[t]` (the local variables and place of a send or recv) | one critical section of send, recv, close, or one step of the wait |
| `ChannelPromise` | what a program may rely on of channels: no threads, no locks | `line[c]`, `closed[c]`, what was taken, who was told of the close | offering, withdrawing, taking, closing, telling |
| `Task` | TaskHandle, spawn, joins, with Cancellation | `task[k]`, `thread[t]`, `join[t]`, `answers[t]` | one look, registration, store or notification |
| `Select` | the select statement; EXTENDS Channel | `sel[t]`, `waiting`, `start[t]`, `turn[t]` | polling one arm, making or dropping guards, reading the generation, sleeping |
| `Streams` | the two ends of a TCP connection, a listener, a file | `holder` of each mutex, `open`, what is on the way, `call[t]` | taking the mutex, one slice of 25 ms, a piece read or written, a close, time, a cancel |
| `Connect` | connect to the addresses of a name | the address tried, the round's slice, the clock | one attempt, the end of a round |
| `Types` | types of the checker, values of the evaluator | definitions only: compatibility, merging, `Inhabits` | |
| `Syntax` | ast.rs | definitions only: the nodes, and the stack of scopes | |
| `CallChecks`, `BridgeChecks` | validation and type of each builtin and of each call of the standard library's bridge | definitions only | |
| `CallEvaluator`, `HostCalls`, `BridgeCalls` | the work of each of these, as the set of ways it can end | definitions only | |
| `CallTables` | the dispatch tables of both sides | definitions only | |
| `Calls` | one call from the source to its end | `call`, the values so far, `out` | checking, the value of one argument, the call |
| `Checker` | the checker's walk over expressions and over statements | definitions only | |
| `Evaluator` | the evaluator's walk, as the set of ways it can end | definitions only | |
| `Inference` | the rounds in which lower infers return types | `prog`, `sigs` (inferred so far), `round`, `stage` | a round of inference, the check, the run |
| `Programs` | a program from its source to its end | those of `Inference`, `start`, `end` | those of `Inference`, with the run of a function |
| `Fixtures` | one test file under the runner | caches, live fixtures, counts, the place in the runner | resolving one parameter, making, failing, a hook, a report |
| `TestContext` | threads of tests, several processes | the environment, the disk, restores and temps | one step of env, temp_dir or temp_file, one undo |
| `ModuleGraph` | load_module_graph, collect_items | stack, load order, items | one import, one module, one declaration |
| `PackageGraph` | GraphBuilder, gof.lock | stack, packages, lockfile, disk | one manifest, one command's end, an edit |
| `Watch` | run_watch_loop and its surroundings | disk, watched roots, queue, coordinator | one message, one stage of the loop, one file read, an edit, a step of the Ctrl+C handler |
| `Editor` | extension.cjs | timers, generations, checks, what is shown | an event of the user, a timer, the end of a process |

How they are composed.  `Channel` and `Task` extend `Cancellation`, `Select`
extends `Channel`: an arm polls with the channel's own actions.  `Channel`
instantiates `ChannelPromise` under a refinement mapping (`Promise`).  `Programs`
extends `Inference`, and the two put a checker and an evaluator, which are parameters
of them, one after the other over the same tree (the runs give them those of `Checker`
and `Evaluator`; `Inference` alone reaches no recursive definition, for its proof);
`CallTables` gives both their builtins.

The proofs about a module are in the module of its name with `Proofs` behind it:
`ChannelProofs` (the refinement of `ChannelPromise`, too), `TaskProofs`,
`SelectProofs`, `WatchProofs` and `EditorProofs`; `StreamsProofs` has those of
`Streams` and `Connect`, `TestsProofs` those of `Fixtures` and `TestContext`, and
`GraphProofs` those of `ModuleGraph`, `PackageGraph` and `Inference`.  `SelectProofs` extends
`ChannelProofs` as `Select` extends `Channel`.  The modules called `MC...` instantiate
the models for TLC.  `JoinedSockets`, `JoinedTests`, `JoinedGraphs` and `MCLanguage`
each join two models that never meet in one state, for their runs and their proofs:
the variable `part` says which of the two a behaviour is of, and the variables
of the other do not change.  Every definition that stands for code is listed with
its file and lines under `map` in PROJECT.json.  Definitions whose comment begins
with "Wrong:" or "Mutant" are faulty variants of the one below them; nothing uses
them, except that `mutants` in PROJECT.json names, for each checked property, a
variant that makes TLC report a violation when it is put in.

What the models leave out.  The text of messages, and in the concurrent models
the values that programs compute.  Time, but in `Connect`, which counts slices of
25 ms: elsewhere a deadline or debounce is an event that may come at any
moment, and a timeout token (`cancel_after`) is a token that is cancelled at any
moment.  A mutex is modelled by making a critical section one action, except
where code looks at something outside the mutex while it holds it, or blocks with
it (`Streams`): then the section is split, and `LockHolders` or `holder` keeps
others out.  The generation of a signal is a flag (moved or not moved since it
was read), so its wrap at 2^64 is left out.  Poisoned mutexes are left out.
`TestContext` gives all tests the same prefix; snapshots, and files that the teardown
cannot remove (it reports them and goes on), are left out.  `Fixtures`
has one file; discovery, selection and doctests are left out.  `Watch` has one
package with one dependency, and an event of the watcher is never lost while its
root is watched; lockfile and manifests are read at one moment by each look at them.

`Select` excludes a sender's own guards by its thread.  The code does so by the number of
the select, which differs only while a select that stands in the body of another
one's arm runs with the outer guards alive; such nesting is left out.  In `Streams` an
instance has one deadline and one token, calls take either, both or none; a wall
clock that goes back, and the time the resolution of a name takes, are left out (also
of `Connect`).  `PackageGraph` takes digests for injective, and begins where the
`gof.mod` is, without the search for it in the parent directories.  In `Editor` a
report of an exception (GOFEXT003) is left out: it is published by the same chain of
callbacks as the report it stands for.

In the models of the language text is one of two strings, integers are of a few
bits (two's complement, so that overflow is met), and JSON, bytes and responses are
single opaque values: what is kept is which kinds of values an operation takes, in
which order it refuses them, and each way it can end (a value, a refusal of a
value of the wrong kind, a runtime diagnostic, a panic, no end).  A task runs when
it is started, since what two threads do to each other is the business of `Task`
and `Channel`, and recursion stops after `Fuel` calls.  Type annotations are taken
as resolved.

## Runs

`tlc -config X.cfg M` with the module named in PROJECT.json.

| run | shows | bounds, and why they are enough |
|---|---|---|
| `Channels` | no lost wakeup, exact receiver count, values conserved, truthful reports, every step one of `ChannelPromise` or none, release by close, progress | three threads, two of which send and two receive (one does both), so that each kind of operation meets a rival of its own and of the other kind; capacities 0, 1 and unbounded; two values, each sent at most once, so two sends can be in flight; one token. Channels share nothing but the threads' own signals, so each is explored alone |
| `Tasks` | no lost wakeup, agreement and truth of joins, failures surface, release by completion and by cancel | main and two tasks; main joins both and t1 joins t2, so one task is joined twice and a failure can pass through another; one task of each form of declared result |
| `Selects` | no lost wakeup, balanced guards, one arm takes effect, release by close and cancel, reception, rotation of a select alone in its loop | two threads; one select receives from both channels, by two of its three arms from the same one; one sends to both, one does both on one channel with a default; each thread's counter wraps where the arms of its selects allow; a plain recv and a plain send beside them; capacities 0 and 1 |
| `Watches` | the loop never rests on an outdated run, comes to rest, stops on Ctrl+C within one run | three edits, each at any place of the loop, the one between the two files of a run included: one during the run, one in the rerun it causes, one more while the plan changes. A root that cannot be watched ends the loop. One behaviour edits either the lockfile or the dependency's source |
| `Tests` | teardown complete and in order, scopes, honest counts; environment restored, temporary resources private and removed | three tests over a diamond of two module and two test fixtures, each setup, body and hook failing or not; and two tests in a row, a body and two tasks in the first that make one call each, two variables, one set at first and one not, and two values: three overrides of one variable or of two interleave with each other and with temporary files and directories, whose creation may fail, and the later test, which starts no tasks, sees what the earlier one left |
| `Graphs` | the lockfile is fresh exactly if nothing changed; closed, acyclic resolution; accepted programs are loaded whole, once, in order; items complete and calls unambiguous; both loaders end | three directories (chain, diamond, cycle, rivals), two edits at any moment of any command; all imports among three modules, a dependency's and a stdlib module, up to two per file; all failures of a test next to a package; all declarations of two names in two modules |
| `Editor` | nothing is shown of closed documents, one live check, only a text asked for is shown and in the end the last one is | four events shared by two documents, six about one: open, edit, save, close, change of settings, reopen with a check of each generation still running |
| `Sockets` | no byte lost, doubled or reordered but by a call that reports its failure; every outcome has its reason; a call with something to end it ends; connect gives up only for a reason | two tasks at one end of a connection, one at the other; a menu of calls, no two of one operation on one handle but the exact reads: exact reads with and without controls, reads to the end and writes under a deadline, two bytes each over a buffer of one, so that every loop works in pieces; a listener and a file shared by the two tasks. Connect: names of up to two addresses that answer or refuse after 1, 2 or 3 slices or are silent, deadlines on both sides of these, a cancel before, between and after them |
| `Language` | checker and evaluator agree on every builtin; `range` is exact; accepted programs keep their types and find their names; inference comes to rest | every builtin with the arguments it is meant for and every list that differs from them in one place; all pairs of operands under every operator, all pairs of statements, and modules of up to three functions that call each other; integers of four bits, so that every sum near an end overflows |
| `ChannelTwoSenders` | violation, see below | three threads, one channel(0) |
| `ChannelCancel` | violation, see below | one thread, one token |
| `ProgramReturns` | violation, see below | the bodies of two statements and an end |

Restrictions, and why they are there.  `CallsEnd` leaves out a call that waits for
the mutex of a handle while a call without a deadline holds it: that one may block
for ever, and the waiting call does not look at its own deadline until it has the
mutex.  `RangeIsExact` presupposes that the number behind
the last element fits, too; where it does not see `RangeOverflow`.  `CallsAreSound` asks
nothing of arguments whose type the checker does not
know, since it lets those through on purpose.  `TypesAreKept` is about programs in
which the checker knew every type, every function returns on all of its paths or
on none, and no `return` takes the error of its own `?` for the wrapping: what
happens outside of the last two is the run `ProgramReturns`.  `NamesResolve`
leaves out matches on a value of unknown type, which bind their names only when
they run.  `InferenceSettles` leaves out programs in which functions without a
declared type call each other in a circle (`Orders`), see `ProgramCircles`.

Deadlock is not checked: all threads may have nothing to do, the user may stop
editing, a program, a test run or a command ends.

Fairness.  Threads of the runtime are operating system threads, so each thread
that can take a step in an operation takes one (weak fairness per thread), and a
`cancel` that raised its flag goes on to notify; no thread is forced to *begin*
an operation or to cancel or close anything.  In `Streams` deadlines pass, too;
the peer need not send, nobody has to connect, and a mutex is given to any of those
who wait, so no promise rests on its being fair.  The watch loop is one thread, runs
of programs are assumed to end (a program that runs for ever keeps the loop
where it is by design) and the Ctrl+C handler completes.  In `Editor` timers fire
and `gof check` processes end; the extension gives them no time limit, so this is
an assumption about the compiler.  `Connect`, `ModuleGraph` and `PackageGraph` are
single sequential programs that go on while they can (weak fairness of their step;
no edit is forced).  No strong fairness is assumed anywhere.

Liveness properties of `Channel`, `Task` and `Select` have the form `[]<>~P`, "P
does not hold for ever", where P is "blocked although released".

## Divergences between the code and what it promises

Three are runs of PROJECT.json.

* `ChannelTwoSenders` (`AllReportsAreTrue`): with two senders on a
  channel(0), a sender whose value was received finds the slot refilled by the
  other; on close it removes the other's value and reports ChannelClosed, while
  the other reports Ok (interpreter.rs:1962; spec/language-v1.md:420).
* `ChannelCancel` (`CancelReleasesAll`): a cancel between
  the look at the flag and the read of the generation is missed, and a blocked
  recv sleeps on (interpreter.rs:2075, send has the same order at 2010;
  spec/language-v1.md:426).
* `ProgramReturns` (`AnnotationsHold`): a function that declares a return type
  may fall off its end and return unit, since only the returns it has are
  compared with the declaration; and `return g()?` counts as a Result although it
  returns what is in one (typed_hir.rs:5303; spec/language-v1.md:409).

The others are variants of the runs: to see one, put its property in place of
those of the run's cfg, with the constants given here.

| variant | of | constants | property | what the code does |
|---|---|---|---|---|
| `SelectPhantom` | `Selects` | Values = {v1}, Tokens = {}, Senders and Receivers <- Nobody, Selects <- Phantom | `OkHasReceiver` | the guards of a select live until its arm's body has ended, so another select's send on a channel(0) reports Ok with no receiver there (interpreter.rs:3890) |
| `ProgramCircles` | `ProgramReturns` | Written <- Circles | `InferenceIsStable` | inference stops after one round more than there are functions, and functions in a circle may not have come to rest by then (typed_hir.rs:889; spec/language-v1.md:408: "until the bootstrap type layer reaches a stable result") |
| `SelectTwoReceivers` | `Selects` | Chans = {c0}, Tokens = {}, Senders and Receivers <- Nobody, Selects <- TwoReceivers | `BlockedSelectsRest` | making and dropping a guard notifies the other selects, which do the same: two selects that wait to receive from one channel(0) keep each other awake (interpreter.rs:1888) |
| `SelectRotation` | `Selects` | Threads = {t1}, Tokens = {}, Senders and Receivers <- Nobody, Selects <- TwoSelects | `EveryArmWins` | the rotation counter is the thread's, so in a loop over two selects of two arms each always starts at the same arm (interpreter.rs:50) |
| `CallDeadline` | `Language` | | `LiteralsAreNotSpecial` | a negative duration is refused where it is a literal, and caught by every builtin that takes one when it runs, but by deadline_after (interpreter.rs:10040; spec/language-v1.md:302, spec/diagnostics.md:126) |
| `RangeOverflow` | `Language` | | `RangeFitsItsElements` | range adds the step once more before it looks whether it is done, so that it overflows behind a last element that fits (interpreter.rs:7053) |
| `ConnectTimeout` | `Sockets` | | `TimeoutIsHonoured` | with a token each attempt gets 25 ms and is then made anew, so a peer that answers more slowly is never reached (interpreter.rs:10089; spec/language-v1.md:310) |
| `WatchDependency` | `Watches` | Editable = {"depMod"} | `IdleIsCurrent` | editing a dependency's manifest makes the lockfile stale, whereupon the dependency is no longer watched, and undoing the edit is not noticed (watch.rs:163); the same happens with the dependency's source while the lockfile is stale, which is why `Watches` edits one of them at a time |
| `WatchBurst` | `Watches` | Editable = {"source"} | `RunsHaveNews` | the first change of a burst sets `running` and the second `dirty`, so one burst gives two runs (watch.rs:48) |
| `FixturesMachineFailFast` | `Tests` | Runs <- MachineFailFast | `FixturesLive` | under `--json` or `--junit` with `--fail-fast` the module fixtures are not torn down (test_runner.rs:448) |
| `ContextLateTask` | `Tests` | Awaits = FALSE | `TracesAreRemoved` | a task that its test did not await overrides a variable after the teardown (interpreter.rs:530) |
| `ContextTwoProcesses` | `Tests` | Processes = {p1, p2} | `TempsArePrivate` | two `gof test` processes count temporary names from 1 in one directory (interpreter.rs:689) |
| `ContextNotUnicode` | `Tests` | Originally <- OneIsGarbled | `TracesAreRemoved` | a value that is not Unicode is taken for none, so a variable that had one is removed after the test that overrode it (interpreter.rs:531) |
| `ModulesClash` | `Graphs` | Programs <- ClashPrograms | `NamesAreUnique` | a struct may have the name of an enum of a module loaded earlier (module_graph.rs:252) |
| `EditorOnSave` | `Editor` | Modes = {"onSave"} | `PublishesCurrent` | with runOnSaveOnly an edit does not cancel the check of the saved text (extension.cjs:87) |

The specification gives `write_all` two result types (spec/language-v1.md:296 and
:320); the models follow the code.

## Proofs

Checked by TLAPS for every set of threads, channels, tokens, fixtures, documents and
programs.  A theorem about a property of a run names that property, so that the run
shows it on a small instance.  The type invariants are proved with the rest: that of `Channel`,
`Task`, `Connect` and `ModuleGraph` no run repeats; those of the other modules are
conjuncts of an invariant that is checked (`WaitersExact`, `NeverOutdated`,
`FixturesLive`, `BytesAreConserved`, `ChecksAreFew`, `TracesAreRemoved` and
`PackagesAreSound`).

The assumptions are those each module states of its constants
(`ChannelAssumption`, `SelectAssumption`, ...): threads and values are finitely
many, capacities are naturals or unbounded, the `No...` values are distinct from the
real ones, a select has an arm, fixtures do not need each other in a circle.  Six
theorems have a hypothesis of their own, and each names what the code really
gets wrong outside of it: `NeverRestsOutdated` (`WatchDependency` above),
`FixturesAreReleased` (`FixturesMachineFailFast`), `EnvironmentIsRestored` and
`NoTraceIsLeft` (`Awaits`, see `ContextLateTask`, and `Readable`, see
`ContextNotUnicode`), `TempsStayPrivate` and again
`NoTraceIsLeft` (`OneProcess`, see `ContextTwoProcesses`), and `OneArmWins`
(`OneOfferer`, see `ChannelTwoSenders`).  A seventh, `InferenceComesToRest`, is about
any checker that leaves declared types as they are and looks at no signatures but
those of the functions a body calls (`LooksAtCallees`, `FindsTypes`): the run
`Language` checks `LooksAtCallees` of `Checker` as an assumption of `MCLanguage`, on all
its modules of functions that call each other and with every choice of two types for
each function; that the checker finds a type of every function (`FindsTypes`) is so by
what it is made of.

`ChannelProofs`.  `TypeCorrect` needs `ReceiverCountExact`, because the type of
`receivers` as a natural number rests on every decrement having a holder, which
in turn needs the types: the inductive invariant is `TypeInv == TypeOK /\
OperationShape /\ ReceiverCountExact`, and `ReceiverCountCorrect` falls out of it.
`NoLostWakeup` (`SleepersHaveNoWork`) is not inductive either: a thread about to
read the generation must still have no work (`ArmedHaveNoWork`, because it holds
the mutex) and must be on the list (`WaitersRegistered`, because a
notification signals everyone on the list at once, and only who leaves is off it).  The proof goes by the kind of
step: a quiet step changes no channel a sleeper waits for, a notifying step
leaves no unsignalled sleeper on its channel.

Its second part is that `Channel` implements `ChannelPromise`: `KeepsPromise` is
`Spec => PromiseKept`.  The abstract line of a channel is its slot or its queue,
so the invariant needed is that a channel uses only one of them, and that only
sends on a channel(0) hold an offer (`KindsApart`); and that once a receiver was
told of the close there is nothing left and nothing more can come (`ToldIsTrue`).
Every action is then shown to be quiet (it changes nothing the promise sees) or to
have one effect on one channel, and each kind of effect is a step of the promise.
`ClosedStaysFinal` (no receiver takes a value once one was told of the close) is a
consequence of the same invariant.

Its third part is what becomes of the values.  `ValueInv` joins the two properties
(`ValuesConserved`, `ReportsTrue`) with `SendsApart`, no two sends under way have the
same value and none that has a fate, and with `SlotIsOwn`, on a channel(0) with
one sender the slot holds that sender's offer or the offer was taken.  With two
senders `SlotIsOwn` fails, which is the divergence `ChannelTwoSenders`; `FateKnown`,
that what was delivered was reported Ok or is an offer just taken, is therefore
stated of the channels with a buffer or with one sender, as `ReportsAreTrue` is.

`TaskProofs`.  `Inv` is `TypeInv /\ WaitInv /\ AnswerInv`.  `WaitInv` says
that a registered join is on the lists of its task and its token; `SleepersWait`
follows because the join looks once more after registering.  `AnswerInv` says
that each answer was the outcome stored, and that a thread that awaited
a failed direct task is failing or has failed; `JoinsAgree` and
`FailuresPropagate` follow, and `CompletionWins` is the action property of the
same invariant.

`SelectProofs`.  `SelectInv` adds to the channels' `TypeInv` that each count of
waiting receivers is the number of guards held (`GuardsCounted`) and where guards
may be held at all (`SelectShape`); `WaitersCounted` is in it.  It also has the steps of
plain senders and receivers as they are in `Channel`, so all of `TypeInv` carries
over.  `SelectsLoseNoWakeup` needs three things (`SelectWell`): a select that is
blocking is registered with every channel and token of its arms; in the second
poll, unless it was notified since it read the generation, the arms it is past
have no work; and so has every arm when it sleeps.  That the second poll passes every
arm, wherever it starts, is the lemma `EveryArmMet` on remainders.  That it stays so
while others move is `Informed`: whatever gives a channel a value, room, a close, a
waiting receiver or a guard signals everyone in its list, shown once for each
kind of step of anyone (`StepInforms`, `CallInforms`, `SelectInforms`).
`SelectsKeepPromise` classes every step by what it does to a channel's line (an
offer joins, a value is taken, a close, or nothing), with the lemmas of
`ChannelProofs` for the steps of plain senders and receivers.

`OneArmWins` needs `OneArmInv`.  The *trail* of a channel is what was taken from it
followed by what is on offer in it.  A value is on at most one trail and
once on it; on one if its send succeeded; and on one only if it succeeded or is a
plain send that waits to be told so (`Placed`).  The values under way belong to one
thread each (`OwnersApart`), so the siblings of the arm that wins are on no trail when
they are reported unsent.  A sender that withdraws its offer takes out of the slot
what is its own (`OffersFit`), and that is where the hypothesis is needed:
`OneOfferer` says that a channel(0) on which plain sends are made has one thread
that offers, by plain sends or by arms.  With two, a plain sender whose value was taken
can find the slot filled again, by a send or by an arm of a select, and withdraw that
value as its own: the divergence `ChannelTwoSenders` once more.  Channels with a buffer,
and channels(0) on which only selects send, are not restricted, nor are receivers,
closes and cancels.

`StreamsProofs`.  `PartitionInv` says that the places of the bytes taken
from a direction of the connection are partitioned: kept in a result, lost with a
failed call, or in the hands of exactly one call.  To keep it, a byte must be taken
by a call that has the mutex (`MutexInv`), in order (`OrderInv`), and a write must
report places that hold its own bytes (`WrittenInv`).  `BytesConserved` is its
consequence and `OutcomesHonest` that of `ResultsInv`: each call that ended has a
reason for its outcome, in terms of the controls it was given and of what
happened to the connection.  `GivesUpForAReason` is about `Connect`: with a token the
clock is at most `next - 1` slices past the last look at the deadline and the token,
and every attempt of the round was refused or too slow (`RoundInv`), so a round
that fails altogether has a reason; without one no attempt passes the deadline, and
the addresses tried so far had all the time there was (`SharedInv`).

`TestsProofs`.  Fixtures: the caches are the orders of creation, each without a repetition
and of its scope (`CacheInv`); what a fixture was made from stands before it
(`OrderInv`), so that taking the last one away harms nobody; the calls of
`resolve_fixture` that wait are a path in the needs (`StackInv`), and no fixture
waits twice, because the ranks that `FixturesResolve` grants fall along it: hence
nothing is made twice (`MadeInv`).  `DependenciesHold` follows for every report.
`FixturesAreReleased` adds that nothing is left alive at the end, if the machine
report does not run with `--fail-fast` (`FixturesMachineFailFast` above is
that case).  `ReportIsHonest` has an invariant of its own, `CountInv`: the counts are
those of the tests before the present one, whose fault is pending.

The test context, for any number of processes, tests, tasks and calls, has an
invariant in layers.  `PhaseInv`: tests of the future have neither threads nor
resources.  `AwaitInv`: a test that ended, by its last statement or by a call that failed, has no thread left
that does anything, so whoever is inside a call belongs to the test that runs; this is where tests must
await their tasks.  `NotesInv`: of the notes of a variable the first has the value
from before the test, a variable without a note has that value still, and whoever is
about to set one has noted it; undoing the notes from the last to the first keeps
this, so that in the end the environment is the one the process began with
(`EnvironmentIsRestored`).
That holds although looking a variable up, noting and setting it are three steps and
two tasks may both find the other's value: one of them found the original and noted it
first.  `OwnersInv` and `DiskInv`: the numbers given out so far are below the counter,
so no two threads have or are getting the same path, and what is about to be made is
not there yet (`TempsStayPrivate`, without `Awaits`; with a second process the counters
no longer tell paths apart).  `RemovedInv`: what a thread has on disk is listed for
removal until it is removed (`NoTraceIsLeft`).

`GraphProofs`.  Modules: `LoadedInOrder` for every program and any depth.
`Behind` says that, as long as nothing was refused, each import that a
module on the stack is past is loaded, except the one it waits for, which is the
next frame; when a frame is popped its imports are all behind it, and the
importer is one further.  `Distinct` (no module loaded or loading twice, none
both) makes the order unambiguous.  `ModulesAreSoundHolds` adds that a cycle is
reported only where the stack has one, since each frame imports the next, and
that the items collected so far are those of the modules collected so far
(`Collected`).

Packages, for any manifests and any edits at any moment: the frames on the stack are a
path in the manifests as they were read, the dependencies a frame is past are
resolved, and those of a resolved package are resolved before it (`WalkInv`); no root
is open or resolved twice and no two roots have one module name (`ApartInv`); the walk
begins and ends with the main package (`PlaceInv`); and as long as no edit interfered,
what was read is what is on disk
(`CurrentInv`).  `PackagesAlwaysSound` follows.  `LockInv` says that a lockfile is that
of some whole resolution.  `FreshExactlyIfSame` then compares two resolutions, that of
the lockfile and that of now: if the digests, names and entries agree then the
packages, manifests and entries do (`LockAlike`) and the other way round
(`AlikeLocked`), although neither resolution is known.

Inference: functions that call each other in no circle can be numbered, such that each
calls only those with smaller numbers.  `RankedRest` says that after k rounds those with
numbers below k have their types for good: what a round finds of a function it finds
again when those it calls did not change (`SameCallees`).  The numbers are fewer than
the functions, so that the rounds are enough even if each settles but one function, with
one to spare (`InferenceComesToRest`).

`WatchProofs`.  `RunningIsKnown`: at every place of the loop the flags say whether
a run is on or due.  `StopsPromptly`: the message of Ctrl+C stays in the queue until
the loop leaves (`StopInv`), so at most one run begins after it, the one that was about
to, and the drain after that run finds it.  `NeverRestsOutdated`:
what was seen of the disk by the last run, or so far by the one that is reading its
files one after the other, is what is there, or a change of it is in the queue or
marked (`CurrentInv`); changes reach the queue because what is
watched is what is planned and always has the package's own files (`PlanInv`), unless
the loop has ended because a root could not be watched.
The hypothesis `OneSideEdited` excludes edits of the dependency's manifest and edits of
both lockfile and dependency, where the loop does rest on an outdated run
(`WatchDependency` above).

`EditorProofs`.  A check that is not cancelled is its document's one in flight, of
the generation of now and of a text asked for since (`LiveInv`, `SlotsInv`); with it
`ChecksStayFew`, and `PublishesWhatWasAsked`, which is an action property: only a live
check publishes.

Only model-checked:

* every liveness property (liveness under fairness and ENABLED are outside TLAPS);
* of the language all but the rounds of inference: checker and evaluator are recursive,
  and what a recursive definition computes for every input would need induction over
  data, which the provers at hand cannot do (`CallsAreSound`, `RangeIsExact`,
  `TypesAreKept`, `NamesResolve`; and that `Checker` looks only at callees).

## Not modelled

* The lexer, the parser and the formatter: text processing.  `Syntax` has the tree
  the parser builds, and the programs of `Language` are written as such trees.
* HIR, MIR, SSA and the backend: nothing runs yet what they produce.
* The pipeline and the rendering of diagnostics: the sequence of the passes.
* The resolution of type annotations, and the checker's contracts for tests,
  fixtures and methods.
* The output buffer and stdin: single critical sections.
* The framing of HTTP messages and what a response holds; `BridgeCalls` has the
  kinds of the results.
* The runtime crate, which has no state; snapshots, test discovery, selection and
  doctests; the commands of the CLI but `run`; and the commands of the extension
  that open a terminal.
* Killing a process between two steps: only `gof.lock` and temporary files would
  survive it, and nothing in the code recovers from it.
* Documentation, site, scripts, grammars and benchmarks: the reference for
  what the code is meant to do.

## Plan

Done: `Cancellation`, `Channel`, `ChannelPromise` (with the refinement), `Task`,
`Select`, `Streams`, `Connect`, `Fixtures`, `TestContext`, `ModuleGraph`,
`PackageGraph`, `Watch`, `Editor` and `Inference`, each with its proofs; the checker and
the evaluator, model-checked.

Next, in this order:

1. `Runner`: discovery, selection, doctests and the order of files around
   `Fixtures`.
2. `Lexer`: the indentation stack; `Formatter`: idempotence on small trees.
3. `Lowering`: MIR and SSA on small control-flow graphs (each use dominated by its
   definition, same result as `Evaluator`).
4. `Http`: requests in pieces over `Streams`.
