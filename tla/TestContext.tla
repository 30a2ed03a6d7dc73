---------------------------- MODULE TestContext ----------------------------
(***************************************************************************)
(* The TestContext of language tests (interpreter.rs): t.env overrides a   *)
(* variable of the process for one test, t.temp_dir and t.temp_file make   *)
(* files in the host's temporary directory, and the runner undoes both     *)
(* when the test is over.  A test may hand its context to the tasks it     *)
(* starts, and several `gof test` processes may run at once.               *)
(*                                                                         *)
(* The resources are behind a mutex that is taken per access, so a call    *)
(* is several steps: look, register, set; or take an id, make, register.   *)
(***************************************************************************)
EXTENDS Naturals, Sequences, FiniteSets

CONSTANTS
  Processes,    (* runs of `gof test` on the host                          *)
  Tests,        (* each runs this many tests, one after the other          *)
  Body, Tasks,  (* a test's own thread, and the tasks it may start         *)
  Variables, Values,
  Originally,   (* the environment a process starts with                   *)
  Kinds,        (* the temporary resources tests use: "dir", "file"        *)
  Awaits,       (* no test is over, passed or failed, while its tasks run  *)
  MaxCalls      (* bound: the calls on its context a thread makes          *)

Unset == "unset"
Garbled == "garbled"      (* a value that is not Unicode                   *)

(* What is assumed of the constants.                                       *)
TestContextAssumption ==
  /\ Tests \in Nat \ {0} /\ MaxCalls \in Nat
  /\ Body \notin Tasks
  /\ Kinds \subseteq {"dir", "file"}
  /\ Awaits \in BOOLEAN
  /\ Garbled \notin Values
  /\ Originally \in [Variables -> Values \cup {Garbled, Unset}]

(* A value that is not Unicode can be neither noted nor restored.          *)
Readable == \A v \in Variables : Originally[v] # Garbled

Contexts == Processes \X (1 .. Tests)
Threads == Contexts \X (Tasks \cup {Body})
Paths == Kinds \X Nat

VARIABLES
  env,          (* env[p]: the environment of process p                    *)
  disk,         (* disk[path]: the threads whose data an existing file or  *)
                (* directory holds                                         *)
  nextId,       (* nextId[p]: NEXT_TEST_TEMP_ID                            *)
  resources,    (* resources[c]: TestRuntimeResources                      *)
  thread,       (* what each thread is at, and what it got                 *)
  runner,       (* runner[p]: the current test and how far it is           *)
  undo          (* undo[p]: the resources cleanup has taken and not undone *)

vars == <<env, disk, nextId, resources, thread, runner, undo>>

Nothing == [restores |-> <<>>, temps |-> <<>>]
Resources == [restores : Seq(Variables \X (Values \cup {Unset})), temps : Seq(Paths)]

Idle == [at |-> "idle"]
ThreadStates ==
  [at : {"unborn", "idle", "over"}]
    \cup [at : {"register", "set"}, name : Variables, previous : Values \cup {Unset},
          value : Values]
    \cup [at : {"make", "keep"}, path : Paths]

TypeOK ==
  /\ env \in [Processes -> [Variables -> Values \cup {Garbled, Unset}]]
  /\ DOMAIN disk \subseteq Paths /\ \A f \in DOMAIN disk : disk[f] \subseteq Threads
  /\ nextId \in [Processes -> Nat]
  /\ resources \in [Contexts -> Resources]
  /\ \A a \in Threads :
       thread[a].step \in ThreadStates /\ thread[a].calls \in 0 .. MaxCalls
         /\ thread[a].paths \subseteq Paths
  /\ runner \in [Processes -> [test : 1 .. Tests, at : {"body", "undo", "between", "over"}]]
  /\ undo \in [Processes -> Resources]

Init ==
  /\ env = [p \in Processes |-> Originally]
  /\ disk = <<>>
  /\ nextId = [p \in Processes |-> 1]
  /\ resources = [c \in Contexts |-> Nothing]
  /\ thread = [a \in Threads |->
       [step |-> IF a[1][2] = 1 /\ a[2] = Body THEN Idle ELSE [at |-> "unborn"],
        calls |-> 0, paths |-> {}]]
  /\ runner = [p \in Processes |-> [test |-> 1, at |-> "body"]]
  /\ undo = [p \in Processes |-> Nothing]

----------------------------------------------------------------------------
(* A thread of a test                                                      *)

Process(a) == a[1][1]
At(a, place) == thread[a].step.at = place
Go(a, step) == thread' = [thread EXCEPT ![a].step = step]
Calls(a, step) ==
  /\ At(a, "idle") /\ thread[a].calls < MaxCalls
  /\ thread' = [thread EXCEPT ![a].step = step, ![a].calls = @ + 1]

Spawn(a, k) ==
  /\ At(a, "idle") /\ At(<<a[1], k>>, "unborn")
  /\ Go(<<a[1], k>>, Idle)
  /\ UNCHANGED <<env, disk, nextId, resources, runner, undo>>

(* std::env::var(name).ok(): a value that is not Unicode counts as none.   *)
Told(x) == IF x = Garbled THEN Unset ELSE x

(* t.env: the present value is looked up ...                               *)
LookUp(a, v, x) ==
  /\ Calls(a, [at |-> "register", name |-> v, previous |-> Told(env[Process(a)][v]), value |-> x])
  /\ UNCHANGED <<env, disk, nextId, resources, runner, undo>>

(* ... noted down to be restored ...                                       *)
Register(a) ==
  /\ At(a, "register")
  /\ resources' = [resources EXCEPT ![a[1]].restores =
                     Append(@, <<thread[a].step.name, thread[a].step.previous>>)]
  /\ Go(a, [thread[a].step EXCEPT !.at = "set"])
  /\ UNCHANGED <<env, disk, nextId, runner, undo>>

(* ... and the variable set.                                               *)
SetEnv(a) ==
  /\ At(a, "set")
  /\ env' = [env EXCEPT ![Process(a)][thread[a].step.name] = thread[a].step.value]
  /\ Go(a, Idle)
  /\ UNCHANGED <<disk, nextId, resources, runner, undo>>

(* Wrong: the id of a resource is the number of resources there are.       *)
NumberOfTemps(a) == Len(resources[a[1]].temps) + 1

NewId(a) == nextId[Process(a)]

(* t.temp_dir, t.temp_file: a name that is new in this process (all tests  *)
(* are taken to use the same prefix) ...                                   *)
TakeId(a, kind) ==
  /\ Calls(a, [at |-> "make", path |-> <<kind, NewId(a)>>])
  /\ nextId' = [nextId EXCEPT ![Process(a)] = @ + 1]
  /\ UNCHANGED <<env, disk, resources, runner, undo>>

(* ... is made: create_dir_all keeps what there is, File::create empties   *)
(* it ...                                                                  *)
Make(a) ==
  /\ At(a, "make")
  /\ LET f == thread[a].step.path IN
     disk' = [g \in DOMAIN disk \cup {f} |->
                IF g # f THEN disk[g]
                ELSE IF f[1] = "dir" /\ f \in DOMAIN disk THEN disk[f] ELSE {}]
  /\ Go(a, [thread[a].step EXCEPT !.at = "keep"])
  /\ UNCHANGED <<env, nextId, resources, runner, undo>>

(* ... and noted down to be removed.                                       *)
Keep(a) ==
  /\ At(a, "keep")
  /\ LET f == thread[a].step.path IN
     /\ resources' = [resources EXCEPT ![a[1]].temps = Append(@, f)]
     /\ thread' = [thread EXCEPT ![a].step = Idle, ![a].paths = @ \cup {f}]
  /\ UNCHANGED <<env, disk, nextId, runner, undo>>

(* The thread writes to one of the resources it was given.                 *)
Write(a) ==
  /\ At(a, "idle")
  /\ \E f \in thread[a].paths \cap DOMAIN disk : disk' = [disk EXCEPT ![f] = @ \cup {a}]
  /\ UNCHANGED <<env, nextId, resources, thread, runner, undo>>

Over(a) ==
  /\ (a[2] = Body /\ Awaits) =>
       \A k \in Tasks : At(<<a[1], k>>, "unborn") \/ At(<<a[1], k>>, "over")
  /\ Go(a, [at |-> "over"])
  /\ UNCHANGED <<env, disk, nextId, resources, runner, undo>>

Finish(a) == At(a, "idle") /\ Over(a)

(* The directory or file cannot be made: the call raises an error that the *)
(* language does not catch.                                                *)
MakeFails(a) == At(a, "make") /\ Over(a)

Step(a) ==
  \/ \E k \in Tasks : Spawn(a, k)
  \/ \E v \in Variables, x \in Values : LookUp(a, v, x)
  \/ Register(a) \/ SetEnv(a)
  \/ \E kind \in Kinds : TakeId(a, kind)
  \/ Make(a) \/ Keep(a) \/ Write(a)
  \/ Finish(a) \/ MakeFails(a)

----------------------------------------------------------------------------
(* The runner of a process                                                 *)

Context(p) == <<p, runner[p].test>>
Phase(p, at) == runner' = [runner EXCEPT ![p].at = at]

(* cleanup takes all there is to undo,                                     *)
TearDown(p) ==
  /\ runner[p].at = "body" /\ At(<<Context(p), Body>>, "over")
  /\ undo' = [undo EXCEPT ![p] = resources[Context(p)]]
  /\ resources' = [resources EXCEPT ![Context(p)] = Nothing]
  /\ Phase(p, "undo")
  /\ UNCHANGED <<env, disk, nextId, thread>>

Last(s) == s[Len(s)]
ButLast(s) == SubSeq(s, 1, Len(s) - 1)

(* Wrong: the variables are restored in the order they were set.           *)
RestoreInOrder(p) ==
  /\ runner[p].at = "undo" /\ undo[p].restores # <<>>
  /\ env' = [env EXCEPT ![p][Head(undo[p].restores)[1]] = Head(undo[p].restores)[2]]
  /\ undo' = [undo EXCEPT ![p].restores = Tail(@)]
  /\ UNCHANGED <<disk, nextId, resources, thread, runner>>

(* restores the variables, the last one set first,                         *)
Restore(p) ==
  /\ runner[p].at = "undo" /\ undo[p].restores # <<>>
  /\ env' = [env EXCEPT ![p][Last(undo[p].restores)[1]] = Last(undo[p].restores)[2]]
  /\ undo' = [undo EXCEPT ![p].restores = ButLast(@)]
  /\ UNCHANGED <<disk, nextId, resources, thread, runner>>

(* and removes the files; one that is gone is no error.                    *)
Remove(p) ==
  /\ runner[p].at = "undo" /\ undo[p].restores = <<>> /\ undo[p].temps # <<>>
  /\ disk' = [f \in DOMAIN disk \ {Last(undo[p].temps)} |-> disk[f]]
  /\ undo' = [undo EXCEPT ![p].temps = ButLast(@)]
  /\ UNCHANGED <<env, nextId, resources, thread, runner>>

Undone(p) ==
  /\ runner[p].at = "undo" /\ undo[p] = Nothing
  /\ Phase(p, "between")
  /\ UNCHANGED <<env, disk, nextId, resources, thread, undo>>

NextTest(p) ==
  /\ runner[p].at = "between"
  /\ IF runner[p].test < Tests
       THEN /\ runner' = [runner EXCEPT ![p] = [test |-> @.test + 1, at |-> "body"]]
            /\ Go(<<<<p, runner[p].test + 1>>, Body>>, Idle)
       ELSE Phase(p, "over") /\ UNCHANGED thread
  /\ UNCHANGED <<env, disk, nextId, resources, undo>>

Run(p) == TearDown(p) \/ Restore(p) \/ Remove(p) \/ Undone(p) \/ NextTest(p)

(* The process exits, and its threads with it, when its tests are over.    *)
Next ==
  \/ \E a \in Threads : runner[Process(a)].at # "over" /\ Step(a)
  \/ \E p \in Processes : Run(p)

Spec == Init /\ [][Next]_vars

----------------------------------------------------------------------------
(* Properties                                                              *)

(* Between two tests every variable has the value it had before, however   *)
(* many threads have set it in whatever order.                             *)
EnvRestored == \A p \in Processes : runner[p].at = "between" => env[p] = Originally

(* The reason: of the notes there are for a variable, the first holds its  *)
(* value from before the test, whichever thread made it.                   *)
FirstNoteIsOriginal ==
  TypeOK /\ \A p \in Processes, v \in Variables :
    LET c == Context(p)
        notes == IF runner[p].at = "undo" THEN undo[p].restores ELSE resources[c].restores
        of == {i \in DOMAIN notes : notes[i][1] = v}
    IN IF of = {}
         THEN /\ env[p][v] = Originally[v]
              /\ \A a \in Threads :
                   (Process(a) = p /\ At(a, "register") /\ thread[a].step.name = v)
                     => thread[a].step.previous = Originally[v]
         ELSE \E i \in of : notes[i][2] = Originally[v] /\ \A j \in of : i <= j

(* Between two tests nothing that this process has made is left on disk.   *)
TempsRemoved ==
  \A p \in Processes : runner[p].at = "between" =>
    \A a \in Threads : Process(a) = p => thread[a].paths \cap DOMAIN disk = {}

(* While a test runs, each resource it was given exists, and holds nothing *)
(* but what the thread that asked for it has written.                      *)
TempsArePrivate ==
  \A a \in Threads :
    runner[Process(a)] = [test |-> a[1][2], at |-> "body"] =>
      \A f \in thread[a].paths : f \in DOMAIN disk /\ disk[f] \subseteq {a}
=============================================================================
