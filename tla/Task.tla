-------------------------------- MODULE Task --------------------------------
(***************************************************************************)
(* Tasks of gof: `go f(...)` starts a thread that evaluates f and stores   *)
(* its outcome once; `await` and `await_result` join it (interpreter.rs).  *)
(*                                                                         *)
(* The handle keeps the outcome and the listeners behind two mutexes that  *)
(* are never held together, and neither is held while a join sleeps, so    *)
(* each access is a step of its own: a completion, a cancel or another     *)
(* join can fall between any two of them.  A join looks, registers its     *)
(* signal with the task and with its token, looks again, reads the         *)
(* generation, looks a THIRD time and only then sleeps.                    *)
(*                                                                         *)
(* A failed outcome is a diagnostics or a panic.  `await` of a task whose  *)
(* function does not declare a RuntimeError result re-raises it in the     *)
(* awaiting function, which then ends the same way.                        *)
(***************************************************************************)
EXTENDS Cancellation, FiniteSets

CONSTANTS
  Main,         (* the thread of main                                      *)
  Tasks,        (* the tasks the program may spawn, each with its thread   *)
  Handles,      (* the <<thread, task>> pairs such that the thread was     *)
                (* given the task's handle: as an argument or by a channel *)
  Boundary,     (* Boundary[k]: "direct", or "result" when the function    *)
                (* declares Result[_, RuntimeError]                        *)
  NoTask

ASSUME TaskAssumption ==
  /\ Threads = Tasks \cup {Main}
  /\ Main \notin Tasks
  /\ NoTask \notin Tasks
  /\ NoToken \notin Tokens
  /\ Handles \subseteq Threads \X Tasks
  /\ Boundary \in [Tasks -> {"direct", "result"}]

VARIABLES
  task,         (* TaskHandle of each task                                 *)
  thread,       (* what each thread is doing                               *)
  join,         (* the await each thread is executing                      *)
  (* History.                                                              *)
  answers       (* answers[t]: <<task, form, answer>> of each join of t    *)

vars == <<token, signal, task, thread, join, answers>>

----------------------------------------------------------------------------
(* State                                                                   *)

Outcomes == {"value", "diagnostics", "panic"}
Failures == Outcomes \ {"value"}

TaskHandle == [result : Outcomes \cup {"none"}, listeners : SUBSET Threads]

EmptyHandle == [result |-> "none", listeners |-> {}]

(* A thread is not started yet, evaluates its function, has a failure on   *)
(* its way up its call stack, has stored its outcome and is about to       *)
(* notify, or is over.                                                     *)
ThreadStates == {"unborn", "running", "failing", "notifying", "over"}

Forms == {"await", "await_result"}

Join ==
  [pc : {"idle", "look", "listen", "watch", "arm", "recheck", "asleep"},
   task : Tasks \cup {NoTask}, tok : Tokens \cup {NoToken},
   form : Forms, registered : BOOLEAN]

NoJoin ==
  [pc |-> "idle", task |-> NoTask, tok |-> NoToken, form |-> "await",
   registered |-> FALSE]

Answers == Outcomes \cup {"cancelled"}

TypeOK ==
  /\ token \in [Tokens -> CancellationState]
  /\ signal \in [Threads -> BOOLEAN]
  /\ task \in [Tasks -> TaskHandle]
  /\ thread \in [Threads -> ThreadStates]
  /\ join \in [Threads -> Join]
  /\ answers \in [Threads -> SUBSET (Tasks \X Forms \X Answers)]

Init ==
  /\ token = [k \in Tokens |-> FreshToken]
  /\ signal = [t \in Threads |-> FALSE]
  /\ task = [k \in Tasks |-> EmptyHandle]
  /\ thread = [t \in Threads |-> IF t = Main THEN "running" ELSE "unborn"]
  /\ join = [t \in Threads |-> NoJoin]
  /\ answers = [t \in Threads |-> {}]

----------------------------------------------------------------------------
(* The program                                                             *)

Runs(t) == thread[t] = "running" /\ join[t].pc = "idle"

(* Wrong: the handle of a task that is over is used for a second run.      *)
SpawnsAgain(t, k) ==
  /\ Runs(t)
  /\ thread[k] \in {"unborn", "over"}
  /\ thread' = [thread EXCEPT ![k] = "running"]
  /\ UNCHANGED <<token, signal, task, join, answers>>

(* go f(...): the handle is made before the thread starts.                 *)
Spawn(t, k) ==
  /\ Runs(t)
  /\ thread[k] = "unborn"
  /\ thread' = [thread EXCEPT ![k] = "running"]
  /\ UNCHANGED <<token, signal, task, join, answers>>

(* await k, await_result(k) or await_result(k, token).                     *)
Await(t, k, form, tok) ==
  /\ Runs(t)
  /\ <<t, k>> \in Handles
  /\ thread[k] # "unborn"
  /\ form = "await" => tok = NoToken
  /\ join' = [join EXCEPT ![t] = [pc |-> "look", task |-> k, tok |-> tok,
                                  form |-> form, registered |-> FALSE]]
  /\ UNCHANGED <<token, signal, task, thread, answers>>

----------------------------------------------------------------------------
(* The join                                                                *)

Known(t) == task[join[t].task].result # "none"

Returns(t, answer) ==
  /\ answers' = [answers EXCEPT ![t] = @ \cup {<<join[t].task, join[t].form, answer>>}]
  /\ join' = [join EXCEPT ![t] = NoJoin]
  /\ task' = [task EXCEPT ![join[t].task].listeners = @ \ {t}]
  /\ Forget(t, join[t].tok)
  /\ DropSignal(t)

(* Wrong: a failure never crosses a join.                                  *)
RaisesNothing(t, k) == FALSE

(* Does the join re-raise the failure of task k in its own function?       *)
Raises(t, k) ==
  /\ join[t].form = "await"
  /\ Boundary[k] = "direct"
  /\ task[k].result \in Failures

(* The task is over: its outcome wins even over a cancelled token.         *)
JoinCompletes(t) ==
  LET k == join[t].task IN
  /\ join[t].pc \in {"look", "recheck"}
  /\ Known(t)
  /\ Returns(t, task[k].result)
  /\ thread' = [thread EXCEPT ![t] = IF Raises(t, k) THEN "failing" ELSE @]

(* Wrong: the token is looked at before the outcome.                       *)
JoinPrefersToken(t) ==
  /\ join[t].pc \in {"look", "recheck"}
  /\ IsCancelled(join[t].tok)
  /\ Returns(t, "cancelled")
  /\ UNCHANGED thread

JoinIsCancelled(t) ==
  /\ join[t].pc \in {"look", "recheck"}
  /\ ~Known(t)
  /\ IsCancelled(join[t].tok)
  /\ Returns(t, "cancelled")
  /\ UNCHANGED thread

(* Nothing to report: register the first time, then read the generation,   *)
(* and sleep only after the look that follows it.                          *)
JoinGoesOn(t) ==
  /\ join[t].pc \in {"look", "recheck"}
  /\ ~Known(t)
  /\ ~IsCancelled(join[t].tok)
  /\ join' = [join EXCEPT ![t].pc =
       IF join[t].pc = "recheck" THEN "asleep"
       ELSE IF join[t].registered THEN "arm" ELSE "listen"]
  /\ UNCHANGED <<token, signal, task, thread, answers>>

JoinListens(t) ==
  /\ join[t].pc = "listen"
  /\ task' = [task EXCEPT ![join[t].task].listeners = @ \cup {t}]
  /\ join' = [join EXCEPT ![t].pc = "watch"]
  /\ UNCHANGED <<token, signal, thread, answers>>

(* A token that is cancelled by now notifies the signal at once.           *)
JoinWatches(t) ==
  LET k == join[t].tok IN
  /\ join[t].pc = "watch"
  /\ Watch(t, k)
  /\ signal' = [signal EXCEPT ![t] = @ \/ IsCancelled(k)]
  /\ join' = [join EXCEPT ![t].pc = "look", ![t].registered = TRUE]
  /\ UNCHANGED <<task, thread, answers>>

(* Wrong: the join sleeps right after it read the generation.              *)
JoinArmsAndSleeps(t) ==
  /\ join[t].pc = "arm"
  /\ ReadGeneration(t)
  /\ join' = [join EXCEPT ![t].pc = "asleep"]
  /\ UNCHANGED <<token, task, thread, answers>>

JoinArms(t) ==
  /\ join[t].pc = "arm"
  /\ ReadGeneration(t)
  /\ join' = [join EXCEPT ![t].pc = "recheck"]
  /\ UNCHANGED <<token, task, thread, answers>>

JoinWakes(t) ==
  /\ join[t].pc = "asleep"
  /\ signal[t]
  /\ join' = [join EXCEPT ![t].pc = "look"]
  /\ UNCHANGED <<token, signal, task, thread, answers>>

JoinStep(t) ==
  \/ JoinCompletes(t) \/ JoinIsCancelled(t) \/ JoinGoesOn(t)
  \/ JoinListens(t) \/ JoinWatches(t) \/ JoinArms(t) \/ JoinWakes(t)

----------------------------------------------------------------------------
(* The end of a task                                                       *)

(* How the evaluation of t's function can end: with a value or a failure   *)
(* of its own, or with the one that is on its way up.                      *)
Ends(t, outcome) ==
  \/ Runs(t) /\ outcome \in Outcomes
  \/ thread[t] = "failing" /\ outcome = "diagnostics"

(* store: the outcome goes in first, the listeners are notified after the  *)
(* mutex is released.  Main's outcome is the program's.                    *)
Store(t, outcome) ==
  /\ Ends(t, outcome)
  /\ IF t = Main
       THEN /\ thread' = [thread EXCEPT ![t] = "over"]
            /\ UNCHANGED task
       ELSE /\ thread' = [thread EXCEPT ![t] = "notifying"]
            /\ task' = [task EXCEPT ![t].result = outcome]
  /\ UNCHANGED <<token, signal, join, answers>>

(* Wrong: the outcome is stored and nobody is told.                        *)
StoresSilently(k) ==
  /\ thread[k] = "notifying"
  /\ thread' = [thread EXCEPT ![k] = "over"]
  /\ UNCHANGED <<token, signal, task, join, answers>>

StoreNotifies(k) ==
  /\ thread[k] = "notifying"
  /\ thread' = [thread EXCEPT ![k] = "over"]
  /\ Notify(task[k].listeners)
  /\ UNCHANGED <<token, task, join, answers>>

Cancel(k) ==
  /\ RaiseFlag(k)
  /\ UNCHANGED <<task, thread, join, answers>>

CancelNotifies(k) ==
  /\ NotifyWatchers(k)
  /\ UNCHANGED <<task, thread, join, answers>>

----------------------------------------------------------------------------
(* The specification                                                       *)

Call ==
  \/ \E t \in Threads, k \in Tasks : Spawn(t, k)
  \/ \E t \in Threads, k \in Tasks, form \in Forms,
        tok \in Tokens \cup {NoToken} : Await(t, k, form, tok)
  \/ \E t \in Threads, outcome \in Outcomes : Runs(t) /\ Store(t, outcome)
  \/ \E k \in Tokens : Cancel(k)

(* What the runtime does by itself.                                        *)
Unwinds(t) == thread[t] = "failing" /\ \E outcome \in Outcomes : Store(t, outcome)

Step(t) == JoinStep(t) \/ Unwinds(t) \/ (t \in Tasks /\ StoreNotifies(t))

Next ==
  \/ Call
  \/ \E t \in Threads : Step(t)
  \/ \E k \in Tokens : CancelNotifies(k)

Spec == Init /\ [][Next]_vars

(* The operating system runs every thread that can run, and a cancel that  *)
(* began finishes.  Nothing obliges the program to make a call, or a       *)
(* function to end.                                                        *)
Fairness ==
  /\ \A t \in Threads : WF_vars(Step(t))
  /\ \A k \in Tokens : WF_vars(CancelNotifies(k))

FairSpec == Spec /\ Fairness

----------------------------------------------------------------------------
(* Properties                                                              *)

(* No wakeup of a join is lost, neither the task's nor the token's: a join *)
(* that sleeps with nothing on the way to wake it waits for a task that    *)
(* has stored nothing and watches a token that is not cancelled.           *)
SleepersWait ==
  \A t \in Threads : join[t].pc = "asleep" /\ ~signal[t] =>
    /\ Known(t) => thread[join[t].task] = "notifying"
    /\ IsCancelled(join[t].tok) => token[join[t].tok].notifying

(* All joins of a task agree: whoever is answered is told the one outcome  *)
(* the task stored, whenever it asked, or that its own token was cancelled.*)
JoinsAgree ==
  \A t \in Threads : \A a \in answers[t] :
    a[3] # "cancelled" => task[a[1]].result = a[3]

(* A completed task is never reported as cancelled: a join answers         *)
(* Cancelled only while the task has no outcome.                           *)
CompletionWins ==
  [][\A t \in Threads, k \in Tasks, form \in Forms :
       <<k, form, "cancelled">> \in answers'[t] \ answers[t]
         => task[k].result = "none"]_vars

(* No failure is swallowed on its way up: a task that ended with a value   *)
(* did not await, plainly, a direct task that failed, so a failure deep in *)
(* a tree of tasks surfaces at every await above it until one recovers it  *)
(* with await_result or declares a RuntimeError result.                    *)
FailuresPropagate ==
  \A t, k \in Tasks :
    (/\ task[t].result = "value"
     /\ Boundary[k] = "direct"
     /\ \E outcome \in Outcomes : <<k, "await", outcome>> \in answers[t])
      => task[k].result = "value"

(* No thread stays in a join of a task that has its outcome, nor in one    *)
(* whose token is cancelled, whatever the task does (spec/language-v1.md:  *)
(* blocked joins wake on that token directly).                             *)
JoinsAreReleased ==
  \A t \in Threads : []<>~(
    \/ \E k \in Tasks : join[t].task = k /\ task[k].result # "none"
    \/ \E k \in Tokens : join[t].tok = k /\ token[k].cancelled)
=============================================================================
