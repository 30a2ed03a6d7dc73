------------------------------- MODULE Watch -------------------------------
(***************************************************************************)
(* `gof run --watch` (tools/gof-cli/src/watch.rs) on a package with one    *)
(* dependency: one thread plans what to watch, runs the program, drains    *)
(* the file events that came meanwhile, and reruns or waits.               *)
(*                                                                         *)
(* Beside it run whoever edits the files, the file watcher, which queues   *)
(* an event for an edit under a root it watches at that moment, and the    *)
(* Ctrl+C handler, which raises a flag and then queues a message.          *)
(***************************************************************************)
EXTENDS Naturals, Sequences

CONSTANTS
  Editable,     (* the files that are edited                               *)
  MaxEdits,     (* how many edits are made                                 *)
  Toggle        (* Toggle[x]: what an edit makes of a file's contents x    *)

(* The program's source, a file nobody asks for beside it, the lockfile,   *)
(* and the dependency's source and manifest.                               *)
Files == {"source", "notes", "lock", "depSource", "depMod"}
DependencyFiles == {"depSource", "depMod"}
Contents == {"old", "new"}

ASSUME WatchAssumption ==
  /\ Editable \subseteq Files
  /\ MaxEdits \in Nat
  /\ Toggle \in [Contents -> Contents]

VARIABLES
  disk,         (* disk[f]: the contents of each file                      *)
  edits,        (* how many edits were made                                *)
  watched,      (* the files under the roots that are watched now          *)
  queue,        (* the mpsc channel: files with an event, and "stop"       *)
  plan,         (* active_plan: the files under its roots                  *)
  next,         (* refreshed_plan                                          *)
  running, dirty,     (* RunLoopCoordinator                                *)
  stop,         (* stop_requested                                          *)
  pc,           (* where the loop is                                       *)
  relevant,     (* saw_relevant_change of the current drain                *)
  handler,      (* the Ctrl+C handler: "idle", "raised" or "sent"          *)
  (* History.                                                              *)
  seen,         (* what the current run made of the files, or the last one *)
  news,         (* an edit since the current run began, or the last one    *)
  late          (* runs begun since Ctrl+C queued its message              *)

loopVars == <<watched, plan, next, running, dirty, relevant, seen>>
vars == <<disk, edits, watched, queue, plan, next, running, dirty, stop, pc,
          relevant, handler, seen, news, late>>

----------------------------------------------------------------------------
(* Plans                                                                   *)

(* ensure_fresh_lockfile_for_source: the lockfile describes the manifests. *)
Fresh(d) == d["lock"] = d["depMod"]

(* build_watch_plan: the roots of the dependency only with a fresh lock.   *)
Roots(d) == IF Fresh(d) THEN Files ELSE Files \ DependencyFiles

(* is_relevant, on the plan that is active when the message is received.   *)
Relevant(f) == f \in plan /\ f # "notes"

(* The order in which a run reads its files, once it has seen the lock.    *)
ReadOrder == <<"source", "depMod", "depSource">>

(* What a run shows: the files it was made of, or the lockfile's error.    *)
Outcome(d) ==
  <<IF Fresh(d) THEN "ran" ELSE "stale",
    d[ReadOrder[1]], d[ReadOrder[2]], d[ReadOrder[3]]>>

Same(x, y) == x = y \/ (x[1] = "stale" /\ y[1] = "stale")

PCs == {"plan", "unwatch", "watch", "check", "read", "drain", "drainBatch",
        "finish", "wait", "waitBatch", "leave", "stopped"}

TypeOK ==
  /\ disk \in [Files -> Contents]
  /\ edits \in 0 .. MaxEdits
  /\ watched \subseteq Files /\ plan \subseteq Files /\ next \subseteq Files
  /\ queue \in Seq(Files \cup {"stop"})
  /\ running \in BOOLEAN /\ dirty \in BOOLEAN /\ stop \in BOOLEAN
  /\ relevant \in BOOLEAN /\ news \in BOOLEAN
  /\ pc \in PCs
  /\ handler \in {"idle", "raised", "sent"}
  /\ seen \in Seq({"none", "ran", "stale"} \cup Contents)
  /\ Len(seen) \in 1 .. Len(ReadOrder) + 1 /\ seen[1] \in {"none", "ran", "stale"}
  /\ late \in Nat

(* The first plan is built and applied and start_if_idle called.           *)
Init ==
  /\ disk = [f \in Files |-> "old"]
  /\ edits = 0
  /\ plan = Roots(disk) /\ next = plan /\ watched = plan
  /\ queue = <<>>
  /\ running = TRUE /\ dirty = FALSE
  /\ stop = FALSE /\ handler = "idle"
  /\ pc = "plan" /\ relevant = FALSE
  /\ seen = <<"none">> /\ news = TRUE /\ late = 0

----------------------------------------------------------------------------
(* The environment                                                         *)

Edit(f) ==
  /\ edits < MaxEdits
  /\ edits' = edits + 1
  /\ disk' = [disk EXCEPT ![f] = Toggle[@]]
  /\ queue' = IF f \in watched THEN Append(queue, f) ELSE queue
  /\ news' = TRUE
  /\ UNCHANGED <<loopVars, stop, pc, handler, late>>

HandlerRaises ==
  /\ handler = "idle"
  /\ handler' = "raised" /\ stop' = TRUE
  /\ UNCHANGED <<disk, edits, queue, loopVars, pc, news, late>>

HandlerSends ==
  /\ handler = "raised"
  /\ handler' = "sent" /\ queue' = Append(queue, "stop")
  /\ UNCHANGED <<disk, edits, stop, loopVars, pc, news, late>>

----------------------------------------------------------------------------
(* RunLoopCoordinator                                                      *)

(* Wrong: a change during a run is not remembered.                         *)
ForgetChange == running' = TRUE /\ UNCHANGED dirty

RecordChange ==
  IF running THEN dirty' = TRUE /\ UNCHANGED running
             ELSE running' = TRUE /\ UNCHANGED dirty

----------------------------------------------------------------------------
(* The loop                                                                *)

Goto(label) == pc' = label

BuildPlan ==
  /\ pc = "plan"
  /\ next' = Roots(disk)
  /\ Goto(IF Roots(disk) = plan THEN "check" ELSE "unwatch")
  /\ UNCHANGED <<disk, edits, queue, stop, handler, watched, plan, running, dirty,
                 relevant, seen, news, late>>

(* apply_watch_plan: nothing is watched between the two.                   *)
Unwatch ==
  /\ pc = "unwatch"
  /\ watched' = {} /\ Goto("watch")
  /\ UNCHANGED <<disk, edits, queue, stop, handler, plan, next, running, dirty,
                 relevant, seen, news, late>>

WatchRoots ==
  /\ pc = "watch"
  /\ watched' = next /\ plan' = next /\ Goto("check")
  /\ UNCHANGED <<disk, edits, queue, stop, handler, next, running, dirty,
                 relevant, seen, news, late>>

(* A root that cannot be watched ends the loop with an error.              *)
WatchFails ==
  /\ pc = "watch"
  /\ Goto("stopped")
  /\ UNCHANGED <<disk, edits, queue, stop, handler, loopVars, news, late>>

(* execute_run_target: the lockfile first ...                              *)
CheckLock ==
  /\ pc = "check"
  /\ seen' = IF Fresh(disk) THEN <<"ran">> ELSE Outcome(disk)
  /\ Goto(IF Fresh(disk) THEN "read" ELSE "drain")
  /\ news' = FALSE
  /\ relevant' = FALSE
  /\ late' = IF handler = "sent" THEN late + 1 ELSE late
  /\ UNCHANGED <<disk, edits, queue, stop, handler, watched, plan, next, running, dirty>>

(* ... then the files, one after another; with the last of them the run    *)
(* goes on for as long as it likes.                                        *)
ReadAndRun ==
  /\ pc = "read"
  /\ seen' = Append(seen, disk[ReadOrder[Len(seen)]])
  /\ Goto(IF Len(seen) = Len(ReadOrder) THEN "drain" ELSE "read")
  /\ UNCHANGED <<disk, edits, queue, stop, handler, watched, plan, next, running, dirty,
                 relevant, news, late>>

(* A message of the queue: the next place, given its kind.                 *)
Receives(message) == queue # <<>> /\ Head(queue) = message /\ queue' = Tail(queue)

(* Wrong: Ctrl+C during a run only raises the flag.                        *)
DrainStopRaises ==
  /\ pc = "drain" /\ Receives("stop")
  /\ stop' = TRUE
  /\ UNCHANGED <<disk, edits, pc, handler, loopVars, news, late>>

(* drain_pending_messages.                                                 *)
DrainStop ==
  /\ pc = "drain" /\ Receives("stop")
  /\ Goto("stopped")
  /\ UNCHANGED <<disk, edits, stop, handler, loopVars, news, late>>

DrainEvent ==
  /\ pc = "drain"
  /\ \E f \in Files :
       /\ Receives(f)
       /\ IF Relevant(f) THEN RecordChange /\ relevant' = TRUE
                         ELSE UNCHANGED <<running, dirty, relevant>>
  /\ UNCHANGED <<disk, edits, stop, pc, handler, watched, plan, next, seen, news, late>>

DrainEmpty ==
  /\ pc = "drain" /\ queue = <<>>
  /\ Goto(IF relevant THEN "drainBatch" ELSE "finish")
  /\ UNCHANGED <<disk, edits, queue, stop, handler, loopVars, news, late>>

Batching == pc \in {"drainBatch", "waitBatch"}

(* batch_additional_changes: the flag, a message, or a quiet debounce      *)
(* window; the time to the next event is anything.                         *)
BatchStops ==
  /\ Batching
  /\ IF stop THEN UNCHANGED queue ELSE Receives("stop")
  /\ stop' = TRUE
  /\ Goto(IF pc = "drainBatch" THEN "stopped" ELSE "leave")
  /\ UNCHANGED <<disk, edits, handler, loopVars, news, late>>

BatchEvent ==
  /\ Batching /\ ~stop
  /\ \E f \in Files :
       /\ Receives(f)
       /\ IF Relevant(f) THEN RecordChange ELSE UNCHANGED <<running, dirty>>
  /\ UNCHANGED <<disk, edits, stop, pc, handler, watched, plan, next, relevant,
                 seen, news, late>>

BatchTimeout ==
  /\ Batching /\ ~stop /\ queue = <<>>
  /\ Goto(IF pc = "drainBatch" THEN "finish" ELSE "leave")
  /\ UNCHANGED <<disk, edits, queue, stop, handler, loopVars, news, late>>

FinishRun ==
  /\ pc = "finish"
  /\ running' = dirty /\ dirty' = FALSE
  /\ Goto(IF dirty THEN "plan" ELSE "wait")
  /\ UNCHANGED <<disk, edits, queue, stop, handler, watched, plan, next,
                 relevant, seen, news, late>>

(* wait_for_relevant_change.                                               *)
WaitStop ==
  /\ pc = "wait" /\ Receives("stop")
  /\ stop' = TRUE /\ Goto("leave")
  /\ UNCHANGED <<disk, edits, handler, loopVars, news, late>>

WaitEvent ==
  /\ pc = "wait"
  /\ \E f \in Files :
       /\ Receives(f)
       /\ IF Relevant(f) THEN RecordChange /\ Goto("waitBatch")
                         ELSE UNCHANGED <<running, dirty, pc>>
  /\ UNCHANGED <<disk, edits, stop, handler, watched, plan, next, relevant,
                 seen, news, late>>

(* Wrong: the flag is not looked at after the wait.                        *)
LeaveToRun ==
  /\ pc = "leave"
  /\ Goto("plan")
  /\ UNCHANGED <<disk, edits, queue, stop, handler, loopVars, news, late>>

LeaveWait ==
  /\ pc = "leave"
  /\ Goto(IF stop THEN "stopped" ELSE "plan")
  /\ UNCHANGED <<disk, edits, queue, stop, handler, loopVars, news, late>>

Loop ==
  \/ BuildPlan \/ Unwatch \/ WatchRoots \/ WatchFails \/ CheckLock \/ ReadAndRun
  \/ DrainStop \/ DrainEvent \/ DrainEmpty
  \/ BatchStops \/ BatchEvent \/ BatchTimeout
  \/ FinishRun \/ WaitStop \/ WaitEvent \/ LeaveWait

Next == (\E f \in Editable : Edit(f)) \/ HandlerRaises \/ HandlerSends \/ Loop

Spec == Init /\ [][Next]_vars

(* The loop's thread runs, and each run of the program ends; a Ctrl+C      *)
(* handler that began ends.                                                *)
FairSpec == Spec /\ WF_vars(Loop) /\ WF_vars(HandlerSends)

----------------------------------------------------------------------------
(* Properties                                                              *)

(* The coordinator knows what the loop does: it is running from the start  *)
(* of a run (or the change that calls for one) to its end, so a change in  *)
(* between leaves the mark, and the mark never outlives the run.           *)
Consistent ==
  /\ TypeOK
  /\ pc = "wait" => ~running
  /\ pc \in {"plan", "unwatch", "watch", "check", "read", "drain", "drainBatch", "finish"}
       => running
  /\ dirty => running

Idle == pc = "wait" /\ \A i \in DOMAIN queue : ~Relevant(queue[i])

(* The loop never rests on an outdated run: while it waits, with no event  *)
(* on the way, running the program again would show what the last run      *)
(* showed, wherever the edits fell between planning, watching, reading,    *)
(* draining and finishing (rfcs/0031: changes during a run mark the loop   *)
(* dirty; README: the loop reports a stale package and waits for the next  *)
(* change).                                                                *)
IdleIsCurrent == Idle => Same(seen, Outcome(disk))

(* The loop always knows whether it is running, and never rests on an      *)
(* outdated run.                                                           *)
NeverOutdated == Consistent /\ IdleIsCurrent

(* Ctrl+C stops the loop: at most the run that was about to begin is begun *)
(* after it.                                                               *)
StopIsPrompt == late <= 1

(* A run begins for the first time or because of an edit that was made     *)
(* since the last one began: a burst of edits is one rerun                 *)
(* (rfcs/0031: rapid edits are batched by debounce).                       *)
RunsHaveNews == [][CheckLock => news]_vars

(* Once the edits end so do the reruns, and Ctrl+C ends the loop.          *)
ComesToRest ==
  /\ <>[](pc \in {"wait", "stopped"})
  /\ (handler = "sent") ~> (pc = "stopped")
=============================================================================
