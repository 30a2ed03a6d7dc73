---------------------------- MODULE WatchProofs ----------------------------
(* Proofs that the watch loop of Watch stops promptly, knows whether it is *)
(* running and never rests on an outdated run, for any edits.              *)
EXTENDS Watch, TLAPS

(* The message of Ctrl+C is in the queue until the loop is on its way out; *)
(* a run that begins after it finds it when it drains the queue.           *)
StopMessage == \E i \in DOMAIN queue : queue[i] = "stop"

StopInv ==
  /\ handler # "idle" => stop
  /\ handler = "sent" => (StopMessage \/ pc \in {"leave", "stopped"})
  /\ late = 0 \/ (late = 1 /\ handler = "sent" /\ pc \in {"read", "drain", "stopped"})

(* The states between a change and the run it calls for, and the files a   *)
(* run under way has read.                                                 *)
RunningInv ==
  /\ Consistent
  /\ pc = "read" => seen[1] = "ran" /\ Len(seen) <= Len(ReadOrder)
  /\ pc = "waitBatch" => running
  /\ pc = "leave" => running \/ stop

(* What is watched is what is planned, except while apply_watch_plan       *)
(* replaces one by the other or fails to, and the files outside the        *)
(* dependency are part of every plan.                                      *)
PlanInv ==
  /\ pc \notin {"watch", "stopped"} => watched = plan
  /\ Files \ DependencyFiles \subseteq plan
  /\ Files \ DependencyFiles \subseteq next
  /\ "lock" \notin Editable => plan = Files /\ next = Files

(* No edit of the manifest, and of the lockfile or the dependency's source *)
(* at most one is edited.                                                  *)
OneSideEdited == "depMod" \notin Editable /\ ~({"lock", "depSource"} \subseteq Editable)

FixedInv ==
  /\ disk["depMod"] = "old"
  /\ "lock" \notin Editable => disk["lock"] = "old"

(* What has been read is what there is on disk.                            *)
ReadsCurrent == \A i \in 2 .. Len(seen) : seen[i] = disk[ReadOrder[i - 1]]

(* A change the loop will still hear of, or has marked.                    *)
ChangePending == dirty \/ \E i \in DOMAIN queue : Relevant(queue[i])

CurrentInv ==
  /\ pc = "read" => (Fresh(disk) /\ ReadsCurrent) \/ ChangePending
  /\ pc \in {"drain", "drainBatch", "finish", "wait"}
       => Same(seen, Outcome(disk)) \/ ChangePending

OutdatedInv == RunningInv /\ PlanInv /\ FixedInv /\ CurrentInv

----------------------------------------------------------------------------
(* The queue.                                                              *)

Messages == Files \cup {"stop"}

LEMMA QueueAppend ==
  ASSUME NEW q \in Seq(Messages), NEW m \in Messages
  PROVE  /\ Append(q, m) \in Seq(Messages)
         /\ DOMAIN Append(q, m) = 1 .. Len(q) + 1 /\ DOMAIN q = 1 .. Len(q) /\ Len(q) \in Nat
         /\ \A i \in DOMAIN q : Append(q, m)[i] = q[i]
         /\ Append(q, m)[Len(q) + 1] = m
OBVIOUS

LEMMA QueueTail ==
  ASSUME NEW q \in Seq(Messages), q # <<>>
  PROVE  /\ Head(q) \in Messages /\ Tail(q) \in Seq(Messages)
         /\ \A i \in DOMAIN q : q[i] # Head(q) => \E j \in DOMAIN Tail(q) : Tail(q)[j] = q[i]
         /\ \A j \in DOMAIN Tail(q) : \E i \in DOMAIN q : q[i] = Tail(q)[j]
<1>1. /\ Head(q) \in Messages /\ Tail(q) \in Seq(Messages) /\ Len(q) \in Nat \ {0}
      /\ DOMAIN q = 1 .. Len(q) /\ DOMAIN Tail(q) = 1 .. Len(q) - 1 /\ Head(q) = q[1]
      /\ \A j \in 1 .. Len(q) - 1 : Tail(q)[j] = q[j + 1]
  OBVIOUS
<1>2. ASSUME NEW i \in DOMAIN q, q[i] # Head(q)
      PROVE  \E j \in DOMAIN Tail(q) : Tail(q)[j] = q[i]
  <2>1. i - 1 \in 1 .. Len(q) - 1 /\ (i - 1) + 1 = i
    BY <1>1, <1>2
  <2> QED  BY <1>1, <2>1
<1>3. ASSUME NEW j \in DOMAIN Tail(q)
      PROVE  \E i \in DOMAIN q : q[i] = Tail(q)[j]
  <2>1. j + 1 \in DOMAIN q
    BY <1>1, <1>3
  <2> QED  BY <1>1, <1>3, <2>1
<1> QED  BY <1>1, <1>2, <1>3

----------------------------------------------------------------------------
(* What a run has seen.                                                    *)

Sights == {"none", "ran", "stale"} \cup Contents

LEMMA SeenAppend ==
  ASSUME NEW s \in Seq(Sights), NEW c \in Sights, Len(s) \in 1 .. 3
  PROVE  /\ Append(s, c) \in Seq(Sights) /\ Len(Append(s, c)) = Len(s) + 1
         /\ \A i \in 1 .. Len(s) : Append(s, c)[i] = s[i]
         /\ Append(s, c)[Len(s) + 1] = c
OBVIOUS

LEMMA SeenWhole ==
  ASSUME NEW s \in Seq(Sights), Len(s) = 4
  PROVE  s = <<s[1], s[2], s[3], s[4]>>
OBVIOUS

LEMMA ReadOrderFiles ==
  /\ Len(ReadOrder) = 3
  /\ ReadOrder[1] = "source" /\ ReadOrder[2] = "depMod" /\ ReadOrder[3] = "depSource"
BY DEF ReadOrder

(* The next file is read.                                                  *)
LEMMA ReadEffect ==
  ASSUME RunningInv, ReadAndRun
  PROVE  /\ seen' \in Seq(Sights) /\ Len(seen') = Len(seen) + 1 /\ Len(seen') \in 2 .. 4
         /\ \A i \in 1 .. Len(seen) : seen'[i] = seen[i]
         /\ seen'[Len(seen')] = disk[ReadOrder[Len(seen)]]
         /\ seen'[1] = "ran"
         /\ Len(seen) \in 1 .. 3 /\ disk' = disk
         /\ pc = "read" /\ pc' = IF Len(seen) = 3 THEN "drain" ELSE "read"
         /\ Len(seen') # 4 <=> pc' = "read"
<1>1. /\ seen \in Seq(Sights) /\ Len(seen) \in 1 .. 3 /\ seen[1] = "ran"
      /\ seen' = Append(seen, disk[ReadOrder[Len(seen)]])
      /\ pc = "read" /\ pc' = IF Len(seen) = 3 THEN "drain" ELSE "read"
      /\ disk' = disk
  BY ReadOrderFiles DEF RunningInv, Consistent, TypeOK, ReadAndRun, Goto, Sights
<1>2. ReadOrder[Len(seen)] \in Files
  <2>1. Len(seen) = 1 \/ Len(seen) = 2 \/ Len(seen) = 3
    BY <1>1
  <2> QED  BY <2>1, ReadOrderFiles DEF Files
<1>3. disk[ReadOrder[Len(seen)]] \in Sights
  BY <1>2 DEF RunningInv, Consistent, TypeOK, Sights
<1> QED  BY <1>1, <1>3, SeenAppend

----------------------------------------------------------------------------
(* Types and the coordinator.                                              *)

RootsOf == {Files, Files \ DependencyFiles}

LEMMA RunningInit == Init => RunningInv
<1> SUFFICES ASSUME Init PROVE RunningInv
  OBVIOUS
<1>1. edits \in 0 .. MaxEdits /\ disk \in [Files -> Contents]
  BY WatchAssumption DEF Init, Contents
<1>2. watched \subseteq Files /\ plan \subseteq Files /\ next \subseteq Files
  BY DEF Init, Roots
<1>3. /\ seen[1] = "none" /\ seen \in Seq({"none", "ran", "stale"} \cup Contents)
      /\ Len(seen) = 1 /\ queue \in Seq(Files \cup {"stop"})
  BY DEF Init
<1>4. TypeOK
  <2>1. /\ running \in BOOLEAN /\ dirty \in BOOLEAN /\ stop \in BOOLEAN
        /\ relevant \in BOOLEAN /\ news \in BOOLEAN /\ pc \in PCs
        /\ handler \in {"idle", "raised", "sent"} /\ late \in Nat
    BY DEF Init, PCs
  <2>2. Len(seen) \in 1 .. Len(ReadOrder) + 1 /\ seen[1] \in {"none", "ran", "stale"}
    BY <1>3, ReadOrderFiles
  <2> QED  BY <1>1, <1>2, <1>3, <2>1, <2>2 DEF TypeOK
<1> QED  BY <1>4 DEF Init, RunningInv, Consistent

(* What Receives and Edit do to the types.                                 *)
LEMMA DiskType ==
  ASSUME TypeOK
  PROVE  /\ Roots(disk) \subseteq Files
         /\ Outcome(disk) \in Seq(Sights) /\ Len(Outcome(disk)) = 4
         /\ Outcome(disk)[1] \in {"ran", "stale"}
         /\ \A f \in Files : [disk EXCEPT ![f] = Toggle[@]] \in [Files -> Contents]
<1>1. \A f \in Files : disk[f] \in Sights
  BY DEF TypeOK, Sights
<1>2. {ReadOrder[1], ReadOrder[2], ReadOrder[3]} \subseteq Files
  BY ReadOrderFiles DEF Files
<1>3. /\ Outcome(disk) \in Seq(Sights) /\ Len(Outcome(disk)) = 4
      /\ Outcome(disk)[1] \in {"ran", "stale"}
  BY <1>1, <1>2 DEF Outcome, Sights
<1>4. \A f \in Files : [disk EXCEPT ![f] = Toggle[@]] \in [Files -> Contents]
  BY WatchAssumption DEF TypeOK
<1> QED  BY <1>3, <1>4 DEF Roots

LEMMA RunningStep ==
  ASSUME RunningInv, [Next]_vars
  PROVE  RunningInv'
<1> USE DEF RunningInv, Consistent, PCs
<1>t. TypeOK /\ queue \in Seq(Messages) /\ "stop" \notin Files
  BY DEF TypeOK, Messages, Files
<1>1. ASSUME NEW f \in Editable, Edit(f) PROVE RunningInv'
  <2>1. f \in Files /\ edits + 1 \in 0 .. MaxEdits
    BY <1>t, <1>1, WatchAssumption DEF Edit, TypeOK
  <2>2. queue' \in Seq(Messages)
    BY <1>t, <1>1, <2>1, QueueAppend DEF Edit, Messages
  <2> QED  BY <1>t, <1>1, <2>1, <2>2, DiskType DEF Edit, loopVars, TypeOK, Messages
<1>2. CASE HandlerRaises
  BY <1>t, <1>2 DEF HandlerRaises, loopVars, TypeOK
<1>3. CASE HandlerSends
  <2>1. queue' \in Seq(Messages)
    BY <1>t, <1>3, QueueAppend DEF HandlerSends, Messages
  <2> QED  BY <1>t, <1>3, <2>1 DEF HandlerSends, loopVars, TypeOK, Messages
<1>4. CASE BuildPlan \/ Unwatch \/ WatchRoots \/ WatchFails
  BY <1>t, <1>4, DiskType DEF BuildPlan, Unwatch, WatchRoots, WatchFails, Goto, loopVars, TypeOK
<1>5. CASE CheckLock \/ ReadAndRun
  <2>1. /\ seen' \in Seq(Sights) /\ Len(seen') \in 1 .. 4 /\ seen'[1] \in {"ran", "stale"}
        /\ pc' = "read" => seen'[1] = "ran" /\ Len(seen') <= 3
    <3>1. CASE CheckLock /\ Fresh(disk)
      <4>1. seen' = <<"ran">>
        BY <3>1 DEF CheckLock
      <4> QED  BY <4>1 DEF Sights
    <3>2. CASE CheckLock /\ ~Fresh(disk)
      BY <1>t, <3>2, DiskType DEF CheckLock, Goto
    <3>3. CASE ReadAndRun
      BY <3>3, ReadEffect
    <3> QED  BY <1>5, <3>1, <3>2, <3>3
  <2>2. late' \in Nat
    BY <1>t, <1>5 DEF CheckLock, ReadAndRun, TypeOK
  <2>3. pc' \in {"read", "drain"} /\ pc \in {"check", "read"}
    BY <1>5 DEF CheckLock, ReadAndRun, Goto
  <2>4. /\ seen' \in Seq({"none", "ran", "stale"} \cup Contents)
        /\ Len(seen') \in 1 .. Len(ReadOrder) + 1 /\ seen'[1] \in {"none", "ran", "stale"}
        /\ pc' = "read" => seen'[1] = "ran" /\ Len(seen') <= Len(ReadOrder)
    BY <2>1, ReadOrderFiles DEF Sights
  <2>5. /\ UNCHANGED <<disk, edits, queue, stop, handler, watched, plan, next, running, dirty>>
        /\ relevant' \in BOOLEAN /\ news' \in BOOLEAN
    BY <1>t, <1>5 DEF CheckLock, ReadAndRun, TypeOK
  <2>6. TypeOK'
    BY <1>t, <2>2, <2>3, <2>4, <2>5 DEF TypeOK
  <2> QED  BY <2>3, <2>4, <2>5, <2>6
<1>6. ASSUME NEW m \in Messages, Receives(m) PROVE queue' \in Seq(Messages)
  BY <1>t, <1>6, QueueTail DEF Receives
<1>7. CASE DrainStop \/ WaitStop
  <2>1. queue' \in Seq(Messages)
    BY <1>6, <1>7 DEF DrainStop, WaitStop, Messages
  <2>2. CASE DrainStop
    BY <1>t, <2>1, <2>2 DEF DrainStop, Goto, loopVars, TypeOK, Messages
  <2>3. CASE WaitStop
    BY <1>t, <2>1, <2>3 DEF WaitStop, Goto, loopVars, TypeOK, Messages
  <2> QED  BY <1>7, <2>2, <2>3
<1>8. CASE DrainEvent \/ BatchEvent \/ WaitEvent
  <2>1. queue' \in Seq(Messages)
    BY <1>6, <1>8 DEF DrainEvent, BatchEvent, WaitEvent, Messages
  <2> QED  BY <1>t, <1>8, <2>1 DEF DrainEvent, BatchEvent, WaitEvent, RecordChange, Batching, Goto,
              TypeOK, Messages
<1>9. CASE DrainEmpty \/ BatchTimeout \/ LeaveWait
  BY <1>t, <1>9 DEF DrainEmpty, BatchTimeout, Batching, LeaveWait, Goto, loopVars, TypeOK
<1>10. CASE BatchStops
  <2>1. queue' \in Seq(Messages)
    BY <1>t, <1>6, <1>10 DEF BatchStops, Messages
  <2> QED  BY <1>t, <1>10, <2>1 DEF BatchStops, Batching, Goto, loopVars, TypeOK, Messages
<1>11. CASE FinishRun
  BY <1>t, <1>11 DEF FinishRun, Goto, TypeOK
<1>12. CASE UNCHANGED vars
  BY <1>t, <1>12 DEF vars, loopVars, TypeOK
<1> QED  BY <1>1, <1>2, <1>3, <1>4, <1>5, <1>7, <1>8, <1>9, <1>10, <1>11, <1>12 DEF Next, Loop

(* The loop's flags and its place agree, whatever is edited and when.      *)
THEOREM RunningInvariant == Spec => []RunningInv
<1>1. RunningInv /\ [Next]_vars => RunningInv'
  BY RunningStep
<1> QED  BY <1>1, RunningInit, PTL DEF Spec

(* The loop knows whether it is running, whatever is edited and when.      *)
THEOREM RunningIsKnown == Spec => []Consistent
<1>1. RunningInv => Consistent
  BY DEF RunningInv
<1> QED  BY <1>1, RunningInvariant, PTL

----------------------------------------------------------------------------
(* Ctrl+C.                                                                 *)

LEMMA StopStep ==
  ASSUME TypeOK, StopInv, [Next]_vars
  PROVE  StopInv'
<1> USE DEF StopInv
<1>t. queue \in Seq(Messages) /\ "stop" \notin Files /\ "stop" \in Messages
  BY DEF TypeOK, Messages, Files
<1>e. ASSUME NEW m \in Messages, queue' = Append(queue, m)
      PROVE  (StopMessage => StopMessage') /\ (m = "stop" => StopMessage')
  <2>1. Len(queue) \in Nat /\ Len(queue) + 1 \in DOMAIN queue'
    BY <1>t, <1>e, QueueAppend
  <2> QED  BY <1>t, <1>e, <2>1, QueueAppend DEF StopMessage
<1>r. ASSUME NEW m \in Files, Receives(m), StopMessage PROVE StopMessage'
  BY <1>t, <1>r, QueueTail DEF Receives, StopMessage
<1>1. ASSUME NEW f \in Editable, Edit(f) PROVE StopInv'
  <2>1. f \in Messages
    BY WatchAssumption DEF Messages
  <2> QED  BY <1>1, <1>e, <2>1 DEF Edit, loopVars, StopMessage
<1>2. CASE HandlerRaises
  BY <1>2 DEF HandlerRaises, loopVars, StopMessage
<1>3. CASE HandlerSends
  BY <1>t, <1>3, <1>e DEF HandlerSends, loopVars
<1>4. CASE BuildPlan \/ Unwatch \/ WatchRoots \/ WatchFails \/ ReadAndRun \/ FinishRun
  BY <1>4 DEF BuildPlan, Unwatch, WatchRoots, WatchFails, ReadAndRun, FinishRun, Goto, loopVars,
     StopMessage
<1>5. CASE CheckLock
  BY <1>5 DEF CheckLock, Goto, StopMessage
<1>6. CASE DrainStop \/ WaitStop
  BY <1>6 DEF DrainStop, WaitStop, Goto, loopVars
<1>7. CASE DrainEvent \/ BatchEvent \/ WaitEvent
  <2>1. PICK m \in Files : Receives(m)
    BY <1>7 DEF DrainEvent, BatchEvent, WaitEvent
  <2> QED  BY <1>7, <1>r, <2>1 DEF DrainEvent, BatchEvent, WaitEvent, Batching, Goto
<1>8. CASE DrainEmpty \/ BatchTimeout
  <2>1. ~StopMessage
    BY <1>8 DEF DrainEmpty, BatchTimeout, StopMessage
  <2> QED  BY <1>8, <2>1 DEF DrainEmpty, BatchTimeout, Batching, Goto, loopVars
<1>9. CASE BatchStops
  BY <1>9 DEF BatchStops, Batching, Goto, loopVars
<1>10. CASE LeaveWait
  BY <1>10 DEF LeaveWait, Goto, loopVars, StopMessage
<1>11. CASE UNCHANGED vars
  BY <1>11 DEF vars, loopVars, StopMessage
<1> QED  BY <1>1, <1>2, <1>3, <1>4, <1>5, <1>6, <1>7, <1>8, <1>9, <1>10, <1>11 DEF Next, Loop

(* Ctrl+C lets at most the run that was about to begin begin: its message  *)
(* is still in the queue when that run is over, and is then found.         *)
THEOREM StopsPromptly == Spec => []StopIsPrompt
<1>1. Init => StopInv
  BY DEF Init, StopInv
<1>2. TypeOK /\ StopInv /\ [Next]_vars => StopInv'
  BY StopStep
<1>3. RunningInv => TypeOK
  BY DEF RunningInv, Consistent
<1>4. StopInv => StopIsPrompt
  BY DEF StopInv, StopIsPrompt
<1> QED  BY <1>1, <1>2, <1>3, <1>4, RunningInvariant, PTL DEF Spec

----------------------------------------------------------------------------
(* No rest on an outdated run.                                             *)

LEMMA OutdatedInit == Init => OutdatedInv
<1> SUFFICES ASSUME Init PROVE OutdatedInv
  OBVIOUS
<1>1. RunningInv
  BY RunningInit
<1>2. Fresh(disk) /\ plan = Files /\ next = Files /\ watched = Files
  BY DEF Init, Roots, Fresh, Files
<1>3. PlanInv /\ FixedInv
  BY <1>2 DEF Init, PlanInv, FixedInv, Files
<1>4. CurrentInv
  BY DEF Init, CurrentInv
<1> QED  BY <1>1, <1>3, <1>4 DEF OutdatedInv

LEMMA FixedStep ==
  ASSUME OneSideEdited, TypeOK, FixedInv, [Next]_vars
  PROVE  FixedInv'
<1>1. ASSUME NEW f \in Editable, Edit(f) PROVE FixedInv'
  BY <1>1, WatchAssumption DEF Edit, FixedInv, OneSideEdited, TypeOK, Files
<1>2. CASE HandlerRaises \/ HandlerSends
  BY <1>2 DEF HandlerRaises, HandlerSends, FixedInv
<1>3. CASE Loop
  BY <1>3 DEF Loop, BuildPlan, Unwatch, WatchRoots, WatchFails, CheckLock, ReadAndRun, DrainStop,
     DrainEvent, DrainEmpty, BatchStops, BatchEvent, BatchTimeout, FinishRun, WaitStop, WaitEvent,
     LeaveWait, FixedInv
<1>4. CASE UNCHANGED vars
  BY <1>4 DEF vars, FixedInv
<1> QED  BY <1>1, <1>2, <1>3, <1>4 DEF Next

LEMMA PlanStep ==
  ASSUME FixedInv, PlanInv, [Next]_vars
  PROVE  PlanInv'
<1> USE DEF PlanInv
<1>1. /\ Files \ DependencyFiles \subseteq Roots(disk)
      /\ "lock" \notin Editable => Roots(disk) = Files
  BY DEF Roots, Fresh, FixedInv, Files, DependencyFiles
<1>2. CASE BuildPlan
  BY <1>1, <1>2 DEF BuildPlan, Goto
<1>3. CASE Unwatch
  BY <1>3 DEF Unwatch, Goto
<1>4. CASE WatchRoots \/ WatchFails
  BY <1>4 DEF WatchRoots, WatchFails, Goto, loopVars
<1>5. CASE \/ \E f \in Editable : Edit(f)
           \/ HandlerRaises \/ HandlerSends \/ CheckLock \/ ReadAndRun
           \/ DrainStop \/ DrainEvent \/ DrainEmpty \/ BatchStops \/ BatchEvent \/ BatchTimeout
           \/ FinishRun \/ WaitStop \/ WaitEvent \/ LeaveWait
  <2>1. /\ UNCHANGED <<watched, plan, next>>
        /\ pc \in {"watch", "stopped"} => pc' \in {"watch", "stopped"}
    <3>1. CASE (\E f \in Editable : Edit(f)) \/ HandlerRaises \/ HandlerSends
      BY <3>1 DEF Edit, HandlerRaises, HandlerSends, loopVars
    <3>2. CASE CheckLock \/ ReadAndRun \/ FinishRun
      BY <3>2 DEF CheckLock, ReadAndRun, FinishRun, Goto
    <3>3. CASE DrainStop \/ DrainEmpty \/ WaitStop \/ LeaveWait
      BY <3>3 DEF DrainStop, DrainEmpty, WaitStop, LeaveWait, Goto, loopVars
    <3>4. CASE DrainEvent \/ BatchEvent \/ WaitEvent
      BY <3>4 DEF DrainEvent, BatchEvent, WaitEvent, Batching, Goto
    <3>5. CASE BatchStops \/ BatchTimeout
      BY <3>5 DEF BatchStops, BatchTimeout, Batching, Goto, loopVars
    <3> QED  BY <1>5, <3>1, <3>2, <3>3, <3>4, <3>5
  <2> QED  BY <2>1
<1>6. CASE UNCHANGED vars
  BY <1>6 DEF vars, loopVars
<1> QED  BY <1>2, <1>3, <1>4, <1>5, <1>6 DEF Next, Loop

(* A message leaves the queue: the change it tells of is marked, or it     *)
(* tells of none.                                                          *)
LEMMA PendingReceived ==
  ASSUME TypeOK, NEW m \in Messages, Receives(m), ChangePending, plan' = plan,
         dirty => dirty', Relevant(m) => dirty'
  PROVE  ChangePending'
<1>1. queue \in Seq(Messages) /\ queue # <<>> /\ Head(queue) = m /\ queue' = Tail(queue)
  BY DEF TypeOK, Messages, Receives
<1>2. ASSUME NEW i \in DOMAIN queue, Relevant(queue[i]), ~dirty'
      PROVE  \E j \in DOMAIN queue' : Relevant(queue[j])'
  <2>1. queue[i] # Head(queue)
    BY <1>1, <1>2
  <2>2. PICK j \in DOMAIN Tail(queue) : Tail(queue)[j] = queue[i]
    BY <1>1, <2>1, QueueTail
  <2> QED  BY <1>1, <1>2, <2>2 DEF Relevant
<1> QED  BY <1>2 DEF ChangePending

(* An edit while a run reads, is drained or is waited on: it is of a file  *)
(* no run looks at, or its event is in the queue.                          *)
LEMMA CurrentEdit ==
  ASSUME OneSideEdited, RunningInv, TypeOK, PlanInv, CurrentInv, NEW f \in Editable, Edit(f)
  PROVE  CurrentInv'
<1>1. /\ pc' = pc /\ seen' = seen /\ plan' = plan /\ dirty' = dirty
      /\ f \in Files /\ f # "depMod"
      /\ disk' = [disk EXCEPT ![f] = Toggle[@]]
  BY WatchAssumption DEF Edit, loopVars, OneSideEdited
<1>2. CASE pc \notin {"read", "drain", "drainBatch", "finish", "wait"}
  BY <1>1, <1>2 DEF CurrentInv
<1>3. CASE pc \in {"read", "drain", "drainBatch", "finish", "wait"} /\ f = "notes"
  <2>0. \A g \in Files : g # "notes" => disk'[g] = disk[g]
    BY <1>1, <1>3 DEF TypeOK
  <2>1. /\ Fresh(disk)' = Fresh(disk) /\ Outcome(disk)' = Outcome(disk)
        /\ pc = "read" /\ ReadsCurrent => ReadsCurrent'
    <3>1. Fresh(disk)' = Fresh(disk) /\ Outcome(disk)' = Outcome(disk)
      BY <2>0, ReadOrderFiles DEF Fresh, Outcome, Files
    <3>2. ASSUME pc = "read", ReadsCurrent, NEW i \in 2 .. Len(seen)
          PROVE  seen[i] = disk'[ReadOrder[i - 1]]
      <4>1. Len(seen) \in 1 .. 3
        BY <3>2, ReadOrderFiles DEF RunningInv, Consistent, TypeOK
      <4>2. i - 1 = 1 \/ i - 1 = 2
        BY <3>2, <4>1
      <4> QED  BY <2>0, <3>2, <4>2, ReadOrderFiles DEF ReadsCurrent, Files
    <3> QED  BY <1>1, <3>1, <3>2 DEF ReadsCurrent
  <2>2. ChangePending => ChangePending'
    <3>1. CASE queue' = queue
      BY <1>1, <3>1 DEF ChangePending, Relevant
    <3>2. CASE queue' = Append(queue, f)
      <4>1. /\ DOMAIN queue \subseteq DOMAIN queue'
            /\ \A i \in DOMAIN queue : queue'[i] = queue[i]
        BY <1>1, <3>2, QueueAppend DEF TypeOK, Messages
      <4> QED  BY <1>1, <4>1 DEF ChangePending, Relevant
    <3> QED  BY <3>1, <3>2 DEF Edit
  <2>3. CASE ChangePending
    BY <1>1, <2>2, <2>3 DEF CurrentInv
  <2>4. CASE ~ChangePending
    BY <1>1, <2>1, <2>4 DEF CurrentInv
  <2> QED  BY <2>3, <2>4
<1>4. CASE pc \in {"read", "drain", "drainBatch", "finish", "wait"} /\ f # "notes"
  <2>1. f \in plan /\ watched = plan
    BY <1>1, <1>4 DEF PlanInv, OneSideEdited, Files, DependencyFiles
  <2>2. queue' = Append(queue, f)
    BY <2>1 DEF Edit
  <2>3. Len(queue) + 1 \in DOMAIN queue' /\ queue'[Len(queue) + 1] = f
    BY <1>1, <2>2, QueueAppend DEF TypeOK, Messages
  <2>4. Relevant(f)'
    BY <1>1, <1>4, <2>1 DEF Relevant
  <2>5. ChangePending'
    BY <2>3, <2>4 DEF ChangePending, Relevant
  <2> QED  BY <2>5 DEF CurrentInv
<1> QED  BY <1>2, <1>3, <1>4

LEMMA CurrentStep ==
  ASSUME OneSideEdited, RunningInv, PlanInv, CurrentInv, [Next]_vars
  PROVE  CurrentInv'
<1>t. TypeOK /\ (pc \in {"drain", "drainBatch", "finish"} => running) /\ "stop" \in Messages
      /\ Files \subseteq Messages
  BY DEF RunningInv, Consistent, Messages
<1>1. ASSUME NEW f \in Editable, Edit(f) PROVE CurrentInv'
  BY <1>t, <1>1, CurrentEdit
<1>2. CASE HandlerRaises
  BY <1>2 DEF HandlerRaises, CurrentInv, ReadsCurrent, loopVars, ChangePending, Relevant
<1>3. CASE HandlerSends
  <2>1. ChangePending => ChangePending'
    <3>1. /\ DOMAIN queue \subseteq DOMAIN queue'
          /\ \A i \in DOMAIN queue : queue'[i] = queue[i]
      BY <1>t, <1>3, QueueAppend DEF HandlerSends, TypeOK, Messages
    <3> QED  BY <1>3, <3>1 DEF HandlerSends, loopVars, ChangePending, Relevant
  <2> QED  BY <1>3, <2>1 DEF HandlerSends, loopVars, CurrentInv, ReadsCurrent
<1>4. CASE BuildPlan \/ Unwatch \/ WatchRoots \/ WatchFails \/ LeaveWait
  BY <1>4 DEF BuildPlan, Unwatch, WatchRoots, WatchFails, LeaveWait, Goto, CurrentInv
<1>5. CASE CheckLock
  <2>1. CASE Fresh(disk)
    <3>1. pc' = "read" /\ seen' = <<"ran">> /\ disk' = disk
      BY <1>5, <2>1 DEF CheckLock, Goto
    <3>2. ReadsCurrent' /\ Fresh(disk)'
      BY <2>1, <3>1 DEF ReadsCurrent, Fresh
    <3> QED  BY <3>1, <3>2 DEF CurrentInv
  <2>2. CASE ~Fresh(disk)
    BY <1>5, <2>2 DEF CheckLock, Goto, CurrentInv, Same
  <2> QED  BY <2>1, <2>2
<1>6. CASE ReadAndRun
  <2>1. CASE ChangePending
    <3>1. ChangePending' /\ pc' \in {"read", "drain"}
      BY <1>6, <2>1 DEF ReadAndRun, Goto, ChangePending, Relevant
    <3> QED  BY <3>1 DEF CurrentInv
  <2>2. CASE Fresh(disk) /\ ReadsCurrent
    <3>1. /\ seen' \in Seq(Sights) /\ Len(seen') = Len(seen) + 1 /\ Len(seen') \in 2 .. 4
          /\ \A i \in 1 .. Len(seen) : seen'[i] = seen[i]
          /\ seen'[Len(seen')] = disk[ReadOrder[Len(seen)]] /\ seen'[1] = "ran"
          /\ pc' \in {"read", "drain"} /\ (Len(seen') # 4 <=> pc' = "read")
          /\ disk' = disk /\ Len(seen) \in 1 .. 3
      BY <1>6, ReadEffect
    <3>2. disk' = disk /\ Len(seen) \in 1 .. 3
      BY <3>1
    <3>3. ASSUME NEW i \in 2 .. Len(seen') PROVE seen'[i] = disk[ReadOrder[i - 1]]
      <4>1. i \in 2 .. Len(seen) \/ (i = Len(seen') /\ i - 1 = Len(seen))
        BY <3>1, <3>2
      <4> QED  BY <2>2, <3>1, <3>2, <4>1 DEF ReadsCurrent
    <3>4. CASE pc' = "read"
      <4>1. ReadsCurrent' /\ Fresh(disk)'
        BY <2>2, <3>2, <3>3 DEF ReadsCurrent, Fresh
      <4> QED  BY <3>4, <4>1 DEF CurrentInv
    <3>5. CASE pc' = "drain"
      <4>1. Len(seen') = 4
        BY <3>1, <3>5
      <4>2. /\ seen'[1] = "ran" /\ seen'[2] = disk[ReadOrder[1]]
            /\ seen'[3] = disk[ReadOrder[2]] /\ seen'[4] = disk[ReadOrder[3]]
        <5>1. {2, 3, 4} \subseteq 2 .. Len(seen') /\ 2 - 1 = 1 /\ 3 - 1 = 2 /\ 4 - 1 = 3
          BY <4>1
        <5>2. /\ seen'[2] = disk[ReadOrder[2 - 1]] /\ seen'[3] = disk[ReadOrder[3 - 1]]
              /\ seen'[4] = disk[ReadOrder[4 - 1]]
          BY <3>3, <5>1
        <5> QED  BY <3>1, <5>1, <5>2
      <4>3. seen' = Outcome(disk)
        BY <2>2, <3>1, <4>1, <4>2, SeenWhole DEF Outcome
      <4> QED  BY <3>2, <3>5, <4>3 DEF CurrentInv, Same, Outcome, Fresh
    <3> QED  BY <3>1, <3>4, <3>5
  <2> QED  BY <1>6, <2>1, <2>2 DEF ReadAndRun, CurrentInv
<1>7. CASE DrainStop \/ WaitStop \/ BatchStops
  BY <1>7 DEF DrainStop, WaitStop, BatchStops, Goto, CurrentInv
<1>8. CASE DrainEvent \/ BatchEvent \/ WaitEvent
  <2>1. PICK m \in Files :
          /\ Receives(m) /\ plan' = plan /\ seen' = seen /\ disk' = disk
          /\ pc' = IF pc = "wait" /\ Relevant(m) THEN "waitBatch" ELSE pc
          /\ IF Relevant(m) THEN RecordChange ELSE UNCHANGED <<running, dirty>>
          /\ pc \in {"drain", "drainBatch", "waitBatch", "wait"}
    BY <1>8 DEF DrainEvent, BatchEvent, WaitEvent, Batching, Goto
  <2>2. CASE pc' \in {"drain", "drainBatch", "wait"}
    <3>1. (dirty => dirty') /\ (Relevant(m) => dirty')
      BY <1>t, <2>1, <2>2 DEF RecordChange
    <3>2. ChangePending => ChangePending'
      BY <1>t, <2>1, <3>1, PendingReceived
    <3> QED  BY <2>1, <2>2, <3>2 DEF CurrentInv
  <2>3. CASE pc' = "waitBatch"
    BY <2>3 DEF CurrentInv
  <2> QED  BY <2>1, <2>2, <2>3
<1>9. CASE DrainEmpty \/ BatchTimeout
  BY <1>9 DEF DrainEmpty, BatchTimeout, Batching, Goto, loopVars, CurrentInv, ChangePending, Relevant
<1>10. CASE FinishRun
  <2>1. CASE dirty
    BY <1>10, <2>1 DEF FinishRun, Goto, CurrentInv
  <2>2. CASE ~dirty
    BY <1>10, <2>2 DEF FinishRun, Goto, CurrentInv, ChangePending, Relevant
  <2> QED  BY <2>1, <2>2
<1>11. CASE UNCHANGED vars
  BY <1>11 DEF vars, loopVars, CurrentInv, ReadsCurrent, ChangePending, Relevant
<1> QED  BY <1>1, <1>2, <1>3, <1>4, <1>5, <1>6, <1>7, <1>8, <1>9, <1>10, <1>11 DEF Next, Loop

(* The loop never waits on an outdated run with no event on the way: for   *)
(* any number of edits, of any files but the manifest, as long as the      *)
(* lockfile and the dependency's source are not both edited (the README    *)
(* tells what happens when they are).                                      *)
THEOREM NeverRestsOutdated ==
  ASSUME OneSideEdited
  PROVE  Spec => []NeverOutdated
<1>1. Init => OutdatedInv
  BY OutdatedInit
<1>2. OutdatedInv /\ [Next]_vars => OutdatedInv'
  <2> SUFFICES ASSUME OutdatedInv, [Next]_vars PROVE OutdatedInv'
    OBVIOUS
  <2>1. RunningInv' /\ PlanInv'
    BY RunningStep, PlanStep DEF OutdatedInv
  <2>2. TypeOK
    BY DEF OutdatedInv, RunningInv, Consistent
  <2>3. FixedInv' /\ CurrentInv'
    BY <2>2, FixedStep, CurrentStep DEF OutdatedInv
  <2> QED  BY <2>1, <2>3 DEF OutdatedInv
<1>3. OutdatedInv => NeverOutdated
  <2> SUFFICES ASSUME OutdatedInv, Idle PROVE Consistent /\ Same(seen, Outcome(disk))
    BY DEF NeverOutdated, IdleIsCurrent, OutdatedInv, RunningInv
  <2>1. ~ChangePending
    BY DEF OutdatedInv, RunningInv, Consistent, Idle, ChangePending
  <2> QED  BY <2>1 DEF OutdatedInv, RunningInv, CurrentInv, Idle
<1> QED  BY <1>1, <1>2, <1>3, PTL DEF Spec
=============================================================================
