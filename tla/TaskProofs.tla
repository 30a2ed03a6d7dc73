----------------------------- MODULE TaskProofs -----------------------------
(* Proofs about Task for any number of tasks, tokens and joins: no wakeup  *)
(* of a join is lost, all joins of a task agree, completion wins over      *)
(* cancellation, and no failure is swallowed by a plain await.             *)
EXTENDS Task, TLAPS

----------------------------------------------------------------------------
(* Tokens and signals keep their types.                                    *)

(* Types of the two variables.                                             *)
SignalTypeOK ==
  /\ token \in [Tokens -> CancellationState]
  /\ signal \in [Threads -> BOOLEAN]

(* The waiters of a token are all that Watch and Forget change.            *)
LEMMA WaitersUpdate ==
  ASSUME SignalTypeOK, NEW j \in Tokens, NEW S \in SUBSET Threads
  PROVE  [token[j] EXCEPT !.waiters = S] \in CancellationState
BY DEF SignalTypeOK, CancellationState

(* The waiters of a token are threads.                                     *)
LEMMA WaitersType ==
  ASSUME SignalTypeOK, NEW j \in Tokens
  PROVE  token[j].waiters \in SUBSET Threads
BY DEF SignalTypeOK, CancellationState

(* The death of a registered signal.                                       *)
LEMMA ForgetType ==
  ASSUME SignalTypeOK, NEW t \in Threads, NEW k, Forget(t, k)
  PROVE  token' \in [Tokens -> CancellationState]
<1>1. \A j \in Tokens : (IF j = k THEN token[j].waiters \ {t} ELSE token[j].waiters)
                          \in SUBSET Threads
  BY WaitersType
<1>2. \A j \in Tokens : [token[j] EXCEPT !.waiters = IF j = k THEN @ \ {t} ELSE @]
                          \in CancellationState
  BY <1>1, WaitersUpdate
<1> QED  BY <1>2 DEF Forget

(* A registration.                                                         *)
LEMMA WatchType ==
  ASSUME SignalTypeOK, NEW t \in Threads, NEW k, Watch(t, k)
  PROVE  token' \in [Tokens -> CancellationState]
<1>1. \A j \in Tokens : (IF j = k THEN token[j].waiters \cup {t} ELSE token[j].waiters)
                          \in SUBSET Threads
  BY WaitersType
<1>2. \A j \in Tokens : [token[j] EXCEPT !.waiters = IF j = k THEN @ \cup {t} ELSE @]
                          \in CancellationState
  BY <1>1, WaitersUpdate
<1> QED  BY <1>2 DEF Watch

(* The first step of a cancel.                                             *)
LEMMA RaiseFlagType ==
  ASSUME SignalTypeOK, NEW k \in Tokens, RaiseFlag(k)
  PROVE  token' \in [Tokens -> CancellationState] /\ signal' = signal
<1>1. [token[k] EXCEPT !.cancelled = TRUE, !.notifying = TRUE] \in CancellationState
  BY DEF SignalTypeOK, CancellationState
<1> QED  BY <1>1 DEF RaiseFlag, SignalTypeOK, CancellationState

(* Notifications touch signals only.                                       *)
LEMMA NotifyType ==
  ASSUME NEW owners, Notify(owners)
  PROVE  signal' \in [Threads -> BOOLEAN]
<1>1. \A u \in Threads : (signal[u] \/ u \in owners) \in BOOLEAN
  OBVIOUS
<1> QED  BY <1>1 DEF Notify

(* The second step of a cancel.                                            *)
LEMMA NotifyWatchersType ==
  ASSUME SignalTypeOK, NEW k \in Tokens, NotifyWatchers(k)
  PROVE  token' \in [Tokens -> CancellationState] /\ signal' \in [Threads -> BOOLEAN]
<1>1. [token[k] EXCEPT !.notifying = FALSE] \in CancellationState
  BY DEF SignalTypeOK, CancellationState
<1>2. token' \in [Tokens -> CancellationState]
  BY <1>1 DEF NotifyWatchers, SignalTypeOK
<1> QED  BY <1>2, NotifyType DEF NotifyWatchers

(* The generation is read, or the signal dropped.                          *)
LEMMA DropSignalType ==
  ASSUME SignalTypeOK, NEW t \in Threads, DropSignal(t) \/ ReadGeneration(t)
  PROVE  signal' \in [Threads -> BOOLEAN]
BY DEF SignalTypeOK, DropSignal, ReadGeneration

----------------------------------------------------------------------------
(* Tasks and their joins.                                                  *)

(* A join that is under way names a task, and a token only if it has one.  *)
JoinShape ==
  \A t \in Threads : join[t].pc # "idle" =>
    /\ join[t].task \in Tasks
    /\ thread[t] = "running"

(* Outcomes are stored once, by the thread that ends.                      *)
StoredOnce ==
  \A k \in Tasks :
    thread[k] \in {"unborn", "running", "failing"} <=> task[k].result = "none"

TypeInv == TypeOK /\ JoinShape /\ StoredOnce

(* A registered join is reached by the notifications of its task and token.*)
JoinsRegistered ==
  \A t \in Threads :
    /\ join[t].pc = "watch" \/ (join[t].pc # "idle" /\ join[t].registered)
         => t \in task[join[t].task].listeners
    /\ join[t].pc # "idle" /\ join[t].registered /\ join[t].tok \in Tokens
         => t \in token[join[t].tok].waiters
    /\ join[t].pc \in {"arm", "recheck", "asleep"} => join[t].registered

WaitInv == JoinsRegistered /\ SleepersWait

(* Every answer was the outcome of the task when it was given; the plain   *)
(* await of a failed direct task leaves the thread failing or failed.      *)
AnswerInv ==
  /\ JoinsAgree
  /\ \A t, k \in Tasks :
       (/\ Boundary[k] = "direct"
        /\ \E failure \in Failures : <<k, "await", failure>> \in answers[t])
         => \/ thread[t] = "failing"
            \/ task[t].result = "diagnostics"

----------------------------------------------------------------------------
LEMMA TaskInit == Init => TypeInv /\ WaitInv /\ AnswerInv
<1> SUFFICES ASSUME Init PROVE TypeInv /\ WaitInv /\ AnswerInv
  OBVIOUS
<1> USE TaskAssumption DEF Init, NoJoin, EmptyHandle, FreshToken
<1>1. TypeOK
  BY DEF TypeOK, Join, Forms, TaskHandle, CancellationState, ThreadStates, Outcomes
<1>2. JoinShape /\ StoredOnce
  BY DEF JoinShape, StoredOnce
<1>3. WaitInv
  BY DEF WaitInv, JoinsRegistered, SleepersWait
<1>4. AnswerInv
  BY DEF AnswerInv, JoinsAgree
<1> QED  BY <1>1, <1>2, <1>3, <1>4 DEF TypeInv

(* The effect of the return of a join, whatever it answers.                *)
LEMMA ReturnTypes ==
  ASSUME TypeInv, NEW t \in Threads, join[t].task \in Tasks,
         NEW answer \in Answers, Returns(t, answer)
  PROVE  /\ answers' \in [Threads -> SUBSET (Tasks \X Forms \X Answers)]
         /\ join' \in [Threads -> Join]
         /\ task' \in [Tasks -> TaskHandle]
         /\ token' \in [Tokens -> CancellationState]
         /\ signal' \in [Threads -> BOOLEAN]
         /\ join'[t].pc = "idle"
         /\ \A u \in Threads \ {t} : join'[u] = join[u]
         /\ \A k \in Tasks : task'[k].result = task[k].result
<1> USE DEF TypeInv, TypeOK, Returns
<1>1. join[t].form \in Forms
  BY DEF Join
<1>2. <<join[t].task, join[t].form, answer>> \in Tasks \X Forms \X Answers
  BY <1>1
<1>3. answers' \in [Threads -> SUBSET (Tasks \X Forms \X Answers)]
  BY <1>2
<1>4. NoJoin \in Join
  BY DEF NoJoin, Join, Forms
<1>5. join' \in [Threads -> Join] /\ join'[t].pc = "idle"
      /\ \A u \in Threads \ {t} : join'[u] = join[u]
  BY <1>4 DEF NoJoin
<1>6. task' \in [Tasks -> TaskHandle] /\ \A k \in Tasks : task'[k].result = task[k].result
  BY DEF TaskHandle
<1>7. token' \in [Tokens -> CancellationState]
  <2>1. Forget(t, join[t].tok)
    OBVIOUS
  <2> QED  BY <2>1, ForgetType DEF SignalTypeOK
<1>8. signal' \in [Threads -> BOOLEAN]
  <2>1. DropSignal(t)
    OBVIOUS
  <2> QED  BY <2>1, DropSignalType DEF SignalTypeOK
<1> QED  BY <1>3, <1>5, <1>6, <1>7, <1>8

LEMMA TypeStep ==
  ASSUME TypeInv, [Next]_vars
  PROVE  TypeInv'
<1> USE TaskAssumption DEF TypeInv, TypeOK
<1>1. ASSUME NEW t \in Threads, NEW k \in Tasks, Spawn(t, k) PROVE TypeInv'
  BY <1>1 DEF Spawn, Runs, JoinShape, StoredOnce, ThreadStates
<1>2. ASSUME NEW t \in Threads, NEW k \in Tasks, NEW form \in Forms,
             NEW tok \in Tokens \cup {NoToken}, Await(t, k, form, tok)
      PROVE  TypeInv'
  <2>1. join' \in [Threads -> Join]
    BY <1>2 DEF Await, Join
  <2>2. JoinShape'
    BY <1>2 DEF Await, Runs, JoinShape
  <2> QED  BY <1>2, <2>1, <2>2 DEF Await, StoredOnce
<1>3. ASSUME NEW t \in Threads, NEW outcome \in Outcomes, Store(t, outcome)
      PROVE  TypeInv'
  <2>0. thread[t] \in {"running", "failing"} /\ join[t].pc = "idle"
    BY <1>3 DEF Store, Ends, Runs, JoinShape
  <2>1. CASE t = Main
    BY <1>3, <2>0, <2>1 DEF Store, JoinShape, StoredOnce, ThreadStates
  <2>2. CASE t # Main
    <3>1. t \in Tasks
      BY <2>2
    <3>2. task' \in [Tasks -> TaskHandle]
      BY <1>3, <2>2, <3>1 DEF Store, TaskHandle
    <3>3. thread' \in [Threads -> ThreadStates]
      BY <1>3, <2>2 DEF Store, ThreadStates
    <3>4. JoinShape'
      BY <1>3, <2>0, <2>2 DEF Store, JoinShape
    <3>5. StoredOnce'
      BY <1>3, <2>2, <3>1 DEF Store, StoredOnce, Outcomes, TaskHandle
    <3> QED  BY <1>3, <3>2, <3>3, <3>4, <3>5 DEF Store
  <2> QED  BY <2>1, <2>2
<1>4. ASSUME NEW k \in Tokens, Cancel(k) PROVE TypeInv'
  <2>1. token' \in [Tokens -> CancellationState] /\ signal' = signal
    BY <1>4, RaiseFlagType DEF Cancel, SignalTypeOK
  <2>2. thread' = thread /\ task' = task /\ join' = join /\ answers' = answers
    BY <1>4 DEF Cancel
  <2>3. JoinShape'
    BY <2>2 DEF JoinShape
  <2>4. StoredOnce'
    BY <2>2 DEF StoredOnce
  <2> QED  BY <2>1, <2>2, <2>3, <2>4
<1>5. ASSUME NEW k \in Tokens, CancelNotifies(k) PROVE TypeInv'
  <2>1. token' \in [Tokens -> CancellationState] /\ signal' \in [Threads -> BOOLEAN]
    BY <1>5, NotifyWatchersType DEF CancelNotifies, SignalTypeOK
  <2>2. thread' = thread /\ task' = task /\ join' = join /\ answers' = answers
    BY <1>5 DEF CancelNotifies
  <2>3. JoinShape'
    BY <2>2 DEF JoinShape
  <2>4. StoredOnce'
    BY <2>2 DEF StoredOnce
  <2> QED  BY <2>1, <2>2, <2>3, <2>4
<1>6. ASSUME NEW k \in Tasks, StoreNotifies(k) PROVE TypeInv'
  <2>1. \A t \in Threads : join[t].pc # "idle" => t # k
    BY <1>6 DEF StoreNotifies, JoinShape
  <2>2. thread' \in [Threads -> ThreadStates] /\ signal' \in [Threads -> BOOLEAN]
    BY <1>6 DEF StoreNotifies, Notify, ThreadStates
  <2>3. JoinShape' /\ StoredOnce'
    BY <1>6, <2>1 DEF StoreNotifies, JoinShape, StoredOnce
  <2> QED  BY <1>6, <2>2, <2>3 DEF StoreNotifies
<1>7. ASSUME NEW t \in Threads, JoinStep(t) PROVE TypeInv'
  <2>0. join[t].task \in Tasks /\ thread[t] = "running" /\ join[t] \in Join
    BY <1>7 DEF JoinStep, JoinCompletes, JoinIsCancelled, JoinGoesOn, JoinListens,
       JoinWatches, JoinArms, JoinWakes, JoinShape
  <2>1. CASE JoinCompletes(t)
    <3>1. task[join[t].task].result \in Answers
      BY <2>0, <2>1 DEF JoinCompletes, Known, TaskHandle, Answers
    <3>2. thread' \in [Threads -> ThreadStates]
      BY <2>1 DEF JoinCompletes, ThreadStates
    <3>3. Returns(t, task[join[t].task].result)
      BY <2>1 DEF JoinCompletes
    <3>4. JoinShape'
      BY <2>0, <2>1, <3>1, <3>3, ReturnTypes DEF JoinCompletes, JoinShape
    <3>5. StoredOnce'
      BY <2>0, <2>1, <3>1, <3>3, ReturnTypes DEF JoinCompletes, StoredOnce
    <3> QED  BY <2>0, <3>1, <3>2, <3>3, <3>4, <3>5, ReturnTypes
  <2>2. CASE JoinIsCancelled(t)
    <3>1. "cancelled" \in Answers /\ Returns(t, "cancelled")
      BY <2>2 DEF JoinIsCancelled, Answers
    <3>2. JoinShape'
      BY <2>0, <2>2, <3>1, ReturnTypes DEF JoinIsCancelled, JoinShape
    <3>3. StoredOnce'
      BY <2>0, <2>2, <3>1, ReturnTypes DEF JoinIsCancelled, StoredOnce
    <3> QED  BY <2>0, <2>2, <3>1, <3>2, <3>3, ReturnTypes DEF JoinIsCancelled
  <2>3. CASE JoinGoesOn(t) \/ JoinListens(t) \/ JoinWatches(t) \/ JoinArms(t) \/ JoinWakes(t)
    <3>1. PICK pc \in {"look", "listen", "watch", "arm", "recheck", "asleep"},
               registered \in BOOLEAN :
            join' = [join EXCEPT ![t] = [join[t] EXCEPT !.pc = pc, !.registered = registered]]
      <4>1. join[t].registered \in BOOLEAN
        BY <2>0 DEF Join
      <4>2. \A pc : [join[t] EXCEPT !.pc = pc]
                 = [join[t] EXCEPT !.pc = pc, !.registered = join[t].registered]
        BY <2>0 DEF Join
      <4>3. CASE JoinWatches(t)
        BY <4>3 DEF JoinWatches
      <4>4. CASE ~JoinWatches(t)
        <5>1. PICK pc \in {"look", "listen", "watch", "arm", "recheck", "asleep"} :
                join' = [join EXCEPT ![t] = [join[t] EXCEPT !.pc = pc]]
          BY <2>3, <4>4 DEF JoinGoesOn, JoinListens, JoinArms, JoinWakes
        <5> QED  BY <4>1, <4>2, <5>1
      <4> QED  BY <4>3, <4>4
    <3>2. join' \in [Threads -> Join]
      BY <2>0, <3>1 DEF Join
    <3>3. JoinShape'
      BY <2>0, <2>3, <3>1 DEF Join, JoinShape, JoinGoesOn, JoinListens, JoinWatches,
         JoinArms, JoinWakes
    <3>4. /\ task' \in [Tasks -> TaskHandle]
          /\ \A k \in Tasks : task'[k].result = task[k].result
      <4>1. CASE JoinListens(t)
        <5>1. task' = [task EXCEPT ![join[t].task].listeners = @ \cup {t}]
          BY <4>1 DEF JoinListens
        <5> QED  BY <2>0, <5>1 DEF TaskHandle
      <4>2. CASE ~JoinListens(t)
        BY <2>3, <4>2 DEF JoinGoesOn, JoinWatches, JoinArms, JoinWakes
      <4> QED  BY <4>1, <4>2
    <3>5. token' \in [Tokens -> CancellationState] /\ signal' \in [Threads -> BOOLEAN]
      <4>1. CASE JoinWatches(t)
        <5>0. Watch(t, join[t].tok)
          BY <4>1 DEF JoinWatches
        <5>1. token' \in [Tokens -> CancellationState]
          BY <5>0, WatchType DEF SignalTypeOK
        <5>2. IsCancelled(join[t].tok) \in BOOLEAN
          BY DEF IsCancelled, CancellationState
        <5>3. signal' \in [Threads -> BOOLEAN]
          BY <4>1, <5>2 DEF JoinWatches
        <5> QED  BY <5>1, <5>3
      <4>2. CASE ~JoinWatches(t)
        BY <2>3, <4>2 DEF JoinGoesOn, JoinListens, JoinArms, JoinWakes, ReadGeneration
      <4> QED  BY <4>1, <4>2
    <3>6. UNCHANGED <<thread, answers>>
      BY <2>3 DEF JoinGoesOn, JoinListens, JoinWatches, JoinArms, JoinWakes
    <3> QED  BY <3>2, <3>3, <3>4, <3>5, <3>6 DEF StoredOnce
  <2> QED  BY <1>7, <2>1, <2>2, <2>3 DEF JoinStep
<1>8. CASE UNCHANGED vars
  BY <1>8 DEF vars, JoinShape, StoredOnce
<1> QED  BY <1>1, <1>2, <1>3, <1>4, <1>5, <1>6, <1>7, <1>8
         DEF Next, Call, Step, Unwinds
----------------------------------------------------------------------------
(* No lost wakeup.                                                         *)

JoinWell(u) ==
  /\ join[u].pc = "watch" \/ (join[u].pc # "idle" /\ join[u].registered)
       => u \in task[join[u].task].listeners
  /\ join[u].pc # "idle" /\ join[u].registered /\ join[u].tok \in Tokens
       => u \in token[join[u].tok].waiters
  /\ join[u].pc \in {"arm", "recheck", "asleep"} => join[u].registered
  /\ join[u].pc = "asleep" /\ ~signal[u] =>
       /\ Known(u) => thread[join[u].task] = "notifying"
       /\ IsCancelled(join[u].tok) => token[join[u].tok].notifying

LEMMA WaitInvByThread == WaitInv <=> \A u \in Threads : JoinWell(u)
BY DEF WaitInv, JoinWell, JoinsRegistered, SleepersWait

(* A step of somebody else: registrations stay, and a task that is over or *)
(* a token that is cancelled by the step's doing has notified.             *)
LEMMA OtherJoin ==
  ASSUME TypeInv, NEW u \in Threads, JoinWell(u), join'[u] = join[u],
         signal[u] => signal'[u],
         \A k \in Tasks :
           /\ u \in task[k].listeners => u \in task'[k].listeners
           /\ task'[k].result # "none" /\ thread'[k] # "notifying" =>
                \/ task[k].result # "none" /\ thread[k] # "notifying"
                \/ u \in task[k].listeners => signal'[u],
         \A j \in Tokens :
           /\ u \in token[j].waiters => u \in token'[j].waiters
           /\ token'[j].cancelled /\ ~token'[j].notifying =>
                \/ token[j].cancelled /\ ~token[j].notifying
                \/ u \in token[j].waiters => signal'[u]
  PROVE  JoinWell(u)'
<1>1. CASE join[u].pc = "idle"
  BY <1>1 DEF JoinWell
<1>2. CASE join[u].pc # "idle"
  <2>1. join[u].task \in Tasks
    BY <1>2 DEF TypeInv, JoinShape
  <2> QED  BY <1>2, <2>1 DEF JoinWell, Known, IsCancelled
<1> QED  BY <1>1, <1>2

LEMMA WaitStepInv ==
  ASSUME TypeInv, WaitInv, [Next]_vars
  PROVE  WaitInv'
<1> SUFFICES ASSUME NEW u \in Threads PROVE JoinWell(u)'
  BY DEF WaitInv, JoinWell, JoinsRegistered, SleepersWait
<1>0. JoinWell(u) /\ TypeOK /\ JoinShape /\ StoredOnce
  BY WaitInvByThread DEF TypeInv
<1>1. ASSUME NEW t \in Threads, NEW k \in Tasks, Spawn(t, k) PROVE JoinWell(u)'
  <2>1. \A j \in Tasks : task[j].result # "none" => thread'[j] = thread[j]
    BY <1>0, <1>1 DEF Spawn, StoredOnce, TypeOK
  <2> QED  BY <1>0, <1>1, <2>1, OtherJoin DEF Spawn
<1>2. ASSUME NEW t \in Threads, NEW k \in Tasks, NEW form \in Forms,
             NEW tok \in Tokens \cup {NoToken}, Await(t, k, form, tok)
      PROVE  JoinWell(u)'
  <2>1. CASE u = t
    BY <1>0, <1>2, <2>1 DEF Await, JoinWell, TypeOK
  <2>2. CASE u # t
    BY <1>0, <1>2, <2>2, OtherJoin DEF Await, TypeOK
  <2> QED  BY <2>1, <2>2
<1>3. ASSUME NEW t \in Threads, NEW outcome \in Outcomes, Store(t, outcome)
      PROVE  JoinWell(u)'
  <2>1. CASE t = Main
    <3>1. \A k \in Tasks : thread'[k] = thread[k]
      BY <1>0, <1>3, <2>1, TaskAssumption DEF Store, TypeOK
    <3> QED  BY <1>0, <1>3, <2>1, <3>1, OtherJoin DEF Store
  <2>2. CASE t # Main
    <3>1. t \in Tasks
      BY <2>2, TaskAssumption
    <3>2. task' = [task EXCEPT ![t].result = outcome]
          /\ thread' = [thread EXCEPT ![t] = "notifying"]
      BY <1>3, <2>2 DEF Store
    <3>3. \A k \in Tasks :
            /\ task'[k].listeners = task[k].listeners
            /\ k # t => task'[k] = task[k] /\ thread'[k] = thread[k]
            /\ k = t => thread'[k] = "notifying"
      BY <1>0, <3>1, <3>2 DEF TypeOK, TaskHandle
    <3> QED  BY <1>0, <1>3, <3>3, OtherJoin DEF Store
  <2> QED  BY <2>1, <2>2
<1>4. ASSUME NEW k \in Tokens, Cancel(k) PROVE JoinWell(u)'
  <2>1. \A j \in Tokens :
          /\ token'[j].waiters = token[j].waiters
          /\ j # k => token'[j] = token[j]
          /\ j = k => token'[j].notifying
    BY <1>0, <1>4 DEF Cancel, RaiseFlag, TypeOK, CancellationState
  <2> QED  BY <1>0, <1>4, <2>1, OtherJoin DEF Cancel, RaiseFlag
<1>5. ASSUME NEW k \in Tokens, CancelNotifies(k) PROVE JoinWell(u)'
  <2>1. \A j \in Tokens :
          /\ token'[j].waiters = token[j].waiters
          /\ j # k => token'[j] = token[j]
    BY <1>0, <1>5 DEF CancelNotifies, NotifyWatchers, TypeOK, CancellationState
  <2>2. signal[u] \/ u \in token[k].waiters => signal'[u]
    BY <1>5 DEF CancelNotifies, NotifyWatchers, Notify
  <2> QED  BY <1>0, <1>5, <2>1, <2>2, OtherJoin DEF CancelNotifies
<1>6. ASSUME NEW k \in Tasks, StoreNotifies(k) PROVE JoinWell(u)'
  <2>1. signal[u] \/ u \in task[k].listeners => signal'[u]
    BY <1>6 DEF StoreNotifies, Notify
  <2>2. \A j \in Tasks : j # k => thread'[j] = thread[j]
    BY <1>0, <1>6 DEF StoreNotifies, TypeOK
  <2> QED  BY <1>0, <1>6, <2>1, <2>2, OtherJoin DEF StoreNotifies
<1>7. ASSUME NEW t \in Threads, JoinStep(t), u # t PROVE JoinWell(u)'
  <2>1. CASE JoinCompletes(t) \/ JoinIsCancelled(t)
    <3>1. PICK answer : Returns(t, answer)
      BY <2>1 DEF JoinCompletes, JoinIsCancelled
    <3>2. join[t].task \in Tasks
      BY <1>0, <2>1 DEF JoinCompletes, JoinIsCancelled, JoinShape
    <3>3. \A k \in Tasks :
            /\ task'[k].result = task[k].result
            /\ u \in task[k].listeners => u \in task'[k].listeners
      BY <1>0, <1>7, <3>1, <3>2 DEF Returns, TypeOK, TaskHandle
    <3>4. \A j \in Tokens :
            /\ token'[j].cancelled = token[j].cancelled
            /\ token'[j].notifying = token[j].notifying
            /\ u \in token[j].waiters => u \in token'[j].waiters
      BY <1>0, <1>7, <3>1 DEF Returns, Forget, TypeOK, CancellationState
    <3>5. join'[u] = join[u] /\ signal'[u] = signal[u]
      BY <1>0, <1>7, <3>1 DEF Returns, DropSignal, TypeOK
    <3>6. \A k \in Tasks : thread'[k] = thread[k] \/ task[k].result = "none"
      <4>1. \A k \in Tasks \ {t} : thread'[k] = thread[k]
        BY <1>0, <2>1, TaskAssumption DEF JoinCompletes, JoinIsCancelled, TypeOK
      <4>2. t \in Tasks => task[t].result = "none"
        BY <1>0, <2>1 DEF JoinCompletes, JoinIsCancelled, JoinShape, StoredOnce
      <4> QED  BY <4>1, <4>2
    <3> QED  BY <1>0, <3>3, <3>4, <3>5, <3>6, OtherJoin
  <2>2. CASE JoinGoesOn(t) \/ JoinListens(t) \/ JoinWatches(t) \/ JoinArms(t) \/ JoinWakes(t)
    <3>1. join'[u] = join[u] /\ signal'[u] = signal[u] /\ thread' = thread
      BY <1>0, <1>7, <2>2 DEF JoinGoesOn, JoinListens, JoinWatches, JoinArms, JoinWakes,
         ReadGeneration, TypeOK
    <3>2. \A k \in Tasks :
            /\ task'[k].result = task[k].result
            /\ u \in task[k].listeners => u \in task'[k].listeners
      <4>1. CASE JoinListens(t)
        BY <1>0, <4>1 DEF JoinListens, JoinShape, TypeOK, TaskHandle
      <4>2. CASE ~JoinListens(t)
        BY <2>2, <4>2 DEF JoinGoesOn, JoinWatches, JoinArms, JoinWakes
      <4> QED  BY <4>1, <4>2
    <3>3. \A j \in Tokens :
            /\ token'[j].cancelled = token[j].cancelled
            /\ token'[j].notifying = token[j].notifying
            /\ u \in token[j].waiters => u \in token'[j].waiters
      <4>1. CASE JoinWatches(t)
        BY <1>0, <4>1 DEF JoinWatches, Watch, TypeOK, CancellationState
      <4>2. CASE ~JoinWatches(t)
        BY <2>2, <4>2 DEF JoinGoesOn, JoinListens, JoinArms, JoinWakes
      <4> QED  BY <4>1, <4>2
    <3> QED  BY <1>0, <3>1, <3>2, <3>3, OtherJoin
  <2> QED  BY <1>7, <2>1, <2>2 DEF JoinStep
<1>8. ASSUME JoinStep(u) PROVE JoinWell(u)'
  <2>0. /\ join[u] \in Join /\ join[u].task \in Tasks
        /\ join \in [Threads -> Join] /\ task \in [Tasks -> TaskHandle]
        /\ token \in [Tokens -> CancellationState] /\ signal \in [Threads -> BOOLEAN]
    BY <1>0, <1>8 DEF JoinStep, JoinCompletes, JoinIsCancelled, JoinGoesOn, JoinListens,
       JoinWatches, JoinArms, JoinWakes, JoinShape, TypeOK
  <2>1. CASE JoinCompletes(u) \/ JoinIsCancelled(u)
    <3>1. join'[u] = NoJoin
      BY <2>0, <2>1 DEF JoinCompletes, JoinIsCancelled, Returns
    <3> QED  BY <3>1 DEF JoinWell, NoJoin
  <2>2. CASE JoinGoesOn(u)
    <3>1. PICK pc : /\ join'[u] = [join[u] EXCEPT !.pc = pc]
                    /\ pc = "arm" => join[u].registered
                    /\ pc = "asleep" => join[u].pc = "recheck"
                    /\ pc \in {"listen", "arm", "asleep"}
      BY <2>0, <2>2 DEF JoinGoesOn
    <3>2. /\ join'[u].pc = pc /\ join'[u].registered = join[u].registered
          /\ join'[u].task = join[u].task /\ join'[u].tok = join[u].tok
      BY <2>0, <3>1 DEF Join
    <3> QED  BY <1>0, <2>2, <3>1, <3>2 DEF JoinGoesOn, JoinWell, Known, IsCancelled
  <2>3. CASE JoinListens(u)
    <3>1. /\ join'[u].pc = "watch" /\ join'[u].registered = join[u].registered
          /\ join'[u].task = join[u].task /\ join'[u].tok = join[u].tok
      BY <2>0, <2>3 DEF JoinListens, Join
    <3>2. u \in task'[join[u].task].listeners
      BY <2>0, <2>3 DEF JoinListens, TaskHandle
    <3> QED  BY <1>0, <2>3, <3>1, <3>2 DEF JoinListens, JoinWell
  <2>4. CASE JoinWatches(u)
    <3>1. /\ join'[u].pc = "look"
          /\ join'[u].task = join[u].task /\ join'[u].tok = join[u].tok
      BY <2>0, <2>4 DEF JoinWatches, Join
    <3>2. join[u].tok \in Tokens => u \in token'[join[u].tok].waiters
      BY <2>0, <2>4 DEF JoinWatches, Watch, CancellationState
    <3> QED  BY <1>0, <2>4, <3>1, <3>2 DEF JoinWatches, JoinWell
  <2>5. CASE JoinArms(u) \/ JoinWakes(u)
    <3>1. /\ join'[u].pc \in {"recheck", "look"} /\ join'[u].registered = join[u].registered
          /\ join'[u].task = join[u].task /\ join'[u].tok = join[u].tok
      BY <2>0, <2>5 DEF JoinArms, JoinWakes, Join
    <3> QED  BY <1>0, <2>5, <3>1 DEF JoinArms, JoinWakes, JoinWell
  <2> QED  BY <1>8, <2>1, <2>2, <2>3, <2>4, <2>5 DEF JoinStep
<1>9. CASE UNCHANGED vars
  BY <1>0, <1>9 DEF vars, JoinWell, Known, IsCancelled
<1> QED  BY <1>1, <1>2, <1>3, <1>4, <1>5, <1>6, <1>7, <1>8, <1>9
         DEF Next, Call, Step, Unwinds

----------------------------------------------------------------------------
(* The answers.                                                            *)

(* Outcomes already stored do not change.                                  *)
LEMMA OutcomesStay ==
  ASSUME TypeInv, [Next]_vars, NEW k \in Tasks, task[k].result # "none"
  PROVE  task'[k].result = task[k].result
<1> USE DEF TypeInv, TypeOK
<1>1. ASSUME NEW t \in Threads, NEW outcome \in Outcomes, Store(t, outcome)
      PROVE  task'[k].result = task[k].result
  <2>1. thread[t] \in {"running", "failing"}
    BY <1>1 DEF Store, Ends, Runs
  <2>2. t # k
    BY <2>1 DEF StoredOnce
  <2> QED  BY <1>1, <2>2 DEF Store, TaskHandle
<1>2. ASSUME NEW t \in Threads, JoinStep(t) PROVE task'[k].result = task[k].result
  <2>1. join[t].task \in Tasks
    BY <1>2 DEF JoinStep, JoinCompletes, JoinIsCancelled, JoinGoesOn, JoinListens,
       JoinWatches, JoinArms, JoinWakes, JoinShape
  <2>2. \/ task' = task
        \/ \E l : task' = [task EXCEPT ![join[t].task].listeners = l]
    BY <1>2, <2>1 DEF JoinStep, JoinCompletes, JoinIsCancelled, JoinGoesOn, JoinListens,
       JoinWatches, JoinArms, JoinWakes, Returns
  <2> QED  BY <2>1, <2>2, ZenonT(30) DEF TaskHandle
<1>3. CASE ~(\E t \in Threads : JoinStep(t))
           /\ ~(\E t \in Threads, outcome \in Outcomes : Store(t, outcome))
  BY <1>3 DEF Next, Call, Step, Unwinds, Spawn, Await, StoreNotifies, Cancel,
     CancelNotifies, vars
<1> QED  BY <1>1, <1>2, <1>3
FailureInv ==
  \A t, k \in Tasks : \A failure \in Failures :
    Boundary[k] = "direct" /\ <<k, "await", failure>> \in answers[t]
      => thread[t] = "failing" \/ task[t].result = "diagnostics"

LEMMA AnswerInvParts == AnswerInv <=> JoinsAgree /\ FailureInv
BY DEF AnswerInv, FailureInv

(* A step that answers no join.                                            *)
LEMMA NoAnswer ==
  ASSUME TypeInv, AnswerInv, [Next]_vars, answers' = answers,
         \A t \in Tasks : thread[t] = "failing" =>
           thread'[t] = "failing" \/ task'[t].result = "diagnostics"
  PROVE  AnswerInv'
<1>1. JoinsAgree'
  <2> SUFFICES ASSUME NEW t \in Threads, NEW a \in answers[t], a[3] # "cancelled"
               PROVE  task'[a[1]].result = a[3]
    BY DEF JoinsAgree
  <2>1. task[a[1]].result = a[3]
    BY DEF AnswerInv, JoinsAgree
  <2>2. a[1] \in Tasks /\ a[3] \in Outcomes
    BY DEF TypeInv, TypeOK, Answers
  <2>3. a[3] # "none"
    BY <2>2 DEF Outcomes
  <2> QED  BY <2>1, <2>2, <2>3, OutcomesStay
<1>2. FailureInv'
  <2> SUFFICES ASSUME NEW t \in Tasks, NEW k \in Tasks, NEW failure \in Failures,
                      Boundary[k] = "direct", <<k, "await", failure>> \in answers[t]
               PROVE  thread'[t] = "failing" \/ task'[t].result = "diagnostics"
    BY DEF FailureInv
  <2>1. CASE thread[t] = "failing"
    BY <2>1
  <2>2. CASE task[t].result = "diagnostics"
    BY <2>2, OutcomesStay
  <2> QED  BY <2>1, <2>2, AnswerInvParts DEF FailureInv
<1> QED  BY <1>1, <1>2 DEF AnswerInv, FailureInv

LEMMA AnswerStepInv ==
  ASSUME TypeInv, AnswerInv, [Next]_vars
  PROVE  AnswerInv'
<1>0. TypeOK /\ JoinShape /\ StoredOnce
  BY DEF TypeInv
<1>1. ASSUME NEW t \in Threads, NEW answer \in Answers, Returns(t, answer),
             join[t].pc # "idle", answer # "cancelled" => answer = task[join[t].task].result,
             \A u \in Threads \ {t} : thread'[u] = thread[u],
             Raises(t, join[t].task) /\ answer # "cancelled" => thread'[t] = "failing"
      PROVE  AnswerInv'
  <2>0. join[t].task \in Tasks /\ thread[t] = "running"
    BY <1>0, <1>1 DEF JoinShape
  <2>1. \A k \in Tasks : task'[k].result = task[k].result
    BY <1>1, <2>0, ReturnTypes
  <2>2. \A u \in Threads : \A a \in answers'[u] :
          a \in answers[u] \/ (u = t /\ a = <<join[t].task, join[t].form, answer>>)
    BY <1>0, <1>1 DEF Returns, TypeOK
  <2>3. JoinsAgree'
    <3> SUFFICES ASSUME NEW u \in Threads, NEW a \in answers'[u], a[3] # "cancelled"
                 PROVE  task'[a[1]].result = a[3]
      BY DEF JoinsAgree
    <3>1. CASE a \in answers[u]
      <4>1. a[1] \in Tasks
        BY <1>0, <3>1 DEF TypeOK
      <4> QED  BY <2>1, <3>1, <4>1 DEF AnswerInv, JoinsAgree
    <3>2. CASE a = <<join[t].task, join[t].form, answer>>
      BY <1>1, <2>0, <2>1, <3>2
    <3> QED  BY <2>2, <3>1, <3>2
  <2>4. FailureInv'
    <3> SUFFICES ASSUME NEW u \in Tasks, NEW k \in Tasks, NEW failure \in Failures,
                        Boundary[k] = "direct", <<k, "await", failure>> \in answers'[u]
                 PROVE  thread'[u] = "failing" \/ task'[u].result = "diagnostics"
      BY DEF FailureInv
    <3>1. u \in Threads
      BY TaskAssumption
    <3>2. CASE <<k, "await", failure>> \in answers[u]
      <4>1. thread[u] = "failing" \/ task[u].result = "diagnostics"
        BY <3>2, AnswerInvParts DEF FailureInv
      <4>2. u # t
        BY <1>0, <2>0, <4>1 DEF StoredOnce
      <4> QED  BY <1>1, <2>1, <3>1, <4>1, <4>2
    <3>3. CASE u = t /\ <<k, "await", failure>> = <<join[t].task, join[t].form, answer>>
      <4>1. k = join[t].task /\ join[t].form = "await" /\ failure = answer
        BY <3>3
      <4>2. Raises(t, join[t].task) /\ answer # "cancelled"
        BY <1>1, <4>1 DEF Raises, Failures, Outcomes
      <4> QED  BY <1>1, <3>3, <4>2
    <3> QED  BY <2>2, <3>1, <3>2, <3>3
  <2> QED  BY <2>3, <2>4 DEF AnswerInv, FailureInv
<1>2. ASSUME NEW t \in Threads, JoinStep(t) PROVE AnswerInv'
  <2>1. CASE JoinCompletes(t)
    <3>1. join[t].task \in Tasks /\ task[join[t].task].result \in Answers
      BY <1>0, <2>1 DEF JoinCompletes, JoinShape, Known, TypeOK, TaskHandle, Answers
    <3>2. /\ \A u \in Threads \ {t} : thread'[u] = thread[u]
          /\ Raises(t, join[t].task) => thread'[t] = "failing"
      BY <1>0, <2>1 DEF JoinCompletes, TypeOK
    <3> QED  BY <1>1, <2>1, <3>1, <3>2 DEF JoinCompletes
  <2>2. CASE JoinIsCancelled(t)
    <3>1. "cancelled" \in Answers
      BY DEF Answers
    <3> QED  BY <1>1, <2>2, <3>1 DEF JoinIsCancelled
  <2>3. CASE JoinGoesOn(t) \/ JoinListens(t) \/ JoinWatches(t) \/ JoinArms(t) \/ JoinWakes(t)
    <3>1. answers' = answers /\ thread' = thread
      BY <2>3 DEF JoinGoesOn, JoinListens, JoinWatches, JoinArms, JoinWakes
    <3> QED  BY <3>1, NoAnswer
  <2> QED  BY <1>2, <2>1, <2>2, <2>3 DEF JoinStep
<1>3. ASSUME NEW t \in Threads, NEW outcome \in Outcomes, Store(t, outcome)
      PROVE  AnswerInv'
  <2>1. \A u \in Tasks : thread[u] = "failing" =>
           thread'[u] = "failing" \/ task'[u].result = "diagnostics"
    <3>1. CASE t = Main
      BY <1>0, <1>3, <3>1, TaskAssumption DEF Store, TypeOK
    <3>2. CASE t # Main
      BY <1>0, <1>3, <3>2, TaskAssumption DEF Store, Ends, Runs, TypeOK, TaskHandle
    <3> QED  BY <3>1, <3>2
  <2> QED  BY <1>3, <2>1, NoAnswer DEF Store
<1>4. ASSUME NEW t \in Threads, NEW k \in Tasks, Spawn(t, k) PROVE AnswerInv'
  <2>1. \A u \in Tasks : thread[u] = "failing" => thread'[u] = "failing"
    BY <1>0, <1>4 DEF Spawn, TypeOK
  <2> QED  BY <1>4, <2>1, NoAnswer DEF Spawn
<1>5. ASSUME NEW k \in Tasks, StoreNotifies(k) PROVE AnswerInv'
  <2>1. \A u \in Tasks : thread[u] = "failing" => thread'[u] = "failing"
    BY <1>0, <1>5 DEF StoreNotifies, TypeOK
  <2> QED  BY <1>5, <2>1, NoAnswer DEF StoreNotifies
<1>6. ASSUME UNCHANGED <<answers, thread>> PROVE AnswerInv'
  BY <1>6, NoAnswer
<1> QED  BY <1>2, <1>3, <1>4, <1>5, <1>6 DEF Next, Call, Step, Unwinds, Await, Cancel,
         CancelNotifies, vars

----------------------------------------------------------------------------
(* The theorems.                                                           *)

Inv == TypeInv /\ WaitInv /\ AnswerInv

(* Types, registrations and the answers given so far fit together after    *)
(* every step of spawns, joins, returns and cancels.                       *)
THEOREM TaskInvariant == Spec => []Inv
<1>1. Init => Inv
  BY TaskInit DEF Inv
<1>2. Inv /\ [Next]_vars => Inv'
  BY TypeStep, WaitStepInv, AnswerStepInv DEF Inv
<1> QED  BY <1>1, <1>2, PTL DEF Spec

(* Types: handles, joins and tokens keep the shape their structs declare.  *)
THEOREM TypeCorrect == Spec => []TypeOK
<1>1. Inv => TypeOK
  BY DEF Inv, TypeInv
<1> QED  BY <1>1, TaskInvariant, PTL

(* No wakeup of a join is lost, by the task or by the token, because the   *)
(* join looks again after it read the generation.                          *)
THEOREM NoLostWakeup == Spec => []SleepersWait
<1>1. Inv => SleepersWait
  BY DEF Inv, WaitInv
<1> QED  BY <1>1, TaskInvariant, PTL

(* All joins of a task are told the same outcome, the one it stored.       *)
THEOREM JoinsAlwaysAgree == Spec => []JoinsAgree
<1>1. Inv => JoinsAgree
  BY DEF Inv, AnswerInv
<1> QED  BY <1>1, TaskInvariant, PTL

(* A failed task makes every task above it that awaits it plainly fail.    *)
THEOREM FailuresAlwaysPropagate == Spec => []FailuresPropagate
<1>1. Inv => FailuresPropagate
  <2> SUFFICES ASSUME Inv, NEW t \in Tasks, NEW k \in Tasks, task[t].result = "value",
                      Boundary[k] = "direct", NEW outcome \in Outcomes,
                      <<k, "await", outcome>> \in answers[t]
               PROVE  task[k].result = "value"
    BY DEF FailuresPropagate
  <2>1. outcome = task[k].result
    BY TaskAssumption DEF Inv, AnswerInv, JoinsAgree, Outcomes
  <2>2. outcome \notin Failures
    <3>1. thread[t] # "failing"
      BY DEF Inv, TypeInv, StoredOnce
    <3> QED  BY <3>1, AnswerInvParts DEF Inv, FailureInv
  <2> QED  BY <2>1, <2>2 DEF Failures
<1> QED  BY <1>1, TaskInvariant, PTL
(* A completed task is never reported as cancelled.                        *)
THEOREM CompletionAlwaysWins == Spec => CompletionWins
<1> DEFINE OnlyBefore ==
      \A t \in Threads, k \in Tasks, form \in Forms :
        <<k, form, "cancelled">> \in answers'[t] \ answers[t] => task[k].result = "none"
<1>1. Inv /\ [Next]_vars => OnlyBefore
  <2> SUFFICES ASSUME Inv, [Next]_vars, NEW t \in Threads, NEW k \in Tasks, NEW form \in Forms,
                      <<k, form, "cancelled">> \in answers'[t] \ answers[t]
               PROVE  task[k].result = "none"
    OBVIOUS
  <2>1. PICK u \in Threads : JoinCompletes(u) \/ JoinIsCancelled(u)
    BY DEF Next, Call, Step, Unwinds, Spawn, Await, Store, StoreNotifies, Cancel,
       CancelNotifies, vars, JoinStep, JoinGoesOn, JoinListens, JoinWatches, JoinArms,
       JoinWakes
  <2>2. PICK answer : /\ Returns(u, answer)
                      /\ answer = "cancelled" => ~Known(u)
    <3>1. JoinCompletes(u) => task[join[u].task].result \in Outcomes \cup {"none"}
      BY DEF JoinCompletes, Inv, TypeInv, TypeOK, TaskHandle, JoinShape
    <3> QED  BY <2>1, <3>1 DEF JoinCompletes, JoinIsCancelled, Outcomes
  <2>3. <<k, form, "cancelled">> = <<join[u].task, join[u].form, answer>>
    BY <2>2 DEF Returns, Inv, TypeInv, TypeOK
  <2>4. k = join[u].task /\ answer = "cancelled"
    BY <2>3
  <2> QED  BY <2>2, <2>4 DEF Known
<1>2. Inv /\ [Next]_vars => [OnlyBefore]_vars
  BY <1>1
<1> QED  BY <1>2, TaskInvariant, PTL DEF Spec, CompletionWins
=============================================================================
