------------------------------- MODULE Select -------------------------------
(***************************************************************************)
(* `select` over channels (interpreter.rs), together with the sends, recvs,*)
(* closes and cancels of Channel.                                          *)
(*                                                                         *)
(* A select prepares its arms once and registers one wait signal with all  *)
(* their channels and tokens.  It then polls the arms, each under its      *)
(* channel's mutex for a moment, starting at a rotating index.  Nothing    *)
(* ready and no default: it counts itself as a waiting receiver of its     *)
(* channel(0) arms (a guard per arm), reads the signal's generation, polls *)
(* a second time WITH the guards, sleeps, drops the guards and starts over.*)
(* An arm that wins the second poll runs its body with the guards held.    *)
(*                                                                         *)
(* A send arm on channel(0) never offers and waits: it is ready when some  *)
(* other operation counts as a waiting receiver and the slot is empty, and *)
(* it succeeds by filling the slot.                                        *)
(***************************************************************************)
EXTENDS Channel

CONSTANTS
  Selects,      (* Selects[t]: the selects thread t may run, one after the *)
                (* other: their arms in order, and whether one is default  *)
  Rotations     (* a thread's arm counter is only used modulo the numbers  *)
                (* of arms; that of t wraps at Rotations[t], a multiple of *)
                (* the numbers of arms of its selects                      *)

SendArm(c, v, k) == [kind |-> "send", chan |-> c, val |-> v, tok |-> k]
RecvArm(c, k) == [kind |-> "recv", chan |-> c, val |-> NoValue, tok |-> k]

Arms ==
  {SendArm(c, v, k) : c \in Chans, v \in Values, k \in Tokens \cup {NoToken}}
    \cup {RecvArm(c, k) : c \in Chans, k \in Tokens \cup {NoToken}}

ASSUME SelectAssumption ==
  /\ Selects \in [Threads -> Seq([arms : Seq(Arms), default : BOOLEAN])]
  /\ \A t \in Threads : \A i \in DOMAIN Selects[t] : Selects[t][i].arms # <<>>
  /\ Rotations \in [Threads -> Nat \ {0}]

VARIABLES
  sel,          (* the select each thread is executing                     *)
  waiting,      (* waiting[c][t]: select_waiting_receivers of channel c    *)
  rotation,     (* rotation[t]: NEXT_SELECT_ARM_START of the thread        *)
  turn,         (* turn[t]: which of its selects the thread runs next      *)
  won           (* History: won[t]: the arm that won t's last select       *)

selVars == <<sel, waiting, rotation, turn, won>>
allVars == <<vars, selVars>>

----------------------------------------------------------------------------
(* State                                                                   *)

(* `try` is a send arm between its look at the token and the lock; `next`  *)
(* is the arm whose guard is made or dropped next.                         *)
SelectState ==
  [pc : {"idle", "poll", "try", "guard", "read", "asleep", "unguard", "body"},
   arms : Seq(Arms), default : BOOLEAN, start : Nat, offset : Nat,
   second : BOOLEAN, held : SUBSET Nat, next : Nat, over : BOOLEAN]

NoSelect ==
  [pc |-> "idle", arms |-> <<>>, default |-> FALSE, start |-> 0, offset |-> 0,
   second |-> FALSE, held |-> {}, next |-> 1, over |-> FALSE]

SelectTypeOK ==
  /\ TypeOK
  /\ sel \in [Threads -> SelectState]
  /\ waiting \in [Chans -> [Threads -> Nat]]
  /\ rotation \in [Threads -> Nat]
  /\ turn \in [Threads -> Nat]
  /\ won \in [Threads -> Nat]

SelectInit ==
  /\ Init
  /\ sel = [t \in Threads |-> NoSelect]
  /\ waiting = [c \in Chans |-> [t \in Threads |-> 0]]
  /\ rotation = [t \in Threads |-> 0]
  /\ turn = [t \in Threads |-> 1]
  /\ won = [t \in Threads |-> 0]

----------------------------------------------------------------------------
(* Entering a select                                                       *)

ArmCount(t) == Len(sel[t].arms)

(* The arm under the poll: offset steps after the start, cyclically.       *)
ArmIndex(t) == ((sel[t].start + sel[t].offset) % ArmCount(t)) + 1
Polled(t) == sel[t].arms[ArmIndex(t)]

Watched(s) == {s.arms[i].chan : i \in DOMAIN s.arms}
WatchedTokens(s) == {s.arms[i].tok : i \in DOMAIN s.arms}
Offered(s) == {s.arms[i].val : i \in DOMAIN s.arms} \ {NoValue}

(* Wrong: every select of the thread starts at the same arm.               *)
SameStart(t) == rotation[t]

(* next_select_arm_start: the thread's counter goes on at every select.    *)
NextStart(t) == (rotation[t] + 1) % Rotations[t]

(* The arms are prepared, the signal is registered with each of them, the  *)
(* start index taken from the thread's counter.  Registering takes one     *)
(* channel's mutex after the other, but what it adds to the signal before  *)
(* its generation is read is of no consequence.                            *)
EntersSelect(t) ==
  LET s == Selects[t][turn[t]] IN
  /\ turn[t] \in DOMAIN Selects[t]
  /\ sel[t].pc = "idle" /\ op[t].pc = "idle"
  /\ \A v \in Offered(s) : outcome[v] = "unsent"
  /\ sel' = [sel EXCEPT ![t] = [NoSelect EXCEPT
               !.pc = "poll", !.arms = s.arms, !.default = s.default,
               !.start = rotation[t] % Len(s.arms)]]
  /\ rotation' = [rotation EXCEPT ![t] = NextStart(t)]
  /\ turn' = [turn EXCEPT ![t] = (@ % Len(Selects[t])) + 1]
  /\ chan' = [c \in Chans |-> [chan[c] EXCEPT
               !.listeners = IF c \in Watched(s) THEN @ \cup {t} ELSE @]]
  /\ token' = [k \in Tokens |-> [token[k] EXCEPT
               !.waiters = IF k \in WatchedTokens(s) THEN @ \cup {t} ELSE @]]
  /\ outcome' = [v \in Values |-> IF v \in Offered(s) THEN "sending" ELSE outcome[v]]
  /\ UNCHANGED <<op, signal, sent, taken, sawClosed, waiting, won>>

----------------------------------------------------------------------------
(* Polling                                                                 *)

(* The arm under the poll wins: its body runs, with the guards if this is  *)
(* the second poll.  The signal is not waited for any more.  `state` is    *)
(* what the arm made of its channel; `results` what the sends reported.    *)
Wins(t, state, owners) ==
  /\ won' = [won EXCEPT ![t] = ArmIndex(t)]
  /\ sel' = [sel EXCEPT ![t] = IF sel[t].held = {} THEN NoSelect
                               ELSE [@ EXCEPT !.pc = "body"]]
  /\ chan' = [c \in Chans |-> [state[c] EXCEPT !.listeners = @ \ {t}]]
  /\ token' = [k \in Tokens |-> [token[k] EXCEPT !.waiters = @ \ {t}]]
  /\ signal' = [u \in Threads |-> u # t /\ (signal[u] \/ u \in owners)]
  /\ UNCHANGED <<op, waiting, rotation, turn>>

(* The sends of the arms that lost did not happen.                         *)
Results(t, result) ==
  outcome' = [v \in Values |->
                IF v = Polled(t).val THEN result
                ELSE IF v \in Offered(sel[t]) THEN "unsent" ELSE outcome[v]]

Polls(t, kind) ==
  /\ sel[t].pc = "poll"
  /\ sel[t].offset < ArmCount(t)
  /\ Polled(t).kind = kind

(* try_recv: the value, or closed, or cancelled, in this order.            *)
RecvArmTakes(t) ==
  LET c == Polled(t).chan IN
  /\ Polls(t, "recv") /\ ~Locked(c)
  /\ HasValue(c)
  /\ taken' = [taken EXCEPT ![c] = Append(@, NextValue(c))]
  /\ Wins(t, [chan EXCEPT ![c] = WithoutNext(c)], chan[c].listeners)
  /\ Results(t, "ok")
  /\ UNCHANGED <<sent, sawClosed>>

RecvArmFails(t) ==
  LET c == Polled(t).chan IN
  /\ Polls(t, "recv") /\ ~Locked(c)
  /\ ~HasValue(c)
  /\ chan[c].closed \/ IsCancelled(Polled(t).tok)
  /\ sawClosed' = [sawClosed EXCEPT ![c] = @ \/ chan[c].closed]
  /\ Wins(t, chan, {})
  /\ Results(t, "ok")
  /\ UNCHANGED <<sent, taken>>

Misses(t) ==
  /\ sel' = [sel EXCEPT ![t].offset = @ + 1, ![t].pc = "poll"]
  /\ UNCHANGED <<vars, waiting, rotation, turn, won>>

RecvArmMisses(t) ==
  LET c == Polled(t).chan IN
  /\ Polls(t, "recv") /\ ~Locked(c)
  /\ ~HasValue(c) /\ ~chan[c].closed /\ ~IsCancelled(Polled(t).tok)
  /\ Misses(t)

(* try_send_internal looks at the token before it takes the mutex.         *)
SendArmIsCancelled(t) ==
  /\ Polls(t, "send")
  /\ IsCancelled(Polled(t).tok)
  /\ Wins(t, chan, {})
  /\ Results(t, "cancelled")
  /\ UNCHANGED <<sent, taken, sawClosed>>

SendArmIsLive(t) ==
  /\ Polls(t, "send")
  /\ ~IsCancelled(Polled(t).tok)
  /\ sel' = [sel EXCEPT ![t].pc = "try"]
  /\ UNCHANGED <<vars, waiting, rotation, turn, won>>

(* has_waiting_receiver: a counted recv, or a guard of another select.     *)
HasWaitingReceiver(t, c) ==
  \/ chan[c].receivers > 0
  \/ \E u \in Threads \ {t} : waiting[c][u] > 0

SendArmReady(t) ==
  LET c == Polled(t).chan IN
  CanSend(c) /\ (Rendezvous(c) => HasWaitingReceiver(t, c))

Fill(c, v) ==
  IF Rendezvous(c) THEN [chan[c] EXCEPT !.slot = v]
                   ELSE [chan[c] EXCEPT !.queue = Append(@, v)]

SendArmIsClosed(t) ==
  LET c == Polled(t).chan IN
  /\ sel[t].pc = "try" /\ ~Locked(c)
  /\ chan[c].closed
  /\ Wins(t, chan, {})
  /\ Results(t, "closed")
  /\ UNCHANGED <<sent, taken, sawClosed>>

(* Wrong: the value is sent and the poll goes on.                          *)
SendArmStays(t) ==
  LET c == Polled(t).chan IN
  /\ sel[t].pc = "try" /\ ~Locked(c)
  /\ ~chan[c].closed
  /\ SendArmReady(t)
  /\ chan' = [chan EXCEPT ![c] = Fill(c, Polled(t).val)]
  /\ NotifyListeners(c)
  /\ sel' = [sel EXCEPT ![t].offset = @ + 1, ![t].pc = "poll"]
  /\ UNCHANGED <<token, op, outcome, sent, taken, sawClosed, waiting, rotation, turn, won>>

SendArmSends(t) ==
  LET c == Polled(t).chan IN
  /\ sel[t].pc = "try" /\ ~Locked(c)
  /\ ~chan[c].closed
  /\ SendArmReady(t)
  /\ Wins(t, [chan EXCEPT ![c] = Fill(c, Polled(t).val)], chan[c].listeners)
  /\ Results(t, "ok")
  /\ sent' = [sent EXCEPT ![c] = Append(@, Polled(t).val)]
  /\ UNCHANGED <<taken, sawClosed>>

SendArmMisses(t) ==
  LET c == Polled(t).chan IN
  /\ sel[t].pc = "try" /\ ~Locked(c)
  /\ ~chan[c].closed
  /\ ~SendArmReady(t)
  /\ Misses(t)

----------------------------------------------------------------------------
(* After a poll that found nothing                                         *)

PolledAll(t) == sel[t].pc = "poll" /\ sel[t].offset = ArmCount(t)

TakesDefault(t) ==
  /\ PolledAll(t) /\ ~sel[t].second
  /\ sel[t].default
  /\ sel' = [sel EXCEPT ![t] = NoSelect]
  /\ won' = [won EXCEPT ![t] = 0]
  /\ chan' = [c \in Chans |-> [chan[c] EXCEPT !.listeners = @ \ {t}]]
  /\ token' = [k \in Tokens |-> [token[k] EXCEPT !.waiters = @ \ {t}]]
  /\ outcome' = [v \in Values |-> IF v \in Offered(sel[t]) THEN "unsent" ELSE outcome[v]]
  /\ DropSignal(t)
  /\ UNCHANGED <<op, sent, taken, sawClosed, waiting, rotation, turn>>

BeginsWait(t) ==
  /\ PolledAll(t) /\ ~sel[t].second
  /\ ~sel[t].default
  /\ sel' = [sel EXCEPT ![t].pc = "guard", ![t].next = 1]
  /\ UNCHANGED <<vars, waiting, rotation, turn, won>>

(* SelectRecvWaitGuard: only a recv arm on channel(0) counts itself.       *)
Guarded(t, i) == sel[t].arms[i].kind = "recv" /\ Rendezvous(sel[t].arms[i].chan)

MakesGuard(t) ==
  LET i == sel[t].next  c == sel[t].arms[i].chan IN
  /\ sel[t].pc = "guard" /\ i <= ArmCount(t)
  /\ IF Guarded(t, i)
       THEN /\ ~Locked(c)
            /\ waiting' = [waiting EXCEPT ![c][t] = @ + 1]
            /\ sel' = [sel EXCEPT ![t].next = i + 1, ![t].held = @ \cup {i}]
            /\ NotifyListeners(c)
       ELSE /\ sel' = [sel EXCEPT ![t].next = i + 1]
            /\ UNCHANGED <<waiting, signal>>
  /\ UNCHANGED <<chan, token, op, outcome, sent, taken, sawClosed, rotation, turn, won>>

(* Wrong: the select sleeps as soon as it has read the generation.         *)
ReadsAndSleeps(t) ==
  /\ sel[t].pc = "guard" /\ sel[t].next > ArmCount(t)
  /\ ReadGeneration(t)
  /\ sel' = [sel EXCEPT ![t].pc = "asleep"]
  /\ UNCHANGED <<chan, token, op, outcome, sent, taken, sawClosed,
                 waiting, rotation, turn, won>>

(* The generation is read after the guards and BEFORE the second poll.     *)
ReadsGeneration(t) ==
  /\ sel[t].pc = "guard" /\ sel[t].next > ArmCount(t)
  /\ ReadGeneration(t)
  /\ sel' = [sel EXCEPT ![t].pc = "poll", ![t].offset = 0, ![t].second = TRUE]
  /\ UNCHANGED <<chan, token, op, outcome, sent, taken, sawClosed,
                 waiting, rotation, turn, won>>

(* The second poll found nothing either.                                   *)
FallsAsleep(t) ==
  /\ PolledAll(t) /\ sel[t].second
  /\ sel' = [sel EXCEPT ![t].pc = "asleep", ![t].start = (@ + 1) % ArmCount(t)]
  /\ UNCHANGED <<vars, waiting, rotation, turn, won>>

WakesUp(t) ==
  /\ sel[t].pc = "asleep" /\ signal[t]
  /\ sel' = [sel EXCEPT ![t].pc = "unguard"]
  /\ UNCHANGED <<vars, waiting, rotation, turn, won>>

(* Wrong: a dropped guard leaves its count behind.                         *)
DropsGuardOnly(t) ==
  /\ sel[t].pc = "unguard"
  /\ \E i \in sel[t].held :
       /\ \A j \in sel[t].held : i <= j
       /\ sel' = [sel EXCEPT ![t].held = @ \ {i}]
  /\ UNCHANGED <<vars, waiting, rotation, turn, won>>

(* The guards are dropped in the order they were made.                     *)
DropsGuard(t) ==
  /\ sel[t].pc = "unguard"
  /\ \E i \in sel[t].held :
       LET c == sel[t].arms[i].chan IN
       /\ \A j \in sel[t].held : i <= j
       /\ ~Locked(c)
       /\ waiting' = [waiting EXCEPT ![c][t] = @ - 1]
       /\ NotifyListeners(c)
       /\ sel' = [sel EXCEPT ![t].held = @ \ {i}]
  /\ UNCHANGED <<chan, token, op, outcome, sent, taken, sawClosed, rotation, turn, won>>

(* All guards dropped: the next round, or the end of the select.           *)
StartsOver(t) ==
  /\ sel[t].pc = "unguard" /\ sel[t].held = {}
  /\ sel' = [sel EXCEPT ![t] = IF sel[t].over THEN NoSelect
                               ELSE [@ EXCEPT !.pc = "poll", !.offset = 0, !.second = FALSE]]
  /\ UNCHANGED <<vars, waiting, rotation, turn, won>>

(* The body of the arm that won the second poll ends.                      *)
BodyEnds(t) ==
  /\ sel[t].pc = "body" /\ op[t].pc = "idle"
  /\ sel' = [sel EXCEPT ![t].pc = "unguard", ![t].over = TRUE]
  /\ UNCHANGED <<vars, waiting, rotation, turn, won>>

----------------------------------------------------------------------------
(* The specification                                                       *)

SelectStep(t) ==
  \/ RecvArmTakes(t) \/ RecvArmFails(t) \/ RecvArmMisses(t)
  \/ SendArmIsCancelled(t) \/ SendArmIsLive(t) \/ SendArmIsClosed(t)
  \/ SendArmSends(t) \/ SendArmMisses(t)
  \/ TakesDefault(t) \/ BeginsWait(t) \/ MakesGuard(t) \/ ReadsGeneration(t)
  \/ FallsAsleep(t) \/ WakesUp(t) \/ DropsGuard(t) \/ StartsOver(t)

(* A thread inside a select makes no other call until its body runs.       *)
MayCall(t) == sel[t].pc \in {"idle", "body"}

ChannelCall ==
  \/ \E c \in Chans : \E t \in Senders[c], v \in Values, k \in Tokens \cup {NoToken} :
        MayCall(t) /\ Send(t, c, v, k)
  \/ \E c \in Chans : \E t \in Receivers[c], k \in Tokens \cup {NoToken} :
        MayCall(t) /\ Recv(t, c, k)
  \/ \E c \in Chans : Close(c)
  \/ \E k \in Tokens : Cancel(k)

ChannelNext ==
  /\ \/ ChannelCall
     \/ \E t \in Threads : Step(t)
     \/ \E k \in Tokens : CancelNotifies(k)
  /\ UNCHANGED selVars

SelectNext ==
  \/ ChannelNext
  \/ \E t \in Threads : EntersSelect(t) \/ BodyEnds(t)
  \/ \E t \in Threads : SelectStep(t)

SelectSpec == SelectInit /\ [][SelectNext]_allVars

SelectFairness ==
  /\ \A t \in Threads : WF_allVars(Step(t) /\ UNCHANGED selVars)
  /\ \A t \in Threads : WF_allVars(SelectStep(t))
  /\ \A k \in Tokens : WF_allVars(CancelNotifies(k) /\ UNCHANGED selVars)

FairSelectSpec == SelectSpec /\ SelectFairness
----------------------------------------------------------------------------
(* Properties                                                              *)

(* Would arm i of t win if it were polled now?  A cancel is news only      *)
(* until its notifications are out.                                        *)
ArmHasWork(t, i) ==
  LET a == sel[t].arms[i] IN
  \/ chan[a.chan].closed
  \/ IsCancelled(a.tok) /\ ~token[a.tok].notifying
  \/ a.kind = "recv" /\ HasValue(a.chan)
  \/ /\ a.kind = "send" /\ CanSend(a.chan)
     /\ Rendezvous(a.chan) => HasWaitingReceiver(t, a.chan)

(* No wakeup of a select is lost, neither a channel's nor a token's nor    *)
(* the guard of another select: one that sleeps with nothing on the way to *)
(* wake it has no arm that could win (the second poll comes after the      *)
(* generation is read).                                                    *)
SleepingSelectsHaveNoWork ==
  \A t \in Threads : sel[t].pc = "asleep" /\ ~signal[t] =>
    \A i \in DOMAIN sel[t].arms : ~ArmHasWork(t, i)

(* A channel counts a select as a waiting receiver exactly while that      *)
(* select holds guards for it, one per arm, on every path out of the       *)
(* select; the code panics when the count goes below zero.                 *)
WaitersExact ==
  /\ SelectTypeOK
  /\ \A c \in Chans, t \in Threads :
       waiting[c][t] = Cardinality({i \in sel[t].held : sel[t].arms[i].chan = c})

Occurrences(c, v) ==
  Cardinality({i \in DOMAIN taken[c] : taken[c][i] = v})
    + Cardinality({i \in DOMAIN chan[c].queue : chan[c].queue[i] = v})
    + (IF chan[c].slot = v THEN 1 ELSE 0)

(* One arm of a select takes effect and no more: the value of a send arm   *)
(* that lost, or was refused, is in no channel and with no receiver, and   *)
(* the value of the one that won is in its channel or was taken, once.     *)
OneArmTakesEffect ==
  \A v \in Values :
    LET copies == {c \in Chans : Occurrences(c, v) > 0} IN
    /\ outcome[v] \in {"unsent", "closed", "cancelled"} => copies = {}
    /\ outcome[v] = "ok" => Cardinality(copies) = 1
    /\ \A c \in copies : Occurrences(c, v) = 1

Waiting == {"poll", "try", "guard", "read", "asleep", "unguard"}
Selecting(t) == sel[t].pc \in Waiting /\ ~sel[t].over

ReceivesFrom(t, c) ==
  \/ op[t].kind = "recv" /\ op[t].chan = c
  \/ /\ Selecting(t)
     /\ \E i \in DOMAIN sel[t].arms :
          sel[t].arms[i].kind = "recv" /\ sel[t].arms[i].chan = c

(* A send that reported Ok on channel(0) has a receiver: its value is      *)
(* taken, or some recv or select is there to take it                       *)
(* (spec/language-v1.md: channel(0) blocks send until a receiver takes     *)
(* the value; rfcs/0025: a send arm sees what a normal send would).        *)
OkHasReceiver ==
  \A c \in Chans : chan[c].slot # NoValue /\ outcome[chan[c].slot] = "ok" =>
    \E t \in Threads : ReceivesFrom(t, c)

(* A closed channel and a cancelled token end every select that has them   *)
(* in an arm, and a value that a select or a recv could take does not wait *)
(* for ever.                                                               *)
SelectsMoveOn ==
  \A t \in Threads :
    /\ []<>~(/\ Selecting(t)
             /\ \E i \in DOMAIN sel[t].arms :
                  chan[sel[t].arms[i].chan].closed \/ IsCancelled(sel[t].arms[i].tok))
    /\ \A c \in Chans : []<>~(HasValue(c) /\ ReceivesFrom(t, c))

(* Selects that can only wait for each other come to rest.                 *)
BlockedSelectsRest ==
  <>[](\A t \in Threads : Selecting(t))
    => <>[](\A t \in Threads : sel[t].pc = "asleep")

(* Thread t is at, or has just finished, its i-th select.                  *)
RanLast(t, i) == turn[t] = (i % Len(Selects[t])) + 1

(* Every arm of the i-th select of t wins again and again as long as it is *)
(* always ready, as all arms are once the channels are closed.             *)
EveryArmWinsIn(t, i) ==
  \A j \in DOMAIN Selects[t][i].arms :
    (/\ <>[](\A c \in Chans : chan[c].closed)
     /\ []<>(RanLast(t, i) /\ sel[t].pc = "poll"))
      => []<>(RanLast(t, i) /\ sel[t].pc = "idle" /\ won[t] = j)

(* No ready arm of a select that is alone in its thread's loop is passed   *)
(* over for ever, wherever it stands in the source: the next round starts  *)
(* at the next arm, also after rounds that slept.                          *)
SingleSelectsRotate ==
  \A t \in Threads : Len(Selects[t]) = 1 => EveryArmWinsIn(t, 1)

(* The same for every select of every loop                                 *)
(* (docs/site/content/docs/en/concurrency.mdx: the rotation is there so    *)
(* that the first source arm does not always win).                         *)
EveryArmWins ==
  \A t \in Threads : \A i \in DOMAIN Selects[t] : EveryArmWinsIn(t, i)
=============================================================================
