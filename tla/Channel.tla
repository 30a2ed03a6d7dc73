------------------------------ MODULE Channel ------------------------------
(***************************************************************************)
(* The bootstrap channels of gof and the cancellation tokens that blocked  *)
(* operations watch (compiler/gof-compiler/src/interpreter.rs).            *)
(*                                                                         *)
(* A channel is a ChannelState behind one mutex: a buffer, a rendezvous    *)
(* slot, a closed flag, a count of announced receivers and the wait        *)
(* signals of the operations that registered with it.  `send` and `recv`   *)
(* are loops: lock, look at the state, and either finish, change the       *)
(* state and look again, register a wait signal and look again, or read    *)
(* the signal's generation, unlock and sleep until the generation moves.   *)
(*                                                                         *)
(* A cancellation token is an atomic flag and, behind a mutex of its own,  *)
(* the signals to notify.  `cancel` sets the flag WITHOUT the channel's    *)
(* mutex, so it can fall between any two steps of a send or recv that      *)
(* holds that mutex; the two steps a blocking operation takes under the    *)
(* mutex (look; then register or read the generation) are therefore two    *)
(* actions here, and the channel is Locked in between.                     *)
(***************************************************************************)
EXTENDS Cancellation, Sequences, FiniteSets

CONSTANTS
  Chans,        (* the channels the program created                        *)
  Senders,      (* Senders[c]: the threads the program lets send on c      *)
  Receivers,    (* Receivers[c]: the threads that may call recv            *)
  Values,       (* the values that are sent; each is sent at most once     *)
  Capacity,     (* Capacity[c]: argument of channel(n), or Unbounded       *)
  Unbounded, NoValue, NoChan

ASSUME ChannelAssumption ==
  /\ Senders \in [Chans -> SUBSET Threads]
  /\ Receivers \in [Chans -> SUBSET Threads]
  /\ IsFiniteSet(Threads)
  /\ IsFiniteSet(Values)
  /\ Capacity \in [Chans -> Nat \cup {Unbounded}]
  /\ Unbounded \notin Nat
  /\ NoValue \notin Values
  /\ NoChan \notin Chans
  /\ NoToken \notin Tokens

VARIABLES
  chan,         (* ChannelState of each channel                            *)
  op,           (* the send or recv each thread is executing               *)
  (* History: what the program has observed so far.                        *)
  outcome,      (* outcome[v]: what the send of v reported                 *)
  sent,         (* sent[c]: values whose send reported Ok, in order        *)
  taken,        (* taken[c]: values in the order receivers took them       *)
  sawClosed     (* sawClosed[c]: some recv has reported ChannelClosed      *)

vars == <<chan, token, op, signal, outcome, sent, taken, sawClosed>>

----------------------------------------------------------------------------
(* State                                                                   *)

ChannelState ==
  [queue : Seq(Values), slot : Values \cup {NoValue}, closed : BOOLEAN,
   receivers : Nat, listeners : SUBSET Threads]

EmptyChannel ==
  [queue |-> <<>>, slot |-> NoValue, closed |-> FALSE,
   receivers |-> 0, listeners |-> {}]

(* `held` is the local rendezvous_enqueued of a send and waiting_registered *)
(* of a recv.  The wait signal itself lives as long as the operation: a    *)
(* thread is in `listeners` exactly while its signal can be upgraded.      *)
Operation ==
  [kind : {"none", "send", "recv"},
   pc : {"idle", "look", "register", "arm", "asleep"},
   chan : Chans \cup {NoChan}, val : Values \cup {NoValue},
   tok : Tokens \cup {NoToken}, held : BOOLEAN]

NoOperation ==
  [kind |-> "none", pc |-> "idle", chan |-> NoChan, val |-> NoValue,
   tok |-> NoToken, held |-> FALSE]

Outcomes == {"unsent", "sending", "ok", "closed", "cancelled"}

TypeOK ==
  /\ chan \in [Chans -> ChannelState]
  /\ token \in [Tokens -> CancellationState]
  /\ op \in [Threads -> Operation]
  /\ signal \in [Threads -> BOOLEAN]
  /\ outcome \in [Values -> Outcomes]
  /\ sent \in [Chans -> Seq(Values)]
  /\ taken \in [Chans -> Seq(Values)]
  /\ sawClosed \in [Chans -> BOOLEAN]

Init ==
  /\ chan = [c \in Chans |-> EmptyChannel]
  /\ token = [k \in Tokens |-> FreshToken]
  /\ op = [t \in Threads |-> NoOperation]
  /\ signal = [t \in Threads |-> FALSE]
  /\ outcome = [v \in Values |-> "unsent"]
  /\ sent = [c \in Chans |-> <<>>]
  /\ taken = [c \in Chans |-> <<>>]
  /\ sawClosed = [c \in Chans |-> FALSE]

----------------------------------------------------------------------------
(* Helpers                                                                 *)

Rendezvous(c) == Capacity[c] = 0

CanSend(c) ==
  \/ Capacity[c] = Unbounded
  \/ Rendezvous(c) /\ chan[c].slot = NoValue
  \/ Capacity[c] \in Nat \ {0} /\ Len(chan[c].queue) < Capacity[c]

(* Wrong: the generation is read after the mutex is released.              *)
LockHoldersButArming(c) == {t \in Threads : op[t].chan = c /\ op[t].pc = "register"}

(* The mutex of c is held by an operation that looked and found nothing.   *)
LockHolders(c) == {t \in Threads : op[t].chan = c /\ op[t].pc \in {"register", "arm"}}
Locked(c) == LockHolders(c) # {}

(* t runs its loop: it has, or has been given, the mutex of its channel.   *)
Looks(t, kind) ==
  /\ op[t].kind = kind
  /\ op[t].pc = "look"
  /\ ~Locked(op[t].chan)

(* notify_waiters_locked: every live signal of the channel moves on.       *)
NotifyListeners(c) == Notify(chan[c].listeners)

(* The same by an operation that returns and drops its own signal.         *)
NotifyAndDrop(c, t) ==
  signal' = [u \in Threads |-> u # t /\ (signal[u] \/ u \in chan[c].listeners)]

(* The operation of t returns; its signal dies, so the weak references to  *)
(* it in the channel (see the callers) and in its token are dead too.      *)
Leave(t) ==
  /\ op' = [op EXCEPT ![t] = NoOperation]
  /\ Forget(t, op[t].tok)

SendReports(t, result) == outcome' = [outcome EXCEPT ![op[t].val] = result]

----------------------------------------------------------------------------
(* send                                                                    *)

(* The program calls send(c, v) or send(c, v, k).  A token that is already *)
(* cancelled refuses the send before the channel is looked at.             *)
Send(t, c, v, k) ==
  /\ op[t].pc = "idle"
  /\ outcome[v] = "unsent"
  /\ IF IsCancelled(k)
       THEN /\ outcome' = [outcome EXCEPT ![v] = "cancelled"]
            /\ UNCHANGED op
       ELSE /\ outcome' = [outcome EXCEPT ![v] = "sending"]
            /\ op' = [op EXCEPT ![t] = [kind |-> "send", pc |-> "look", chan |-> c,
                                        val |-> v, tok |-> k, held |-> FALSE]]
  /\ UNCHANGED <<chan, token, signal, sent, taken, sawClosed>>

(* The slot is empty again: the offered value is assumed to be taken.      *)
SendHandedOff(t) ==
  LET c == op[t].chan IN
  /\ Looks(t, "send")
  /\ op[t].held /\ chan[c].slot = NoValue
  /\ chan' = [chan EXCEPT ![c].listeners = @ \ {t}]
  /\ DropSignal(t)
  /\ sent' = [sent EXCEPT ![c] = Append(@, op[t].val)]
  /\ SendReports(t, "ok")
  /\ Leave(t)
  /\ UNCHANGED <<taken, sawClosed>>

(* Wrong: close and cancel are looked at before the hand-over.             *)
SendGivesUpFirst(t) ==
  LET c == op[t].chan IN
  /\ Looks(t, "send")
  /\ chan[c].closed \/ IsCancelled(op[t].tok)
  /\ SendReports(t, IF chan[c].closed THEN "closed" ELSE "cancelled")
  /\ chan' = [chan EXCEPT ![c].slot = IF op[t].held THEN NoValue ELSE @,
                          ![c].listeners = @ \ {t}]
  /\ NotifyAndDrop(c, t)
  /\ Leave(t)
  /\ UNCHANGED <<sent, taken, sawClosed>>

(* Wrong: the offered value stays in the slot of a send that gave up.      *)
SendLeavesOffer(t) ==
  LET c == op[t].chan IN
  /\ Looks(t, "send")
  /\ ~(op[t].held /\ chan[c].slot = NoValue)
  /\ chan[c].closed \/ IsCancelled(op[t].tok)
  /\ SendReports(t, IF chan[c].closed THEN "closed" ELSE "cancelled")
  /\ chan' = [chan EXCEPT ![c].listeners = @ \ {t}]
  /\ DropSignal(t)
  /\ Leave(t)
  /\ UNCHANGED <<sent, taken, sawClosed>>

(* The channel is closed, or else the token is cancelled: the send gives   *)
(* up, and one that had offered a value empties the slot.                  *)
SendGivesUp(t) ==
  LET c == op[t].chan IN
  /\ Looks(t, "send")
  /\ ~(op[t].held /\ chan[c].slot = NoValue)
  /\ chan[c].closed \/ IsCancelled(op[t].tok)
  /\ SendReports(t, IF chan[c].closed THEN "closed" ELSE "cancelled")
  /\ IF op[t].held
       THEN /\ chan' = [chan EXCEPT ![c].slot = NoValue, ![c].listeners = @ \ {t}]
            /\ NotifyAndDrop(c, t)
       ELSE /\ chan' = [chan EXCEPT ![c].listeners = @ \ {t}]
            /\ DropSignal(t)
  /\ Leave(t)
  /\ UNCHANGED <<sent, taken, sawClosed>>

(* Wrong: a loop that already runs does not see that the channel closed.   *)
SendIgnoresClose(t) ==
  LET c == op[t].chan IN
  /\ Looks(t, "send")
  /\ ~(op[t].held /\ chan[c].slot = NoValue)
  /\ ~IsCancelled(op[t].tok)

(* Nothing to report yet: the channel is open and the token is live.       *)
SendContinues(t) ==
  LET c == op[t].chan IN
  /\ Looks(t, "send")
  /\ ~(op[t].held /\ chan[c].slot = NoValue)
  /\ ~chan[c].closed
  /\ ~IsCancelled(op[t].tok)

(* channel(0): the value goes into the empty slot and the loop looks again.*)
SendOffers(t) ==
  LET c == op[t].chan IN
  /\ SendContinues(t)
  /\ Rendezvous(c) /\ ~op[t].held /\ CanSend(c)
  /\ chan' = [chan EXCEPT ![c].slot = op[t].val]
  /\ op' = [op EXCEPT ![t].held = TRUE]
  /\ NotifyListeners(c)
  /\ UNCHANGED <<token, outcome, sent, taken, sawClosed>>

(* channel() and channel(n): the value is buffered and the send succeeds.  *)
SendBuffers(t) ==
  LET c == op[t].chan IN
  /\ SendContinues(t)
  /\ ~Rendezvous(c) /\ CanSend(c)
  /\ chan' = [chan EXCEPT ![c].queue = Append(@, op[t].val), ![c].listeners = @ \ {t}]
  /\ sent' = [sent EXCEPT ![c] = Append(@, op[t].val)]
  /\ NotifyAndDrop(c, t)
  /\ SendReports(t, "ok")
  /\ Leave(t)
  /\ UNCHANGED <<taken, sawClosed>>

(* An operation that cannot proceed keeps the mutex and goes on to         *)
(* register its signal, the first time, or to read its generation.         *)
PrepareToWait(t) ==
  /\ op' = [op EXCEPT ![t].pc = IF t \in chan[op[t].chan].listeners
                                  THEN "arm" ELSE "register"]
  /\ UNCHANGED <<chan, token, signal, outcome, sent, taken, sawClosed>>

SendBlocks(t) ==
  LET c == op[t].chan IN
  /\ SendContinues(t)
  /\ ~CanSend(c) \/ (Rendezvous(c) /\ op[t].held)
  /\ PrepareToWait(t)

----------------------------------------------------------------------------
(* recv                                                                    *)

(* The program calls recv(c) or recv(c, k).                                *)
Recv(t, c, k) ==
  /\ op[t].pc = "idle"
  /\ op' = [op EXCEPT ![t] = [kind |-> "recv", pc |-> "look", chan |-> c,
                              val |-> NoValue, tok |-> k, held |-> FALSE]]
  /\ UNCHANGED <<chan, token, signal, outcome, sent, taken, sawClosed>>

HasValue(c) == chan[c].queue # <<>> \/ chan[c].slot # NoValue

(* What a receiver finds: the buffer first, then the slot.                 *)
NextValue(c) == IF chan[c].queue # <<>> THEN Head(chan[c].queue) ELSE chan[c].slot

(* The channel once that value is gone.                                    *)
WithoutNext(c) ==
  IF chan[c].queue # <<>> THEN [chan[c] EXCEPT !.queue = Tail(@)]
                          ELSE [chan[c] EXCEPT !.slot = NoValue]

(* Wrong: no receiver takes itself off the count.                          *)
ReceiversAsBefore(t) == chan[op[t].chan].receivers

(* An announced receiver takes itself off the count when it returns.       *)
ReceiversWithout(t) ==
  LET n == chan[op[t].chan].receivers IN IF op[t].held THEN n - 1 ELSE n

RecvTakes(t) ==
  LET c == op[t].chan IN
  /\ Looks(t, "recv")
  /\ HasValue(c)
  /\ taken' = [taken EXCEPT ![c] = Append(@, NextValue(c))]
  /\ chan' = [chan EXCEPT ![c] = [WithoutNext(c) EXCEPT
                                    !.receivers = ReceiversWithout(t),
                                    !.listeners = @ \ {t}]]
  /\ NotifyAndDrop(c, t)
  /\ Leave(t)
  /\ UNCHANGED <<outcome, sent, sawClosed>>

(* Closed and drained, or else cancelled: the recv gives up.  Only one     *)
(* that had announced itself changes the state and notifies.               *)
RecvGivesUp(t) ==
  LET c == op[t].chan IN
  /\ Looks(t, "recv")
  /\ ~HasValue(c)
  /\ chan[c].closed \/ IsCancelled(op[t].tok)
  /\ sawClosed' = [sawClosed EXCEPT ![c] = @ \/ chan[c].closed]
  /\ chan' = [chan EXCEPT ![c].receivers = ReceiversWithout(t),
                          ![c].listeners = @ \ {t}]
  /\ IF op[t].held THEN NotifyAndDrop(c, t) ELSE DropSignal(t)
  /\ Leave(t)
  /\ UNCHANGED <<outcome, sent, taken>>

RecvContinues(t) ==
  LET c == op[t].chan IN
  /\ Looks(t, "recv")
  /\ ~HasValue(c)
  /\ ~chan[c].closed
  /\ ~IsCancelled(op[t].tok)

(* channel(0): the receiver counts itself, once, and looks again.          *)
RecvAnnounces(t) ==
  LET c == op[t].chan IN
  /\ RecvContinues(t)
  /\ Rendezvous(c) /\ ~op[t].held
  /\ chan' = [chan EXCEPT ![c].receivers = @ + 1]
  /\ op' = [op EXCEPT ![t].held = TRUE]
  /\ NotifyListeners(c)
  /\ UNCHANGED <<token, outcome, sent, taken, sawClosed>>

RecvBlocks(t) ==
  /\ RecvContinues(t)
  /\ ~Rendezvous(op[t].chan) \/ op[t].held
  /\ PrepareToWait(t)

----------------------------------------------------------------------------
(* Waiting, common to send and recv                                        *)

(* A new signal, generation 0, is registered with the channel and with the *)
(* token; a token that is cancelled by then notifies it at once.           *)
Register(t) ==
  LET c == op[t].chan  k == op[t].tok IN
  /\ op[t].pc = "register"
  /\ chan' = [chan EXCEPT ![c].listeners = @ \cup {t}]
  /\ Watch(t, k)
  /\ signal' = [signal EXCEPT ![t] = IsCancelled(k)]
  /\ op' = [op EXCEPT ![t].pc = "look"]
  /\ UNCHANGED <<outcome, sent, taken, sawClosed>>

(* The generation is read AFTER the look, the mutex is released, and the   *)
(* thread sleeps until the generation differs from the one it read.        *)
Arm(t) ==
  /\ op[t].pc = "arm"
  /\ ReadGeneration(t)
  /\ op' = [op EXCEPT ![t].pc = "asleep"]
  /\ UNCHANGED <<chan, token, outcome, sent, taken, sawClosed>>

(* wait_for_change returns.                                                *)
Wake(t) ==
  /\ op[t].pc = "asleep"
  /\ signal[t]
  /\ op' = [op EXCEPT ![t].pc = "look"]
  /\ UNCHANGED <<chan, token, signal, outcome, sent, taken, sawClosed>>

----------------------------------------------------------------------------
(* close and cancel                                                        *)

(* Wrong: close wakes nobody.                                              *)
CloseSilently(c) ==
  /\ ~Locked(c)
  /\ chan' = [chan EXCEPT ![c].closed = TRUE]
  /\ UNCHANGED <<token, op, signal, outcome, sent, taken, sawClosed>>

Close(c) ==
  /\ ~Locked(c)
  /\ chan' = [chan EXCEPT ![c].closed = TRUE]
  /\ NotifyListeners(c)
  /\ UNCHANGED <<token, op, outcome, sent, taken, sawClosed>>

(* Neither half of a cancel takes the mutex of a channel.                  *)
Cancel(k) ==
  /\ RaiseFlag(k)
  /\ UNCHANGED <<chan, op, outcome, sent, taken, sawClosed>>

CancelNotifies(k) ==
  /\ NotifyWatchers(k)
  /\ UNCHANGED <<chan, op, outcome, sent, taken, sawClosed>>

----------------------------------------------------------------------------
(* The specification                                                       *)

SendStep(t) ==
  \/ SendHandedOff(t) \/ SendGivesUp(t) \/ SendOffers(t)
  \/ SendBuffers(t) \/ SendBlocks(t)

RecvStep(t) ==
  RecvTakes(t) \/ RecvGivesUp(t) \/ RecvAnnounces(t) \/ RecvBlocks(t)

WaitStep(t) == Register(t) \/ Arm(t) \/ Wake(t)

(* A thread inside an operation runs it.                                   *)
Step(t) == SendStep(t) \/ RecvStep(t) \/ WaitStep(t)

(* The program: which operations it starts, and when, is its own affair.   *)
Call ==
  \/ \E c \in Chans : \E t \in Senders[c], v \in Values, k \in Tokens \cup {NoToken} :
        Send(t, c, v, k)
  \/ \E c \in Chans : \E t \in Receivers[c], k \in Tokens \cup {NoToken} : Recv(t, c, k)
  \/ \E c \in Chans : Close(c)
  \/ \E k \in Tokens : Cancel(k)

Next ==
  \/ Call
  \/ \E t \in Threads : Step(t)
  \/ \E k \in Tokens : CancelNotifies(k)

Spec == Init /\ [][Next]_vars

(* The operating system runs every thread that can run, and a cancel that  *)
(* began finishes.  Nothing obliges the program to make a call.            *)
Fairness ==
  /\ \A t \in Threads : WF_vars(Step(t))
  /\ \A k \in Tokens : WF_vars(CancelNotifies(k))

FairSpec == Spec /\ Fairness
----------------------------------------------------------------------------
(* Properties                                                              *)

RangeOf(seq) == {seq[i] : i \in DOMAIN seq}

Sending(c) == {t \in Threads : op[t].kind = "send" /\ op[t].chan = c}
Receiving(c) == {t \in Threads : op[t].kind = "recv" /\ op[t].chan = c}
Offering(c) == {t \in Sending(c) : op[t].held}

(* What the operation of t would find if it looked at its channel now.     *)
HasWork(t) ==
  LET c == op[t].chan IN
  \/ chan[c].closed
  \/ op[t].kind = "send" /\ ~op[t].held /\ CanSend(c)
  \/ op[t].kind = "send" /\ op[t].held /\ chan[c].slot = NoValue
  \/ op[t].kind = "recv" /\ HasValue(c)

(* No wakeup of a channel is lost: a thread that sleeps in send or recv    *)
(* with nothing on the way to wake it finds no work on its channel, no     *)
(* matter how the other threads' looks, registrations and notifications    *)
(* fell between its own look and its wait_for_change.                      *)
SleepersHaveNoWork ==
  \A t \in Threads : op[t].pc = "asleep" /\ ~signal[t] => ~HasWork(t)

(* blocking_receivers of a rendezvous channel counts exactly the receivers *)
(* that announced themselves and have not returned; select's sends rely on *)
(* it, and an unbalanced return would leave a receiver that is not there.  *)
ReceiverCountExact ==
  \A c \in Chans :
    chan[c].receivers = Cardinality({t \in Receiving(c) : op[t].held})

(* The buffer of channel() and channel(n) loses nothing, duplicates        *)
(* nothing and keeps the order over every interleaving of push_back and    *)
(* pop_front, close and cancel, and never exceeds the capacity.            *)
BufferKeepsOrder(c) ==
  /\ sent[c] = taken[c] \o chan[c].queue
  /\ Capacity[c] # Unbounded => Len(chan[c].queue) <= Capacity[c]

(* channel(0): every value taken or in the slot belongs to one send that   *)
(* reported Ok or is still offering, and every such send to one value: no  *)
(* offer is made twice or given up after a receiver took it with nobody    *)
(* else to report it, and there are never more Ok reports than takes.      *)
HandOffsBalance(c) ==
  /\ chan[c].queue = <<>>
  /\ Len(sent[c]) + Cardinality(Offering(c))
       = Len(taken[c]) + (IF chan[c].slot = NoValue THEN 0 ELSE 1)

(* Channels of either kind keep account of their values.                   *)
ValuesAreConserved ==
  \A c \in Chans : IF Rendezvous(c) THEN HandOffsBalance(c) ELSE BufferKeepsOrder(c)

(* What the sends of c reported is true of their values: Ok means that a   *)
(* receiver took the value or, on a channel with a buffer, that it is in   *)
(* the buffer; ChannelClosed or Cancelled that neither happened.           *)
ReportsAreTrueOn(c) ==
  LET delivered == RangeOf(taken[c]) \cup RangeOf(chan[c].queue) IN
  /\ RangeOf(sent[c]) \subseteq delivered
  /\ \A v \in delivered : outcome[v] \notin {"closed", "cancelled"}

(* Every send learns the fate of its own value, whatever close, cancel and *)
(* receivers do between its looks, on every channel with a buffer and on a *)
(* channel(0) that one thread sends on.                                    *)
ReportsAreTrue ==
  \A c \in Chans :
    ~Rendezvous(c) \/ Cardinality(Senders[c]) <= 1 => ReportsAreTrueOn(c)

(* The same for every channel (spec/language-v1.md: channel(0) blocks send *)
(* until a receiver takes the value).                                      *)
AllReportsAreTrue == \A c \in Chans : ReportsAreTrueOn(c)

(* Once one receiver has been told the channel is closed no receiver gets  *)
(* a value from it any more, whatever sends were under way at the close.   *)
ClosedIsFinal ==
  [][\A c \in Chans : sawClosed[c] => taken'[c] = taken[c]]_vars

(* The line of a channel: its buffer, or the value in its slot.            *)
Line(c) == IF chan[c].slot # NoValue THEN <<chan[c].slot>> ELSE chan[c].queue

Promise == INSTANCE ChannelPromise WITH
  line <- [c \in Chans |-> Line(c)],
  closed <- [c \in Chans |-> chan[c].closed]

(* Under all its locking, waiting and waking a channel is what a program   *)
(* may take it for: a first-in first-out line that never exceeds its       *)
(* capacity, that nothing joins after the close, and whose close is        *)
(* reported only when it is empty.                                         *)
PromiseKept == Promise!Spec

(* Nobody is left behind: no thread stays in an operation on a channel     *)
(* that was closed before or during it, and a value and a receiver, or a   *)
(* free place and a sender, do not stay apart for ever on one channel, for *)
(* someone is woken and moves.                                             *)
ChannelsMakeProgress ==
  /\ \A t \in Threads : []<>~(\E c \in Chans : op[t].chan = c /\ chan[c].closed)
  /\ \A c \in Chans : /\ []<>~(HasValue(c) /\ Receiving(c) # {})
                      /\ []<>~(CanSend(c) /\ Sending(c) # Offering(c))

(* A token that is cancelled releases every operation that watches it      *)
(* (spec/language-v1.md: blocked send and recv wake on direct token        *)
(* notification).                                                          *)
CancelReleasesAll ==
  \A t \in Threads : []<>~(\E k \in Tokens : op[t].tok = k /\ token[k].cancelled)
============================================================================
