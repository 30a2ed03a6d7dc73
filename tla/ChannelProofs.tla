--------------------------- MODULE ChannelProofs ---------------------------
(* Proofs that the channels of Channel lose no wakeup, keep the promise of *)
(* ChannelPromise, keep account of their values and report the truth, for  *)
(* any number of threads, channels, tokens and values and any capacities.  *)
EXTENDS Channel, FiniteSetTheorems, SequenceTheorems, TLAPS

----------------------------------------------------------------------------
(***************************************************************************)
(* No wakeup is lost.                                                      *)
(***************************************************************************)

(* The operation record is consistent: what a send or a recv is about.     *)
OperationShape ==
  \A t \in Threads :
    /\ op[t].kind = "none" <=> op[t].pc = "idle"
    /\ op[t].kind # "none" => op[t].chan \in Chans
    /\ op[t].kind = "send" => op[t].val \in Values

TypeInv == TypeOK /\ OperationShape /\ ReceiverCountExact

(* A thread that is about to sleep, or sleeps, is registered.              *)
WaitersRegistered ==
  \A t \in Threads :
    op[t].pc \in {"arm", "asleep"} => t \in chan[op[t].chan].listeners

(* Between its look and the read of the generation a thread has the mutex, *)
(* so what it saw is still so.                                             *)
ArmedHaveNoWork == \A t \in Threads : op[t].pc = "arm" => ~HasWork(t)

WaitInv == WaitersRegistered /\ ArmedHaveNoWork /\ SleepersHaveNoWork

----------------------------------------------------------------------------
Announced(c) == {t \in Receiving(c) : op[t].held}

LEMMA AnnouncedFinite ==
  ASSUME NEW c \in Chans
  PROVE  IsFiniteSet(Announced(c)) /\ Cardinality(Announced(c)) \in Nat
<1>1. Announced(c) \subseteq Threads /\ IsFiniteSet(Threads)
  BY ChannelAssumption DEF Announced, Receiving
<1> QED  BY <1>1, FS_Subset, FS_CardinalityType

LEMMA TypeInit == Init => TypeInv
<1> SUFFICES ASSUME Init PROVE TypeInv
  OBVIOUS
<1>1. TypeOK
  BY ChannelAssumption DEF Init, TypeOK, EmptyChannel, ChannelState, FreshToken,
     CancellationState, NoOperation, Operation, Outcomes
<1>2. OperationShape
  BY DEF Init, OperationShape, NoOperation
<1>3. ReceiverCountExact
  <2> SUFFICES ASSUME NEW c \in Chans
               PROVE  chan[c].receivers = Cardinality({t \in Receiving(c) : op[t].held})
    BY DEF ReceiverCountExact
  <2>1. {t \in Receiving(c) : op[t].held} = {}
    BY DEF Init, Receiving, NoOperation
  <2>2. chan[c].receivers = 0
    BY DEF Init, EmptyChannel
  <2> QED  BY <2>1, <2>2, FS_EmptySet
<1> QED  BY <1>1, <1>2, <1>3 DEF TypeInv

(* Any call of the program keeps the types.                                *)
LEMMA TypeCall ==
  ASSUME TypeInv, Call
  PROVE  TypeOK' /\ OperationShape'
<1> USE DEF TypeInv, TypeOK, OperationShape
<1>1. ASSUME NEW c \in Chans, NEW t \in Senders[c], NEW v \in Values,
             NEW k \in Tokens \cup {NoToken}, Send(t, c, v, k)
      PROVE  TypeOK' /\ OperationShape'
  <2>1. t \in Threads /\ op[t].pc = "idle" /\ k \in Tokens \cup {NoToken}
    BY <1>1, ChannelAssumption DEF Send
  <2>2. outcome' \in [Values -> Outcomes]
    BY <1>1 DEF Send, Outcomes
  <2>3. CASE op' = op
    BY <1>1, <2>2, <2>3 DEF Send
  <2>4. CASE op' = [op EXCEPT ![t] = [kind |-> "send", pc |-> "look", chan |-> c,
                                      val |-> v, tok |-> k, held |-> FALSE]]
    <3>1. op' \in [Threads -> Operation]
      BY <2>1, <2>4 DEF Operation
    <3>2. OperationShape'
      BY <2>1, <2>4
    <3> QED  BY <1>1, <2>2, <3>1, <3>2 DEF Send
  <2> QED  BY <1>1, <2>3, <2>4 DEF Send
<1>2. ASSUME NEW c \in Chans, NEW t \in Receivers[c],
             NEW k \in Tokens \cup {NoToken}, Recv(t, c, k)
      PROVE  TypeOK' /\ OperationShape'
  BY <1>2, ChannelAssumption DEF Recv, Operation
<1>3. ASSUME NEW c \in Chans, Close(c)
      PROVE  TypeOK' /\ OperationShape'
  BY <1>3 DEF Close, NotifyListeners, Notify, ChannelState
<1>4. ASSUME NEW k \in Tokens, Cancel(k)
      PROVE  TypeOK' /\ OperationShape'
  BY <1>4 DEF Cancel, RaiseFlag, CancellationState
<1> QED  BY <1>1, <1>2, <1>3, <1>4 DEF Call

(* The pieces of a step that keep their types.                              *)
LEMMA LeaveTypes ==
  ASSUME TypeInv, NEW t \in Threads, Leave(t)
  PROVE  /\ op' \in [Threads -> Operation]
         /\ token' \in [Tokens -> CancellationState]
         /\ OperationShape'
<1> USE DEF TypeInv, TypeOK
<1>1. NoOperation \in Operation
  BY DEF NoOperation, Operation
<1>2. op' \in [Threads -> Operation]
  BY <1>1 DEF Leave, Forget
<1>3. token' \in [Tokens -> CancellationState]
  BY DEF Leave, Forget, CancellationState
<1>4. OperationShape'
  BY DEF Leave, Forget, OperationShape, NoOperation
<1> QED  BY <1>2, <1>3, <1>4

LEMMA SignalTypes ==
  ASSUME TypeInv, NEW t \in Threads, NEW c \in Chans,
         NotifyListeners(c) \/ NotifyAndDrop(c, t) \/ DropSignal(t)
  PROVE  signal' \in [Threads -> BOOLEAN]
BY DEF TypeInv, TypeOK, NotifyListeners, Notify, NotifyAndDrop, DropSignal

LEMMA ChannelFields ==
  ASSUME TypeInv, NEW c \in Chans
  PROVE  /\ chan[c] \in ChannelState
         /\ chan[c].queue \in Seq(Values)
         /\ chan[c].slot \in Values \cup {NoValue}
         /\ chan[c].closed \in BOOLEAN
         /\ chan[c].receivers \in Nat
         /\ chan[c].listeners \in SUBSET Threads
BY DEF TypeInv, TypeOK, ChannelState

LEMMA ChannelUpdate ==
  ASSUME TypeInv, NEW c \in Chans, NEW s \in ChannelState,
         chan' = [chan EXCEPT ![c] = s]
  PROVE  chan' \in [Chans -> ChannelState]
BY DEF TypeInv, TypeOK

(* ... and so does a step of send.                                         *)
LEMMA TypeSend ==
  ASSUME TypeInv, NEW t \in Threads, SendStep(t)
  PROVE  TypeOK' /\ OperationShape'
<1> DEFINE c == op[t].chan
<1> USE DEF TypeOK
<1>0. /\ op[t].kind = "send" /\ op[t].pc = "look"
      /\ c \in Chans /\ op[t].val \in Values
      /\ op[t] \in Operation
  BY DEF SendStep, SendHandedOff, SendGivesUp, SendContinues, SendOffers,
         SendBuffers, SendBlocks, Looks, TypeInv, OperationShape
<1>f. /\ chan[c] \in ChannelState
      /\ chan[c].queue \in Seq(Values)
      /\ chan[c].listeners \in SUBSET Threads
  BY <1>0, ChannelFields
<1>1. CASE SendHandedOff(t)
  <2>1. chan' = [chan EXCEPT ![c] = [chan[c] EXCEPT !.listeners = @ \ {t}]]
    BY <1>0, <1>1 DEF SendHandedOff, TypeInv
  <2>2. [chan[c] EXCEPT !.listeners = @ \ {t}] \in ChannelState
    BY <1>f DEF ChannelState
  <2>3. chan' \in [Chans -> ChannelState]
    BY <1>0, <2>1, <2>2, ChannelUpdate
  <2>4. sent' \in [Chans -> Seq(Values)] /\ outcome' \in [Values -> Outcomes]
    BY <1>0, <1>1 DEF SendHandedOff, SendReports, Outcomes, TypeInv
  <2>5. signal' \in [Threads -> BOOLEAN]
    BY <1>0, <1>1, SignalTypes DEF SendHandedOff
  <2> QED  BY <1>1, <2>3, <2>4, <2>5, LeaveTypes DEF SendHandedOff, TypeInv
<1>2. CASE SendGivesUp(t)
  <2>1. PICK slot \in Values \cup {NoValue} :
          chan' = [chan EXCEPT ![c] = [chan[c] EXCEPT !.slot = slot, !.listeners = @ \ {t}]]
    <3>1. CASE op[t].held
      BY <1>0, <1>2, <3>1 DEF SendGivesUp, TypeInv
    <3>2. CASE ~op[t].held
      <4>1. chan' = [chan EXCEPT ![c] = [chan[c] EXCEPT !.listeners = @ \ {t}]]
        BY <1>0, <1>2, <3>2 DEF SendGivesUp, TypeInv
      <4>2. [chan[c] EXCEPT !.listeners = @ \ {t}]
              = [chan[c] EXCEPT !.slot = chan[c].slot, !.listeners = @ \ {t}]
        BY <1>f DEF ChannelState
      <4> QED  BY <1>0, <4>1, <4>2, ChannelFields
    <3> QED  BY <3>1, <3>2
  <2>2. [chan[c] EXCEPT !.slot = slot, !.listeners = @ \ {t}] \in ChannelState
    BY <1>f DEF ChannelState
  <2>3. chan' \in [Chans -> ChannelState]
    BY <1>0, <2>1, <2>2, ChannelUpdate
  <2>4. outcome' \in [Values -> Outcomes]
    BY <1>0, <1>2 DEF SendGivesUp, SendReports, Outcomes, TypeInv
  <2>5. signal' \in [Threads -> BOOLEAN]
    BY <1>0, <1>2, SignalTypes DEF SendGivesUp
  <2> QED  BY <1>2, <2>3, <2>4, <2>5, LeaveTypes DEF SendGivesUp, TypeInv
<1>3. CASE SendOffers(t)
  <2>1. chan' = [chan EXCEPT ![c] = [chan[c] EXCEPT !.slot = op[t].val]]
    BY <1>0, <1>3 DEF SendOffers, TypeInv
  <2>2. [chan[c] EXCEPT !.slot = op[t].val] \in ChannelState
    BY <1>0, <1>f DEF ChannelState
  <2>3. chan' \in [Chans -> ChannelState]
    BY <1>0, <2>1, <2>2, ChannelUpdate
  <2>4. op' \in [Threads -> Operation]
    BY <1>0, <1>3 DEF SendOffers, Operation, TypeInv
  <2>5. OperationShape'
    BY <1>0, <1>3 DEF SendOffers, OperationShape, TypeInv
  <2>6. signal' \in [Threads -> BOOLEAN]
    BY <1>0, <1>3, SignalTypes DEF SendOffers
  <2> QED  BY <1>3, <2>3, <2>4, <2>5, <2>6 DEF SendOffers, TypeInv
<1>4. CASE SendBuffers(t)
  <2>1. chan' = [chan EXCEPT ![c] = [chan[c] EXCEPT !.queue = Append(@, op[t].val),
                                                    !.listeners = @ \ {t}]]
    BY <1>0, <1>4 DEF SendBuffers, TypeInv
  <2>2. Append(chan[c].queue, op[t].val) \in Seq(Values)
    BY <1>0, <1>f
  <2>3. [chan[c] EXCEPT !.queue = Append(@, op[t].val), !.listeners = @ \ {t}]
          \in ChannelState
    BY <1>f, <2>2 DEF ChannelState
  <2>4. chan' \in [Chans -> ChannelState]
    BY <1>0, <2>1, <2>3, ChannelUpdate
  <2>5. sent' \in [Chans -> Seq(Values)] /\ outcome' \in [Values -> Outcomes]
    BY <1>0, <1>4 DEF SendBuffers, SendReports, Outcomes, TypeInv
  <2>6. signal' \in [Threads -> BOOLEAN]
    BY <1>0, <1>4, SignalTypes DEF SendBuffers
  <2> QED  BY <1>4, <2>4, <2>5, <2>6, LeaveTypes DEF SendBuffers, TypeInv
<1>5. CASE SendBlocks(t)
  <2>1. op' \in [Threads -> Operation]
    BY <1>0, <1>5 DEF SendBlocks, PrepareToWait, Operation, TypeInv
  <2>2. OperationShape'
    BY <1>0, <1>5 DEF SendBlocks, PrepareToWait, OperationShape, TypeInv
  <2> QED  BY <1>5, <2>1, <2>2 DEF SendBlocks, PrepareToWait, TypeInv
<1> QED  BY <1>1, <1>2, <1>3, <1>4, <1>5 DEF SendStep

(* A step of recv: `receivers` stays a natural number because an announced *)
(* receiver is one of those it counts.                                     *)
LEMMA ReceiversWithoutType ==
  ASSUME TypeInv, NEW t \in Threads, op[t].kind = "recv"
  PROVE  /\ op[t].chan \in Chans
         /\ ReceiversWithout(t) \in Nat
<1> DEFINE c == op[t].chan
<1>1. c \in Chans
  BY DEF TypeInv, OperationShape
<1>2. chan[c].receivers = Cardinality(Announced(c))
  BY <1>1 DEF TypeInv, ReceiverCountExact, Announced
<1>3. CASE ~op[t].held
  BY <1>1, <1>3, ChannelFields DEF ReceiversWithout
<1>4. CASE op[t].held
  <2>1. t \in Announced(c)
    BY <1>4 DEF Announced, Receiving
  <2>2. Cardinality(Announced(c) \ {t}) = Cardinality(Announced(c)) - 1
    BY <1>1, <2>1, AnnouncedFinite, FS_RemoveElement
  <2>3. Cardinality(Announced(c) \ {t}) \in Nat
    BY <1>1, AnnouncedFinite, FS_RemoveElement, FS_CardinalityType
  <2> QED  BY <1>1, <1>2, <1>4, <2>2, <2>3 DEF ReceiversWithout
<1> QED  BY <1>1, <1>3, <1>4

LEMMA TypeRecv ==
  ASSUME TypeInv, NEW t \in Threads, RecvStep(t)
  PROVE  TypeOK' /\ OperationShape'
<1> DEFINE c == op[t].chan
<1> USE DEF TypeOK
<1>0. /\ op[t].kind = "recv" /\ op[t].pc = "look"
      /\ op[t] \in Operation
  BY DEF RecvStep, RecvTakes, RecvGivesUp, RecvContinues, RecvAnnounces, RecvBlocks,
         Looks, TypeInv
<1>c. c \in Chans /\ ReceiversWithout(t) \in Nat
  BY <1>0, ReceiversWithoutType
<1>f. /\ chan[c] \in ChannelState
      /\ chan[c].queue \in Seq(Values)
      /\ chan[c].slot \in Values \cup {NoValue}
      /\ chan[c].receivers \in Nat
      /\ chan[c].listeners \in SUBSET Threads
  BY <1>c, ChannelFields
<1>1. CASE RecvTakes(t)
  <2>1. WithoutNext(c) \in ChannelState
    <3>1. chan[c].queue # <<>> => Tail(chan[c].queue) \in Seq(Values)
      BY <1>f
    <3> QED  BY <1>f, <3>1 DEF WithoutNext, ChannelState
  <2>2. [WithoutNext(c) EXCEPT !.receivers = ReceiversWithout(t), !.listeners = @ \ {t}]
          \in ChannelState
    BY <1>c, <2>1 DEF ChannelState
  <2>3. chan' \in [Chans -> ChannelState]
    BY <1>1, <1>c, <2>2, ChannelUpdate DEF RecvTakes
  <2>4. NextValue(c) \in Values
    <3>1. chan[c].queue # <<>> => Head(chan[c].queue) \in Values
      BY <1>f
    <3> QED  BY <1>1, <1>f, <3>1 DEF RecvTakes, HasValue, NextValue
  <2>5. taken' \in [Chans -> Seq(Values)]
    BY <1>1, <1>c, <2>4 DEF RecvTakes, TypeInv
  <2>6. signal' \in [Threads -> BOOLEAN]
    BY <1>1, <1>c, SignalTypes DEF RecvTakes
  <2> QED  BY <1>1, <2>3, <2>5, <2>6, LeaveTypes DEF RecvTakes, TypeInv
<1>2. CASE RecvGivesUp(t)
  <2>1. chan' = [chan EXCEPT ![c] = [chan[c] EXCEPT !.receivers = ReceiversWithout(t),
                                                    !.listeners = @ \ {t}]]
    BY <1>2, <1>c DEF RecvGivesUp, TypeInv
  <2>2. [chan[c] EXCEPT !.receivers = ReceiversWithout(t), !.listeners = @ \ {t}]
          \in ChannelState
    BY <1>c, <1>f DEF ChannelState
  <2>3. chan' \in [Chans -> ChannelState]
    BY <1>c, <2>1, <2>2, ChannelUpdate
  <2>4. sawClosed' \in [Chans -> BOOLEAN]
    BY <1>2, <1>c, ChannelFields DEF RecvGivesUp, TypeInv
  <2>5. signal' \in [Threads -> BOOLEAN]
    BY <1>2, <1>c, SignalTypes DEF RecvGivesUp
  <2> QED  BY <1>2, <2>3, <2>4, <2>5, LeaveTypes DEF RecvGivesUp, TypeInv
<1>3. CASE RecvAnnounces(t)
  <2>1. chan' = [chan EXCEPT ![c] = [chan[c] EXCEPT !.receivers = @ + 1]]
    BY <1>3, <1>c DEF RecvAnnounces, TypeInv
  <2>2. [chan[c] EXCEPT !.receivers = @ + 1] \in ChannelState
    BY <1>f DEF ChannelState
  <2>3. chan' \in [Chans -> ChannelState]
    BY <1>c, <2>1, <2>2, ChannelUpdate
  <2>4. op' \in [Threads -> Operation] /\ OperationShape'
    BY <1>0, <1>3 DEF RecvAnnounces, Operation, OperationShape, TypeInv
  <2>5. signal' \in [Threads -> BOOLEAN]
    BY <1>3, <1>c, SignalTypes DEF RecvAnnounces
  <2> QED  BY <1>3, <2>3, <2>4, <2>5 DEF RecvAnnounces, TypeInv
<1>4. CASE RecvBlocks(t)
  <2>1. op' \in [Threads -> Operation]
    BY <1>0, <1>4 DEF RecvBlocks, PrepareToWait, Operation, TypeInv
  <2>2. OperationShape'
    BY <1>0, <1>4 DEF RecvBlocks, PrepareToWait, OperationShape, TypeInv
  <2> QED  BY <1>4, <2>1, <2>2 DEF RecvBlocks, PrepareToWait, TypeInv
<1> QED  BY <1>1, <1>2, <1>3, <1>4 DEF RecvStep

LEMMA TypeWait ==
  ASSUME TypeInv, NEW t \in Threads, WaitStep(t)
  PROVE  TypeOK' /\ OperationShape'
<1> DEFINE c == op[t].chan
<1> USE DEF TypeOK
<1>0. op[t].pc \in {"register", "arm", "asleep"} /\ c \in Chans /\ op[t] \in Operation
  BY DEF WaitStep, Register, Watch, Arm, ReadGeneration, Wake, TypeInv, OperationShape
<1>1. op' \in [Threads -> Operation] /\ OperationShape'
  <2>1. PICK pc \in {"look", "asleep"} : op' = [op EXCEPT ![t].pc = pc]
    BY DEF WaitStep, Register, Watch, Arm, ReadGeneration, Wake
  <2>2. op' \in [Threads -> Operation]
    BY <1>0, <2>1 DEF Operation, TypeInv
  <2>3. op[t].kind # "none"
    BY <1>0 DEF OperationShape, TypeInv
  <2>4. OperationShape'
    BY <2>1, <2>3 DEF OperationShape, TypeInv
  <2> QED  BY <2>2, <2>4
<1>2. CASE Register(t)
  <2>1. chan' = [chan EXCEPT ![c] = [chan[c] EXCEPT !.listeners = @ \cup {t}]]
    BY <1>0, <1>2 DEF Register, Watch, TypeInv
  <2>2. [chan[c] EXCEPT !.listeners = @ \cup {t}] \in ChannelState
    BY <1>0, ChannelFields DEF ChannelState
  <2>3. chan' \in [Chans -> ChannelState]
    BY <1>0, <2>1, <2>2, ChannelUpdate
  <2>4. token' \in [Tokens -> CancellationState]
    BY <1>2, ZenonT(30) DEF Register, Watch, CancellationState, TypeInv
  <2>5. signal' \in [Threads -> BOOLEAN]
    BY <1>2 DEF Register, Watch, IsCancelled, TypeInv, CancellationState
  <2> QED  BY <1>1, <1>2, <2>3, <2>4, <2>5 DEF Register, Watch, TypeInv
<1>3. CASE Arm(t)
  BY <1>1, <1>3 DEF Arm, ReadGeneration, TypeInv
<1>4. CASE Wake(t)
  BY <1>1, <1>4 DEF Wake, TypeInv
<1> QED  BY <1>2, <1>3, <1>4 DEF WaitStep
----------------------------------------------------------------------------
(* The count of announced receivers.                                       *)

LEMMA CountUnchanged ==
  ASSUME TypeInv,
         \A c \in Chans : chan'[c].receivers = chan[c].receivers,
         \A c \in Chans : Announced(c)' = Announced(c)
  PROVE  ReceiverCountExact'
BY DEF TypeInv, ReceiverCountExact, Announced

(* Nothing but a step of recv touches the announced receivers.             *)
LEMMA ReceiversUnchanged ==
  ASSUME TypeInv, NEW c \in Chans, NEW s,
         chan' = [chan EXCEPT ![c] = s], s.receivers = chan[c].receivers
  PROVE  \A d \in Chans : chan'[d].receivers = chan[d].receivers
BY DEF TypeInv, TypeOK

LEMMA CountOthers ==
  ASSUME TypeInv,
         Call \/ (\E t \in Threads : SendStep(t) \/ WaitStep(t))
              \/ (\E k \in Tokens : CancelNotifies(k))
  PROVE  ReceiverCountExact'
<1>1. ASSUME NEW t \in Threads, SendStep(t) PROVE ReceiverCountExact'
  <2>0. op[t].kind = "send" /\ op[t].chan \in Chans
    BY <1>1 DEF SendStep, SendHandedOff, SendGivesUp, SendContinues, SendOffers,
       SendBuffers, SendBlocks, Looks, TypeInv, OperationShape
  <2>1. \A u \in Threads : u # t => op'[u] = op[u]
    BY <1>1 DEF SendStep, SendHandedOff, SendGivesUp, SendOffers, SendBuffers,
       SendBlocks, PrepareToWait, Leave, Forget, TypeInv, TypeOK
  <2>2. op'[t].kind # "recv"
    <3>1. CASE SendHandedOff(t) \/ SendGivesUp(t) \/ SendBuffers(t)
      <4>1. op' = [op EXCEPT ![t] = NoOperation]
        BY <3>1 DEF SendHandedOff, SendGivesUp, SendBuffers, Leave
      <4> QED  BY <4>1 DEF NoOperation, TypeInv, TypeOK
    <3>2. CASE SendOffers(t) \/ SendBlocks(t)
      <4>1. op[t] \in Operation
        BY DEF TypeInv, TypeOK
      <4>2. \/ op'[t] = [op[t] EXCEPT !.held = TRUE]
            \/ \E pc : op'[t] = [op[t] EXCEPT !.pc = pc]
        BY <3>2 DEF SendOffers, SendBlocks, PrepareToWait, TypeInv, TypeOK
      <4> QED  BY <2>0, <4>1, <4>2 DEF Operation
    <3> QED  BY <1>1, <3>1, <3>2 DEF SendStep
  <2>3. \A c \in Chans : Announced(c)' = Announced(c)
    BY <2>0, <2>1, <2>2 DEF Announced, Receiving
  <2>4. \A c \in Chans : chan'[c].receivers = chan[c].receivers
    <3>1. PICK c \in Chans : c = op[t].chan /\ chan[c] \in ChannelState
      BY <2>0, ChannelFields
    <3>2. CASE SendHandedOff(t)
      <4>1. chan' = [chan EXCEPT ![c] = [chan[c] EXCEPT !.listeners = @ \ {t}]]
        BY <3>1, <3>2 DEF SendHandedOff
      <4> QED  BY <3>1, <4>1, ReceiversUnchanged DEF ChannelState
    <3>3. CASE SendGivesUp(t) /\ op[t].held
      <4>1. chan' = [chan EXCEPT ![c] = [chan[c] EXCEPT !.slot = NoValue, !.listeners = @ \ {t}]]
        BY <3>1, <3>3 DEF SendGivesUp
      <4> QED  BY <3>1, <4>1, ReceiversUnchanged DEF ChannelState
    <3>4. CASE SendGivesUp(t) /\ ~op[t].held
      <4>1. chan' = [chan EXCEPT ![c] = [chan[c] EXCEPT !.listeners = @ \ {t}]]
        BY <3>1, <3>4 DEF SendGivesUp
      <4> QED  BY <3>1, <4>1, ReceiversUnchanged DEF ChannelState
    <3>5. CASE SendOffers(t)
      <4>1. chan' = [chan EXCEPT ![c] = [chan[c] EXCEPT !.slot = op[t].val]]
        BY <3>1, <3>5 DEF SendOffers
      <4> QED  BY <3>1, <4>1, ReceiversUnchanged DEF ChannelState
    <3>6. CASE SendBuffers(t)
      <4>1. chan' = [chan EXCEPT ![c] = [chan[c] EXCEPT !.queue = Append(@, op[t].val),
                                                        !.listeners = @ \ {t}]]
        BY <3>1, <3>6 DEF SendBuffers
      <4> QED  BY <3>1, <4>1, ReceiversUnchanged DEF ChannelState
    <3>7. CASE SendBlocks(t)
      BY <3>7 DEF SendBlocks, PrepareToWait
    <3> QED  BY <1>1, <3>2, <3>3, <3>4, <3>5, <3>6, <3>7 DEF SendStep
  <2> QED  BY <2>3, <2>4, CountUnchanged
<1>2. ASSUME NEW t \in Threads, WaitStep(t) PROVE ReceiverCountExact'
  <2>1. PICK pc : op' = [op EXCEPT ![t].pc = pc]
    BY <1>2 DEF WaitStep, Register, Watch, Arm, ReadGeneration, Wake
  <2>2. \A c \in Chans : Announced(c)' = Announced(c)
    BY <2>1 DEF Announced, Receiving, Operation, TypeInv, TypeOK
  <2>3. \A c \in Chans : chan'[c].receivers = chan[c].receivers
    <3>1. CASE Register(t)
      <4>1. PICK c \in Chans : c = op[t].chan /\ chan[c] \in ChannelState
        BY <3>1, ChannelFields DEF Register, Watch, TypeInv, OperationShape
      <4>2. chan' = [chan EXCEPT ![c] = [chan[c] EXCEPT !.listeners = @ \cup {t}]]
        BY <3>1, <4>1 DEF Register, Watch
      <4> QED  BY <4>1, <4>2, ReceiversUnchanged DEF ChannelState
    <3>2. CASE Arm(t) \/ Wake(t)
      BY <3>2 DEF Arm, ReadGeneration, Wake
    <3> QED  BY <1>2, <3>1, <3>2 DEF WaitStep
  <2> QED  BY <2>2, <2>3, CountUnchanged
<1>3. ASSUME NEW c \in Chans, NEW t \in Senders[c], NEW v \in Values,
             NEW k \in Tokens \cup {NoToken}, Send(t, c, v, k)
      PROVE  ReceiverCountExact'
  <2>1. t \in Threads /\ op[t].kind = "none"
    BY <1>3, ChannelAssumption DEF Send, TypeInv, OperationShape
  <2>2. \A u \in Threads : u # t => op'[u] = op[u]
    BY <1>3 DEF Send, TypeInv, TypeOK
  <2>3. op'[t].kind # "recv"
    BY <1>3, <2>1 DEF Send, TypeInv, TypeOK
  <2>4. \A d \in Chans : Announced(d)' = Announced(d)
    BY <2>1, <2>2, <2>3 DEF Announced, Receiving
  <2> QED  BY <1>3, <2>4, CountUnchanged DEF Send
<1>4. ASSUME NEW c \in Chans, NEW t \in Receivers[c],
             NEW k \in Tokens \cup {NoToken}, Recv(t, c, k)
      PROVE  ReceiverCountExact'
  <2>1. t \in Threads /\ op[t].kind = "none"
    BY <1>4, ChannelAssumption DEF Recv, TypeInv, OperationShape
  <2>2. \A u \in Threads : u # t => op'[u] = op[u]
    BY <1>4 DEF Recv, TypeInv, TypeOK
  <2>3. op'[t].held = FALSE
    BY <1>4, <2>1 DEF Recv, TypeInv, TypeOK
  <2>4. \A d \in Chans : Announced(d)' = Announced(d)
    BY <2>1, <2>2, <2>3 DEF Announced, Receiving
  <2> QED  BY <1>4, <2>4, CountUnchanged DEF Recv
<1>5. ASSUME NEW c \in Chans, Close(c) PROVE ReceiverCountExact'
  <2>1. chan' = [chan EXCEPT ![c] = [chan[c] EXCEPT !.closed = TRUE]]
    BY <1>5 DEF Close
  <2>2. \A d \in Chans : chan'[d].receivers = chan[d].receivers
    BY <2>1, ChannelFields, ReceiversUnchanged DEF ChannelState
  <2> QED  BY <1>5, <2>2, CountUnchanged DEF Close, Announced, Receiving
<1>6. ASSUME NEW k \in Tokens, Cancel(k) \/ CancelNotifies(k) PROVE ReceiverCountExact'
  BY <1>6, CountUnchanged DEF Cancel, RaiseFlag, CancelNotifies, NotifyWatchers, Notify, Announced, Receiving
<1> QED  BY <1>1, <1>2, <1>3, <1>4, <1>5, <1>6 DEF Call

LEMMA CountRecv ==
  ASSUME TypeInv, NEW t \in Threads, RecvStep(t)
  PROVE  ReceiverCountExact'
<1> USE DEF TypeOK
<1>0. PICK c \in Chans :
        /\ c = op[t].chan
        /\ op[t].kind = "recv" /\ op[t].pc = "look"
        /\ op \in [Threads -> Operation] /\ chan \in [Chans -> ChannelState]
  BY DEF RecvStep, RecvTakes, RecvGivesUp, RecvContinues, RecvAnnounces, RecvBlocks,
         Looks, TypeInv, OperationShape
<1>1. \A u \in Threads : u # t => op'[u] = op[u]
  BY DEF RecvStep, RecvTakes, RecvGivesUp, RecvAnnounces, RecvBlocks, PrepareToWait,
     Leave, Forget, TypeInv
<1>2. \A d \in Chans \ {c} : chan'[d] = chan[d]
  BY <1>0 DEF RecvStep, RecvTakes, RecvGivesUp, RecvAnnounces, RecvBlocks, PrepareToWait
<1>3. \A d \in Chans : chan[d].receivers = Cardinality(Announced(d))
  BY DEF TypeInv, ReceiverCountExact, Announced
<1>4. IsFiniteSet(Announced(c)) /\ Cardinality(Announced(c)) \in Nat
  BY <1>0, AnnouncedFinite
<1>5. \A d \in Chans \ {c} : Announced(d)' = Announced(d)
  <2>1. op'[t].chan = c \/ op'[t].kind # "recv"
    BY <1>0 DEF RecvStep, RecvTakes, RecvGivesUp, RecvAnnounces, RecvBlocks,
       PrepareToWait, Leave, Forget, NoOperation, Operation
  <2> QED  BY <1>0, <1>1, <2>1 DEF Announced, Receiving
<1>6. chan'[c].receivers = Cardinality(Announced(c)')
  <2>1. CASE RecvTakes(t) \/ RecvGivesUp(t)
    <3>1. op'[t].kind # "recv"
      BY <1>0, <2>1 DEF RecvTakes, RecvGivesUp, Leave, Forget, NoOperation
    <3>2. Announced(c)' = Announced(c) \ {t}
      BY <1>1, <3>1 DEF Announced, Receiving
    <3>3. chan'[c].receivers = ReceiversWithout(t)
      <4>1. CASE RecvTakes(t)
        <5>1. chan[c].queue # <<>> => Tail(chan[c].queue) \in Seq(Values)
          BY <1>0 DEF ChannelState
        <5>2. WithoutNext(c) \in ChannelState
          BY <1>0, <5>1 DEF WithoutNext, ChannelState
        <5> QED  BY <1>0, <4>1, <5>2 DEF RecvTakes, ChannelState
      <4>2. CASE RecvGivesUp(t)
        BY <1>0, <4>2 DEF RecvGivesUp, ChannelState
      <4> QED  BY <2>1, <4>1, <4>2
    <3>4. t \in Announced(c) <=> op[t].held
      BY <1>0 DEF Announced, Receiving
    <3>5. Cardinality(Announced(c) \ {t})
            = IF op[t].held THEN Cardinality(Announced(c)) - 1 ELSE Cardinality(Announced(c))
      BY <1>4, <3>4, FS_RemoveElement
    <3> QED  BY <1>0, <1>3, <3>2, <3>3, <3>5 DEF ReceiversWithout
  <2>2. CASE RecvAnnounces(t)
    <3>1. op'[t].kind = "recv" /\ op'[t].chan = c /\ op'[t].held /\ ~op[t].held
      BY <1>0, <2>2 DEF RecvAnnounces, Operation
    <3>2. Announced(c)' = Announced(c) \cup {t} /\ t \notin Announced(c)
      BY <1>1, <3>1 DEF Announced, Receiving
    <3>3. chan'[c].receivers = chan[c].receivers + 1
      BY <1>0, <2>2 DEF RecvAnnounces, ChannelState
    <3>4. Cardinality(Announced(c) \cup {t}) = Cardinality(Announced(c)) + 1
      BY <1>4, <3>2, FS_AddElement
    <3> QED  BY <1>0, <1>3, <3>2, <3>3, <3>4
  <2>3. CASE RecvBlocks(t)
    <3>1. /\ op'[t].kind = "recv" /\ op'[t].chan = c /\ op'[t].held = op[t].held
          /\ chan' = chan
      BY <1>0, <2>3 DEF RecvBlocks, PrepareToWait, Operation
    <3>2. Announced(c)' = Announced(c)
      BY <1>0, <1>1, <3>1 DEF Announced, Receiving
    <3> QED  BY <1>0, <1>3, <3>1, <3>2
  <2> QED  BY <2>1, <2>2, <2>3 DEF RecvStep
<1> QED  BY <1>2, <1>3, <1>5, <1>6 DEF ReceiverCountExact, Announced

LEMMA TypeNext ==
  ASSUME TypeInv, [Next]_vars
  PROVE  TypeInv'
<1>1. CASE Call
  BY <1>1, TypeCall, CountOthers DEF TypeInv
<1>2. ASSUME NEW t \in Threads, Step(t) PROVE TypeInv'
  <2>1. CASE SendStep(t)
    BY <2>1, TypeSend, CountOthers DEF TypeInv
  <2>2. CASE RecvStep(t)
    BY <2>2, TypeRecv, CountRecv DEF TypeInv
  <2>3. CASE WaitStep(t)
    BY <2>3, TypeWait, CountOthers DEF TypeInv
  <2> QED  BY <1>2, <2>1, <2>2, <2>3 DEF Step
<1>3. ASSUME NEW k \in Tokens, CancelNotifies(k) PROVE TypeInv'
  <2>1. TypeOK' /\ OperationShape'
    BY <1>3 DEF CancelNotifies, NotifyWatchers, Notify, TypeInv, TypeOK, OperationShape, CancellationState
  <2> QED  BY <1>3, <2>1, CountOthers DEF TypeInv
<1>4. CASE UNCHANGED vars
  BY <1>4 DEF vars, TypeInv, TypeOK, OperationShape, ReceiverCountExact, Receiving
<1> QED  BY <1>1, <1>2, <1>3, <1>4 DEF Next

(* The types, what an operation is about and the count of receivers        *)
(* together are kept by every step of send, recv, close and cancel.        *)
THEOREM TypeInvariant == Spec => []TypeInv
<1>1. Init => TypeInv
  BY TypeInit
<1>2. TypeInv /\ [Next]_vars => TypeInv'
  BY TypeNext
<1> QED  BY <1>1, <1>2, PTL DEF Spec
----------------------------------------------------------------------------
(* No lost wakeup.                                                         *)

(* What WaitInv says of one thread.                                        *)
WaitsWell(u) ==
  /\ op[u].pc \in {"arm", "asleep"} => u \in chan[op[u].chan].listeners
  /\ op[u].pc = "arm" => ~HasWork(u)
  /\ op[u].pc = "asleep" /\ ~signal[u] => ~HasWork(u)

LEMMA WaitInvByThread == WaitInv <=> \A u \in Threads : WaitsWell(u)
BY DEF WaitInv, WaitsWell, WaitersRegistered, ArmedHaveNoWork, SleepersHaveNoWork

(* A step that changes what u's channel holds at most by u's own hand.     *)
LEMMA QuietStep ==
  ASSUME TypeInv, NEW u \in Threads, WaitsWell(u),
         op'[u] = op[u], signal[u] => signal'[u],
         \A d \in Chans :
           /\ chan'[d].closed = chan[d].closed
           /\ chan'[d].slot = chan[d].slot
           /\ chan'[d].queue = chan[d].queue
           /\ u \in chan[d].listeners => u \in chan'[d].listeners
  PROVE  WaitsWell(u)'
<1>1. CASE op[u].pc \notin {"arm", "asleep"}
  BY <1>1 DEF WaitsWell
<1>2. CASE op[u].pc \in {"arm", "asleep"}
  <2>1. op[u].chan \in Chans
    BY <1>2 DEF TypeInv, OperationShape
  <2>2. HasWork(u)' <=> HasWork(u)
    BY <2>1 DEF HasWork, CanSend, HasValue, Rendezvous
  <2> QED  BY <1>2, <2>1, <2>2 DEF WaitsWell
<1> QED  BY <1>1, <1>2

(* A step that changes channel c under its mutex and notifies.             *)
LEMMA NotifyingStep ==
  ASSUME TypeInv, NEW u \in Threads, WaitsWell(u), NEW c \in Chans, ~Locked(c),
         op'[u] = op[u], signal[u] => signal'[u],
         u \in chan[c].listeners => signal'[u] /\ u \in chan'[c].listeners,
         \A d \in Chans \ {c} : chan'[d] = chan[d]
  PROVE  WaitsWell(u)'
<1>1. CASE op[u].pc \notin {"arm", "asleep"}
  BY <1>1 DEF WaitsWell
<1>2. CASE op[u].pc \in {"arm", "asleep"} /\ op[u].chan = c
  <2>1. op[u].pc = "asleep"
    BY <1>2 DEF Locked, LockHolders
  <2> QED  BY <1>2, <2>1 DEF WaitsWell
<1>3. CASE op[u].pc \in {"arm", "asleep"} /\ op[u].chan # c
  <2>1. op[u].chan \in Chans \ {c}
    BY <1>3 DEF TypeInv, OperationShape
  <2>2. HasWork(u)' <=> HasWork(u)
    BY <2>1 DEF HasWork, CanSend, HasValue, Rendezvous
  <2> QED  BY <1>3, <2>1, <2>2 DEF WaitsWell
<1> QED  BY <1>1, <1>2, <1>3

(* The actor itself, when it neither arms nor sleeps afterwards.           *)
LEMMA AwakeActor ==
  ASSUME NEW t \in Threads, op'[t].pc \notin {"arm", "asleep"}
  PROVE  WaitsWell(t)'
BY DEF WaitsWell

LEMMA WaitInit == Init => WaitInv
BY DEF Init, WaitInv, WaitersRegistered, ArmedHaveNoWork, SleepersHaveNoWork, NoOperation

(* A blocking look: nothing was found, so nothing is there while the       *)
(* thread holds the mutex.                                                 *)
LEMMA WaitBlocks ==
  ASSUME TypeInv, WaitInv, NEW t \in Threads, SendBlocks(t) \/ RecvBlocks(t)
  PROVE  WaitInv'
<1> USE DEF TypeInv, TypeOK
<1>1. PICK pc \in {"register", "arm"} :
        /\ op' = [op EXCEPT ![t].pc = pc]
        /\ pc = "arm" => t \in chan[op[t].chan].listeners
        /\ UNCHANGED <<chan, signal>>
  BY DEF SendBlocks, RecvBlocks, PrepareToWait
<1>2. ~HasWork(t)
  <2>1. CASE SendBlocks(t)
    BY <2>1 DEF SendBlocks, SendContinues, Looks, HasWork
  <2>2. CASE RecvBlocks(t)
    BY <2>2 DEF RecvBlocks, RecvContinues, Looks, HasWork
  <2> QED  BY <2>1, <2>2
<1>3. op[t] \in Operation
  OBVIOUS
<1>4. op'[t] = [op[t] EXCEPT !.pc = pc]
  BY <1>1
<1>5. /\ op'[t].kind = op[t].kind /\ op'[t].chan = op[t].chan
      /\ op'[t].held = op[t].held /\ op'[t].pc = pc
  BY <1>3, <1>4 DEF Operation
<1>6. WaitsWell(t)'
  BY <1>1, <1>2, <1>5 DEF WaitsWell, HasWork, CanSend, HasValue, Rendezvous
<1>7. ASSUME NEW u \in Threads, u # t PROVE WaitsWell(u)'
  BY <1>1, <1>7, WaitInvByThread, QuietStep
<1> QED
  <2>1. \A u \in Threads : WaitsWell(u)'
    BY <1>6, <1>7
  <2> QED  BY <2>1 DEF WaitInv, WaitsWell, WaitersRegistered, ArmedHaveNoWork,
              SleepersHaveNoWork
(* A look that moves the channel: the mutex is free, the thread goes on    *)
(* or returns, and every other registered thread is notified; where nobody *)
(* is, nothing another thread waits for has changed.                       *)
LEMMA WaitMoves ==
  ASSUME TypeInv, WaitInv, NEW t \in Threads,
         \/ SendHandedOff(t) \/ SendGivesUp(t) \/ SendOffers(t) \/ SendBuffers(t)
         \/ RecvTakes(t) \/ RecvGivesUp(t) \/ RecvAnnounces(t)
  PROVE  WaitInv'
<1>1. PICK c \in Chans : c = op[t].chan /\ ~Locked(c) /\ op[t].pc = "look"
  BY DEF SendHandedOff, SendGivesUp, SendOffers, SendBuffers, SendContinues, RecvTakes,
         RecvGivesUp, RecvAnnounces, RecvContinues, Looks, TypeInv, OperationShape
<1>2. op'[t].pc \in {"idle", "look"} /\ \A u \in Threads \ {t} : op'[u] = op[u]
  <2>1. CASE SendOffers(t) \/ RecvAnnounces(t)
    <3>1. op' = [op EXCEPT ![t].held = TRUE] /\ op \in [Threads -> Operation]
      BY <2>1 DEF SendOffers, RecvAnnounces, TypeInv, TypeOK
    <3> QED  BY <1>1, <3>1 DEF Operation
  <2>2. CASE ~(SendOffers(t) \/ RecvAnnounces(t))
    <3>1. op' = [op EXCEPT ![t] = NoOperation] /\ op \in [Threads -> Operation]
      BY <2>2 DEF SendHandedOff, SendGivesUp, SendBuffers, RecvTakes, RecvGivesUp,
         Leave, Forget, TypeInv, TypeOK
    <3> QED  BY <3>1 DEF NoOperation
  <2> QED  BY <2>1, <2>2
<1>3. WaitsWell(t)'
  BY <1>2, AwakeActor
<1>4. ASSUME NEW u \in Threads \ {t} PROVE WaitsWell(u)'
  <2>1. op'[u] = op[u] /\ WaitsWell(u)
    BY <1>2, WaitInvByThread
  <2>2. chan[c] \in ChannelState /\ chan \in [Chans -> ChannelState]
        /\ signal \in [Threads -> BOOLEAN]
    BY DEF TypeInv, TypeOK
  <2>3. CASE NotifyListeners(c) \/ NotifyAndDrop(c, t)
    <3>1. signal[u] \/ u \in chan[c].listeners => signal'[u]
      BY <2>3 DEF NotifyListeners, Notify, NotifyAndDrop
    <3>2. \A d \in Chans \ {c} : chan'[d] = chan[d]
      BY <1>1, <2>2 DEF SendHandedOff, SendGivesUp, SendOffers, SendBuffers, RecvTakes,
         RecvGivesUp, RecvAnnounces
    <3>3. u \in chan[c].listeners => u \in chan'[c].listeners
      <4>1. CASE SendHandedOff(t)
        BY <1>1, <2>2, <4>1 DEF SendHandedOff, ChannelState
      <4>5. CASE SendOffers(t)
        BY <1>1, <2>2, <4>5 DEF SendOffers, ChannelState
      <4>6. CASE SendBuffers(t)
        <5>1. chan'[c] = [chan[c] EXCEPT !.queue = Append(@, op[t].val), !.listeners = @ \ {t}]
          BY <1>1, <2>2, <4>6 DEF SendBuffers
        <5> QED  BY <2>2, <5>1 DEF ChannelState
      <4>4. CASE SendGivesUp(t)
        BY <1>1, <2>2, <4>4 DEF SendGivesUp, ChannelState
      <4>2. CASE RecvGivesUp(t) \/ RecvAnnounces(t)
        BY <1>1, <2>2, <4>2 DEF RecvGivesUp, RecvAnnounces, ChannelState
      <4>3. CASE RecvTakes(t)
        <5>1. WithoutNext(c).listeners = chan[c].listeners /\ "listeners" \in DOMAIN WithoutNext(c)
          BY <2>2 DEF WithoutNext, ChannelState
        <5>2. chan'[c] = [WithoutNext(c) EXCEPT !.receivers = ReceiversWithout(t),
                                                !.listeners = @ \ {t}]
          BY <1>1, <2>2, <4>3 DEF RecvTakes
        <5> QED  BY <5>1, <5>2
      <4> QED  BY <4>1, <4>2, <4>3, <4>4, <4>5, <4>6
    <3> QED  BY <1>1, <2>1, <3>1, <3>2, <3>3, NotifyingStep
  <2>4. CASE DropSignal(t) /\ (SendHandedOff(t) \/ SendGivesUp(t) \/ RecvGivesUp(t))
    <3>1. signal'[u] = signal[u]
      BY <2>2, <2>4 DEF DropSignal
    <3>2. PICK n, slot :
            /\ slot = chan[c].slot \/ NotifyAndDrop(c, t)
            /\ chan' = [chan EXCEPT ![c] = [chan[c] EXCEPT !.receivers = n, !.slot = slot,
                                                           !.listeners = @ \ {t}]]
      <4>1. CASE SendHandedOff(t) \/ (SendGivesUp(t) /\ ~op[t].held)
        <5>1. chan' = [chan EXCEPT ![c] = [chan[c] EXCEPT !.listeners = @ \ {t}]]
          BY <1>1, <4>1 DEF SendHandedOff, SendGivesUp
        <5>2. [chan[c] EXCEPT !.listeners = @ \ {t}]
                = [chan[c] EXCEPT !.receivers = chan[c].receivers, !.slot = chan[c].slot,
                                  !.listeners = @ \ {t}]
          BY <2>2 DEF ChannelState
        <5> QED  BY <5>1, <5>2, ChannelFields
      <4>2. CASE SendGivesUp(t) /\ op[t].held
        <5>1. /\ NotifyAndDrop(c, t)
              /\ chan' = [chan EXCEPT ![c] = [chan[c] EXCEPT !.slot = NoValue,
                                                             !.listeners = @ \ {t}]]
          BY <1>1, <4>2 DEF SendGivesUp
        <5>2. [chan[c] EXCEPT !.slot = NoValue, !.listeners = @ \ {t}]
                = [chan[c] EXCEPT !.receivers = chan[c].receivers, !.slot = NoValue,
                                  !.listeners = @ \ {t}]
          BY <2>2 DEF ChannelState
        <5> QED  BY <5>1, <5>2, ChannelFields
      <4>3. CASE RecvGivesUp(t)
        <5>1. ReceiversWithout(t) \in Nat
          BY <4>3, ReceiversWithoutType DEF RecvGivesUp, Looks
        <5>2. chan' = [chan EXCEPT ![c] = [chan[c] EXCEPT !.receivers = ReceiversWithout(t),
                                                          !.listeners = @ \ {t}]]
          BY <1>1, <4>3 DEF RecvGivesUp
        <5>3. [chan[c] EXCEPT !.receivers = ReceiversWithout(t), !.listeners = @ \ {t}]
                = [chan[c] EXCEPT !.receivers = ReceiversWithout(t), !.slot = chan[c].slot,
                                  !.listeners = @ \ {t}]
          BY <2>2 DEF ChannelState
        <5> QED  BY <5>1, <5>2, <5>3
      <4> QED  BY <2>4, <4>1, <4>2, <4>3
    <3>3. CASE slot = chan[c].slot
      <4>1. \A d \in Chans :
              /\ chan'[d].closed = chan[d].closed
              /\ chan'[d].slot = chan[d].slot
              /\ chan'[d].queue = chan[d].queue
              /\ u \in chan[d].listeners => u \in chan'[d].listeners
        BY <2>2, <3>2, <3>3 DEF ChannelState
      <4> QED  BY <2>1, <3>1, <4>1, QuietStep
    <3> QED  BY <2>3, <3>2, <3>3
  <2> QED  BY <1>1, <2>3, <2>4 DEF SendHandedOff, SendGivesUp, SendOffers, SendBuffers,
              RecvTakes, RecvGivesUp, RecvAnnounces
<1>5. \A u \in Threads : WaitsWell(u)'
  BY <1>3, <1>4
<1> QED  BY <1>5 DEF WaitInv, WaitsWell, WaitersRegistered, ArmedHaveNoWork,
            SleepersHaveNoWork

LEMMA WaitWaits ==
  ASSUME TypeInv, WaitInv, NEW t \in Threads, WaitStep(t)
  PROVE  WaitInv'
<1>1. PICK pc \in {"look", "asleep"} :
        /\ op' = [op EXCEPT ![t].pc = pc]
        /\ pc = "asleep" => Arm(t)
  BY DEF WaitStep, Register, Watch, Arm, ReadGeneration, Wake
<1>2. /\ op[t] \in Operation /\ op \in [Threads -> Operation]
      /\ chan \in [Chans -> ChannelState] /\ signal \in [Threads -> BOOLEAN]
  BY DEF TypeInv, TypeOK
<1>3. op'[t] = [op[t] EXCEPT !.pc = pc] /\ \A u \in Threads \ {t} : op'[u] = op[u]
  BY <1>1, <1>2
<1>4. /\ op'[t].kind = op[t].kind /\ op'[t].chan = op[t].chan
      /\ op'[t].held = op[t].held /\ op'[t].pc = pc
  BY <1>2, <1>3 DEF Operation
<1>5. WaitsWell(t)'
  <2>1. CASE pc = "look"
    BY <1>4, <2>1, AwakeActor
  <2>2. CASE Arm(t)
    <3>1. WaitsWell(t) /\ op[t].pc = "arm" /\ chan' = chan
      BY <2>2, WaitInvByThread DEF Arm, ReadGeneration
    <3>2. HasWork(t)' <=> HasWork(t)
      BY <1>4, <3>1 DEF HasWork, CanSend, HasValue, Rendezvous
    <3> QED  BY <1>4, <3>1, <3>2 DEF WaitsWell
  <2> QED  BY <1>1, <2>1, <2>2
<1>6. ASSUME NEW u \in Threads \ {t} PROVE WaitsWell(u)'
  <2>1. op'[u] = op[u] /\ WaitsWell(u)
    BY <1>3, WaitInvByThread
  <2>2. signal'[u] = signal[u]
    BY <1>2 DEF WaitStep, Register, Watch, Arm, ReadGeneration, Wake
  <2>3. \A d \in Chans :
          /\ chan'[d].closed = chan[d].closed
          /\ chan'[d].slot = chan[d].slot
          /\ chan'[d].queue = chan[d].queue
          /\ u \in chan[d].listeners => u \in chan'[d].listeners
    <3>1. CASE Register(t)
      <4>1. PICK c \in Chans : c = op[t].chan
        BY <3>1 DEF Register, Watch, TypeInv, OperationShape
      <4>2. chan' = [chan EXCEPT ![c] = [chan[c] EXCEPT !.listeners = @ \cup {t}]]
        BY <3>1, <4>1 DEF Register, Watch
      <4> QED  BY <1>2, <4>2 DEF ChannelState
    <3>2. CASE Arm(t) \/ Wake(t)
      BY <3>2 DEF Arm, ReadGeneration, Wake
    <3> QED  BY <3>1, <3>2 DEF WaitStep
  <2> QED  BY <2>1, <2>2, <2>3, QuietStep
<1>7. \A u \in Threads : WaitsWell(u)'
  BY <1>5, <1>6
<1> QED  BY <1>7 DEF WaitInv, WaitsWell, WaitersRegistered, ArmedHaveNoWork,
            SleepersHaveNoWork

LEMMA WaitCalls ==
  ASSUME TypeInv, WaitInv, Call \/ \E k \in Tokens : CancelNotifies(k)
  PROVE  WaitInv'
<1>0. /\ chan \in [Chans -> ChannelState] /\ signal \in [Threads -> BOOLEAN]
      /\ op \in [Threads -> Operation]
  BY DEF TypeInv, TypeOK
<1>1. ASSUME NEW t \in Threads, \A u \in Threads \ {t} : op'[u] = op[u],
             op'[t] = op[t] \/ op'[t].pc = "look", UNCHANGED <<chan, signal>>
      PROVE  \A u \in Threads : WaitsWell(u)'
  <2>1. CASE op'[t].pc = "look"
    BY <1>1, <2>1, WaitInvByThread, QuietStep, AwakeActor
  <2>2. CASE op'[t] = op[t]
    BY <1>1, <2>2, WaitInvByThread, QuietStep
  <2> QED  BY <1>1, <2>1, <2>2
<1>2. ASSUME NEW c \in Chans, NEW t \in Senders[c], NEW v \in Values,
             NEW k \in Tokens \cup {NoToken}, Send(t, c, v, k)
      PROVE  \A u \in Threads : WaitsWell(u)'
  BY <1>0, <1>1, <1>2, ChannelAssumption DEF Send
<1>3. ASSUME NEW c \in Chans, NEW t \in Receivers[c],
             NEW k \in Tokens \cup {NoToken}, Recv(t, c, k)
      PROVE  \A u \in Threads : WaitsWell(u)'
  BY <1>0, <1>1, <1>3, ChannelAssumption DEF Recv
<1>4. ASSUME NEW c \in Chans, Close(c), NEW u \in Threads
      PROVE  WaitsWell(u)'
  <2>1. WaitsWell(u) /\ op'[u] = op[u]
    BY <1>4, WaitInvByThread DEF Close
  <2>2. signal[u] \/ u \in chan[c].listeners => signal'[u]
    BY <1>4 DEF Close, NotifyListeners, Notify
  <2>3. chan' = [chan EXCEPT ![c] = [chan[c] EXCEPT !.closed = TRUE]] /\ ~Locked(c)
    BY <1>4 DEF Close
  <2>4. /\ \A d \in Chans \ {c} : chan'[d] = chan[d]
        /\ chan'[c].listeners = chan[c].listeners
    BY <1>0, <2>3 DEF ChannelState
  <2> QED  BY <2>1, <2>2, <2>3, <2>4, NotifyingStep
<1>5. ASSUME NEW k \in Tokens, Cancel(k) \/ CancelNotifies(k), NEW u \in Threads
      PROVE  WaitsWell(u)'
  <2>1. WaitsWell(u) /\ op'[u] = op[u] /\ chan' = chan /\ (signal[u] => signal'[u])
    BY <1>5, WaitInvByThread DEF Cancel, RaiseFlag, CancelNotifies, NotifyWatchers, Notify
  <2> QED  BY <2>1, QuietStep
<1>6. \A u \in Threads : WaitsWell(u)'
  BY <1>2, <1>3, <1>4, <1>5 DEF Call
<1> QED  BY <1>6 DEF WaitInv, WaitsWell, WaitersRegistered, ArmedHaveNoWork,
            SleepersHaveNoWork

(* Types: the state of every channel, token and operation stays what the   *)
(* structs of interpreter.rs declare; `blocking_receivers -= 1` never      *)
(* underflows.                                                             *)
THEOREM TypeCorrect == Spec => []TypeOK
<1>1. TypeInv => TypeOK
  BY DEF TypeInv
<1> QED  BY <1>1, TypeInvariant, PTL

(* blocking_receivers counts the announced receivers, whatever they do.    *)
THEOREM ReceiverCountCorrect == Spec => []ReceiverCountExact
<1>1. TypeInv => ReceiverCountExact
  BY DEF TypeInv
<1> QED  BY <1>1, TypeInvariant, PTL

(* send, recv and close lose no wakeup, for any number of threads: reading *)
(* the generation under the mutex, after the look and the registration, is *)
(* enough.                                                                 *)
THEOREM NoLostWakeup == Spec => []SleepersHaveNoWork
<1>1. Init => WaitInv
  BY WaitInit
<1>2. TypeInv /\ WaitInv /\ [Next]_vars => WaitInv'
  <2> SUFFICES ASSUME TypeInv, WaitInv, [Next]_vars PROVE WaitInv'
    OBVIOUS
  <2>1. CASE Call \/ \E k \in Tokens : CancelNotifies(k)
    BY <2>1, WaitCalls
  <2>2. ASSUME NEW t \in Threads, Step(t) PROVE WaitInv'
    BY <2>2, WaitBlocks, WaitMoves, WaitWaits DEF Step, SendStep, RecvStep
  <2>3. CASE UNCHANGED vars
    BY <2>3 DEF vars, WaitInv, WaitersRegistered, ArmedHaveNoWork, SleepersHaveNoWork,
       HasWork, CanSend, HasValue, Rendezvous
  <2> QED  BY <2>1, <2>2, <2>3 DEF Next
<1>3. WaitInv => SleepersHaveNoWork
  BY DEF WaitInv
<1> QED  BY <1>1, <1>2, <1>3, TypeInvariant, PTL DEF Spec

----------------------------------------------------------------------------
(***************************************************************************)
(* The channels keep the promise of ChannelPromise.                        *)
(***************************************************************************)

(* The slot is a channel(0)'s, the buffer any other channel's, and only    *)
(* sends on a channel(0) hold an offer.                                    *)
KindsApart ==
  /\ \A c \in Chans : /\ Rendezvous(c) => chan[c].queue = <<>>
                      /\ ~Rendezvous(c) => chan[c].slot = NoValue
  /\ \A t \in Threads : op[t].kind = "send" /\ op[t].held => Rendezvous(op[t].chan)

(* A receiver was told of the close: nothing is left, nothing will come.   *)
ToldIsTrue == \A c \in Chans : sawClosed[c] => chan[c].closed /\ ~HasValue(c)

PromiseInv == KindsApart /\ ToldIsTrue

LEMMA LineOf ==
  ASSUME TypeInv, KindsApart, NEW c \in Chans
  PROVE  /\ Line(c) \in Seq(Values)
         /\ HasValue(c) <=> Line(c) # <<>>
         /\ HasValue(c) => NextValue(c) = Head(Line(c))
         /\ CanSend(c) => Promise!HasRoom(c)
<1>1. /\ chan[c].queue \in Seq(Values) /\ chan[c].slot \in Values \cup {NoValue}
      /\ Capacity[c] \in Nat \cup {Unbounded} /\ Unbounded \notin Nat
  BY ChannelAssumption DEF TypeInv, TypeOK, ChannelState
<1>2. CASE Rendezvous(c)
  <2>1. chan[c].queue = <<>>
    BY <1>2 DEF KindsApart
  <2> QED  BY <1>1, <1>2, <2>1 DEF Line, HasValue, NextValue, CanSend, Rendezvous, Promise!HasRoom
<1>3. CASE ~Rendezvous(c)
  <2>1. chan[c].slot = NoValue
    BY <1>3 DEF KindsApart
  <2> QED  BY <1>1, <1>3, <2>1 DEF Line, HasValue, NextValue, CanSend, Rendezvous, Promise!HasRoom
<1> QED  BY <1>2, <1>3

----------------------------------------------------------------------------
(* Steps that leave the line, the close and what was taken alone.          *)
SameContents ==
  \A c \in Chans : /\ chan'[c].queue = chan[c].queue
                   /\ chan'[c].slot = chan[c].slot
                   /\ chan'[c].closed = chan[c].closed

Quiet == SameContents /\ taken' = taken /\ sawClosed' = sawClosed

(* What the other steps of a thread do to the channel c it works on.       *)
OnlyChannel(c) ==
  \A d \in Chans \ {c} : /\ chan'[d].queue = chan[d].queue
                         /\ chan'[d].slot = chan[d].slot
                         /\ chan'[d].closed = chan[d].closed

Joined(c) ==
  /\ ~chan[c].closed /\ ~chan'[c].closed /\ CanSend(c)
  /\ \E v \in Values :
       \/ Rendezvous(c) /\ chan'[c].slot = v /\ chan'[c].queue = chan[c].queue
       \/ /\ ~Rendezvous(c) /\ chan'[c].slot = chan[c].slot
          /\ chan'[c].queue = Append(chan[c].queue, v)
  /\ UNCHANGED <<taken, sawClosed>>

Withdrawn(c) ==
  /\ Rendezvous(c)
  /\ chan'[c].slot = NoValue
  /\ chan'[c].queue = chan[c].queue /\ chan'[c].closed = chan[c].closed
  /\ UNCHANGED <<taken, sawClosed>>

Taken(c) ==
  /\ HasValue(c)
  /\ taken' = [taken EXCEPT ![c] = Append(@, NextValue(c))]
  /\ chan'[c].queue = WithoutNext(c).queue /\ chan'[c].slot = WithoutNext(c).slot
  /\ chan'[c].closed = chan[c].closed
  /\ UNCHANGED sawClosed

Told(c) ==
  /\ ~HasValue(c)
  /\ sawClosed' = [sawClosed EXCEPT ![c] = @ \/ chan[c].closed]
  /\ chan'[c].queue = chan[c].queue /\ chan'[c].slot = chan[c].slot
  /\ chan'[c].closed = chan[c].closed
  /\ UNCHANGED taken

Closed(c) ==
  /\ chan'[c].closed = TRUE
  /\ chan'[c].queue = chan[c].queue /\ chan'[c].slot = chan[c].slot
  /\ UNCHANGED <<taken, sawClosed>>

Effect(c) ==
  OnlyChannel(c) /\ (Joined(c) \/ Withdrawn(c) \/ Taken(c) \/ Told(c) \/ Closed(c))

(* An offer is held only on a channel(0).                                  *)
OffersApart ==
  \A t \in Threads : op[t].kind = "send" /\ op[t].held => Rendezvous(op[t].chan)

LEMMA SendEffect ==
  ASSUME TypeInv, KindsApart, NEW t \in Threads, SendStep(t)
  PROVE  (Quiet \/ Effect(op[t].chan)) /\ OffersApart'
<1> DEFINE c == op[t].chan
<1>0. /\ op[t].kind = "send" /\ c \in Chans /\ op[t].val \in Values
  BY DEF SendStep, SendHandedOff, SendGivesUp, SendOffers, SendBuffers, SendBlocks, SendContinues,
     Looks, TypeInv, OperationShape
<1>1. /\ chan \in [Chans -> ChannelState] /\ chan[c] \in ChannelState
      /\ op \in [Threads -> Operation]
  BY <1>0 DEF TypeInv, TypeOK
<1>2. CASE SendHandedOff(t)
  <2>1. Quiet
    BY <1>0, <1>1, <1>2 DEF SendHandedOff, Quiet, SameContents, ChannelState
  <2>2. OffersApart'
    BY <1>1, <1>2 DEF SendHandedOff, Leave, NoOperation, OffersApart, KindsApart, Rendezvous
  <2> QED  BY <2>1, <2>2
<1>3. CASE SendGivesUp(t)
  <2>1. CASE op[t].held
    <3>1. Rendezvous(c)
      BY <1>0, <2>1 DEF KindsApart
    <3>2. chan' = [chan EXCEPT ![c].slot = NoValue, ![c].listeners = @ \ {t}]
      BY <1>3, <2>1 DEF SendGivesUp
    <3>3. Withdrawn(c) /\ OnlyChannel(c)
      <4>1. /\ chan'[c].slot = NoValue /\ chan'[c].queue = chan[c].queue
            /\ chan'[c].closed = chan[c].closed
        BY <1>0, <1>1, <3>2, SMT DEF ChannelState
      <4>2. OnlyChannel(c)
        BY <1>0, <1>1, <3>2 DEF OnlyChannel
      <4> QED  BY <1>3, <3>1, <4>1, <4>2 DEF SendGivesUp, Withdrawn
    <3>4. OffersApart'
      BY <1>1, <1>3 DEF SendGivesUp, Leave, NoOperation, OffersApart, KindsApart, Rendezvous
    <3> QED  BY <3>3, <3>4 DEF Effect
  <2>2. CASE ~op[t].held
    <3>1. chan' = [chan EXCEPT ![c].listeners = @ \ {t}]
      BY <1>3, <2>2 DEF SendGivesUp
    <3>2. Quiet
      BY <1>0, <1>1, <1>3, <3>1 DEF SendGivesUp, Quiet, SameContents, ChannelState
    <3>3. OffersApart'
      BY <1>1, <1>3 DEF SendGivesUp, Leave, NoOperation, OffersApart, KindsApart, Rendezvous
    <3> QED  BY <3>2, <3>3
  <2> QED  BY <2>1, <2>2
<1>4. CASE SendOffers(t)
  <2>1. Joined(c) /\ OnlyChannel(c)
    BY <1>0, <1>1, <1>4 DEF SendOffers, SendContinues, Joined, OnlyChannel, ChannelState
  <2>2. OffersApart'
    BY <1>0, <1>1, <1>4 DEF SendOffers, OffersApart, KindsApart, Rendezvous, Operation
  <2> QED  BY <2>1, <2>2 DEF Effect
<1>5. CASE SendBuffers(t)
  <2>1. Joined(c) /\ OnlyChannel(c)
    BY <1>0, <1>1, <1>5 DEF SendBuffers, SendContinues, Joined, OnlyChannel, ChannelState
  <2>2. OffersApart'
    BY <1>1, <1>5 DEF SendBuffers, Leave, NoOperation, OffersApart, KindsApart, Rendezvous
  <2> QED  BY <2>1, <2>2 DEF Effect
<1>6. CASE SendBlocks(t)
  BY <1>1, <1>6 DEF SendBlocks, PrepareToWait, Quiet, SameContents, OffersApart, KindsApart, Rendezvous,
     Operation
<1> QED  BY <1>2, <1>3, <1>4, <1>5, <1>6 DEF SendStep

LEMMA RecvEffect ==
  ASSUME TypeInv, KindsApart, NEW t \in Threads, RecvStep(t)
  PROVE  (Quiet \/ Effect(op[t].chan)) /\ OffersApart'
<1> DEFINE c == op[t].chan
<1>0. /\ op[t].kind = "recv" /\ c \in Chans
  BY DEF RecvStep, RecvTakes, RecvGivesUp, RecvAnnounces, RecvBlocks, RecvContinues, Looks, TypeInv,
     OperationShape
<1>1. /\ chan \in [Chans -> ChannelState] /\ chan[c] \in ChannelState
      /\ op \in [Threads -> Operation]
  BY <1>0 DEF TypeInv, TypeOK
<1>2. CASE RecvTakes(t)
  <2>1. Taken(c) /\ OnlyChannel(c)
    BY <1>0, <1>1, <1>2 DEF RecvTakes, Taken, OnlyChannel, WithoutNext, ChannelState
  <2>2. OffersApart'
    BY <1>1, <1>2 DEF RecvTakes, Leave, NoOperation, OffersApart, KindsApart, Rendezvous
  <2> QED  BY <2>1, <2>2 DEF Effect
<1>3. CASE RecvGivesUp(t)
  <2>1. Told(c) /\ OnlyChannel(c)
    BY <1>0, <1>1, <1>3 DEF RecvGivesUp, Told, OnlyChannel, ChannelState
  <2>2. OffersApart'
    BY <1>1, <1>3 DEF RecvGivesUp, Leave, NoOperation, OffersApart, KindsApart, Rendezvous
  <2> QED  BY <2>1, <2>2 DEF Effect
<1>4. CASE RecvAnnounces(t)
  BY <1>0, <1>1, <1>4 DEF RecvAnnounces, Quiet, SameContents, ChannelState, OffersApart, KindsApart,
     Rendezvous, Operation
<1>5. CASE RecvBlocks(t)
  BY <1>1, <1>5 DEF RecvBlocks, PrepareToWait, Quiet, SameContents, OffersApart, KindsApart, Rendezvous,
     Operation
<1> QED  BY <1>2, <1>3, <1>4, <1>5 DEF RecvStep

LEMMA WaitEffect ==
  ASSUME TypeInv, KindsApart, NEW t \in Threads, WaitStep(t)
  PROVE  Quiet /\ OffersApart'
<1>1. op \in [Threads -> Operation] /\ chan \in [Chans -> ChannelState]
  BY DEF TypeInv, TypeOK
<1>2. CASE Register(t)
  BY <1>1, <1>2 DEF Register, Quiet, SameContents, ChannelState, OffersApart, KindsApart, Rendezvous,
     Operation
<1>3. CASE Arm(t)
  BY <1>1, <1>3 DEF Arm, Quiet, SameContents, OffersApart, KindsApart, Rendezvous, Operation
<1>4. CASE Wake(t)
  BY <1>1, <1>4 DEF Wake, Quiet, SameContents, OffersApart, KindsApart, Rendezvous, Operation
<1> QED  BY <1>2, <1>3, <1>4 DEF WaitStep

LEMMA CallEffect ==
  ASSUME TypeInv, KindsApart, Call
  PROVE  (Quiet \/ \E c \in Chans : Effect(c)) /\ OffersApart'
<1>1. op \in [Threads -> Operation] /\ chan \in [Chans -> ChannelState]
  BY DEF TypeInv, TypeOK
<1>2. ASSUME NEW c \in Chans, NEW t \in Threads, NEW v \in Values, NEW k \in Tokens \cup {NoToken},
             Send(t, c, v, k)
      PROVE  Quiet /\ OffersApart'
  BY <1>1, <1>2 DEF Send, Quiet, SameContents, OffersApart, KindsApart, Rendezvous, Operation
<1>3. ASSUME NEW c \in Chans, NEW t \in Threads, NEW k \in Tokens \cup {NoToken}, Recv(t, c, k)
      PROVE  Quiet /\ OffersApart'
  BY <1>1, <1>3 DEF Recv, Quiet, SameContents, OffersApart, KindsApart, Rendezvous, Operation
<1>4. ASSUME NEW c \in Chans, Close(c)
      PROVE  Effect(c) /\ OffersApart'
  BY <1>1, <1>4 DEF Close, Effect, OnlyChannel, Closed, ChannelState, OffersApart, KindsApart, Rendezvous
<1>5. ASSUME NEW k \in Tokens, Cancel(k)
      PROVE  Quiet /\ OffersApart'
  BY <1>5 DEF Cancel, Quiet, SameContents, OffersApart, KindsApart, Rendezvous
<1>6. \A c \in Chans : Senders[c] \subseteq Threads /\ Receivers[c] \subseteq Threads
  BY ChannelAssumption
<1> QED  BY <1>2, <1>3, <1>4, <1>5, <1>6 DEF Call

(* Every step either leaves the lines alone or does one thing to one line. *)
LEMMA StepEffect ==
  ASSUME TypeInv, KindsApart, [Next]_vars
  PROVE  (Quiet \/ \E c \in Chans : Effect(c)) /\ OffersApart'
<1>1. CASE Call
  BY <1>1, CallEffect
<1>2. ASSUME NEW t \in Threads, Step(t)
      PROVE  (Quiet \/ \E c \in Chans : Effect(c)) /\ OffersApart'
  <2>1. CASE SendStep(t)
    <3>1. op[t].chan \in Chans
      BY <2>1 DEF SendStep, SendHandedOff, SendGivesUp, SendOffers, SendBuffers, SendBlocks,
         SendContinues, Looks, TypeInv, OperationShape
    <3> QED  BY <2>1, <3>1, SendEffect
  <2>2. CASE RecvStep(t)
    <3>1. op[t].chan \in Chans
      BY <2>2 DEF RecvStep, RecvTakes, RecvGivesUp, RecvAnnounces, RecvBlocks, RecvContinues, Looks,
         TypeInv, OperationShape
    <3> QED  BY <2>2, <3>1, RecvEffect
  <2>3. CASE WaitStep(t)
    BY <2>3, WaitEffect
  <2> QED  BY <1>2, <2>1, <2>2, <2>3 DEF Step
<1>3. ASSUME NEW k \in Tokens, CancelNotifies(k)
      PROVE  Quiet /\ OffersApart'
  BY <1>3 DEF CancelNotifies, Quiet, SameContents, OffersApart, KindsApart, Rendezvous
<1>4. CASE UNCHANGED vars
  BY <1>4 DEF vars, Quiet, SameContents, OffersApart, KindsApart, Rendezvous
<1> QED  BY <1>1, <1>2, <1>3, <1>4 DEF Next

----------------------------------------------------------------------------
LEMMA PromiseInit == Init => PromiseInv /\ Promise!Init
BY DEF Init, PromiseInv, KindsApart, ToldIsTrue, NoOperation, EmptyChannel, Promise!Init, Line

(* One thing done to one line keeps the kinds apart and the reports true.  *)
LEMMA EffectKeeps ==
  ASSUME TypeInv, TypeInv', PromiseInv, NEW c \in Chans, Effect(c), OffersApart'
  PROVE  PromiseInv'
<1>1. /\ chan[c].queue \in Seq(Values) /\ NoValue \notin Values
      /\ sawClosed \in [Chans -> BOOLEAN]
  BY ChannelAssumption DEF TypeInv, TypeOK, ChannelState
<1>2. \A d \in Chans \ {c} : sawClosed'[d] = sawClosed[d]
  BY <1>1 DEF Effect, Joined, Withdrawn, Taken, Told, Closed
<1>3. \A d \in Chans \ {c} :
         /\ Rendezvous(d) => chan'[d].queue = <<>>
         /\ ~Rendezvous(d) => chan'[d].slot = NoValue
         /\ sawClosed'[d] => chan'[d].closed /\ ~HasValue(d)'
  BY <1>2 DEF Effect, OnlyChannel, PromiseInv, KindsApart, ToldIsTrue, HasValue
<1>4. /\ Rendezvous(c) => chan'[c].queue = <<>>
      /\ ~Rendezvous(c) => chan'[c].slot = NoValue
  <2>1. CASE Joined(c) \/ Withdrawn(c) \/ Told(c) \/ Closed(c)
    BY <2>1 DEF PromiseInv, KindsApart, Joined, Withdrawn, Told, Closed
  <2>2. CASE Taken(c)
    BY <1>1, <2>2 DEF PromiseInv, KindsApart, Taken, WithoutNext, HasValue
  <2> QED  BY <2>1, <2>2 DEF Effect
<1>5. sawClosed'[c] => chan'[c].closed /\ ~HasValue(c)'
  <2>1. CASE Joined(c) \/ Taken(c)
    BY <2>1 DEF PromiseInv, ToldIsTrue, Joined, Taken
  <2>2. CASE Withdrawn(c) \/ Closed(c)
    BY <2>2 DEF PromiseInv, ToldIsTrue, Withdrawn, Closed, HasValue
  <2>3. CASE Told(c)
    BY <1>1, <2>3 DEF PromiseInv, ToldIsTrue, Told, HasValue
  <2> QED  BY <2>1, <2>2, <2>3 DEF Effect
<1>6. \A d \in Chans : Rendezvous(d)' = Rendezvous(d)
  BY DEF Rendezvous
<1> QED  BY <1>3, <1>4, <1>5, <1>6 DEF PromiseInv, KindsApart, ToldIsTrue, OffersApart

LEMMA QuietKeeps ==
  ASSUME PromiseInv, Quiet, OffersApart'
  PROVE  PromiseInv' /\ UNCHANGED Promise!vars
<1>1. \A d \in Chans : (Rendezvous(d)' = Rendezvous(d)) /\ (HasValue(d)' = HasValue(d))
                       /\ Line(d)' = Line(d) /\ chan'[d].closed = chan[d].closed
  BY DEF Quiet, SameContents, Rendezvous, HasValue, Line
<1>2. PromiseInv'
  BY <1>1 DEF PromiseInv, KindsApart, ToldIsTrue, OffersApart, Quiet, SameContents
<1>3. UNCHANGED Promise!vars
  BY <1>1 DEF Quiet, Promise!vars
<1> QED  BY <1>2, <1>3

(* ... and is a step of the promise.                                       *)
LEMMA EffectRefines ==
  ASSUME TypeInv, TypeInv', PromiseInv, PromiseInv', NEW c \in Chans, Effect(c)
  PROVE  Promise!Next \/ UNCHANGED Promise!vars
<1> DEFINE line == [d \in Chans |-> Line(d)]
           closed == [d \in Chans |-> chan[d].closed]
           lineNext == [d \in Chans |-> Line(d)']
           closedNext == [d \in Chans |-> chan'[d].closed]
<1>1. /\ chan[c].queue \in Seq(Values) /\ NoValue \notin Values
      /\ chan[c].closed \in BOOLEAN /\ chan'[c].closed \in BOOLEAN
      /\ sawClosed \in [Chans -> BOOLEAN] /\ taken \in [Chans -> Seq(Values)]
      /\ KindsApart
  BY ChannelAssumption DEF TypeInv, TypeOK, ChannelState, PromiseInv
<1>2. \A d \in Chans \ {c} : Line(d)' = Line(d) /\ chan'[d].closed = chan[d].closed
  BY DEF Effect, OnlyChannel, Line
<1>3. CASE Joined(c)
  <2>1. PICK v \in Values : Line(c)' = Append(Line(c), v)
    <3>1. CASE Rendezvous(c)
      <4>1. chan[c].queue = <<>> /\ chan[c].slot = NoValue
        BY ChannelAssumption, <1>1, <1>3, <3>1 DEF Joined, CanSend, KindsApart, Rendezvous
      <4>2. PICK v \in Values : chan'[c].slot = v
        BY <1>3, <3>1 DEF Joined
      <4>3. Line(c) = <<>> /\ Line(c)' = <<v>>
        BY <1>1, <4>1, <4>2 DEF Line
      <4> QED  BY <4>3
    <3>2. CASE ~Rendezvous(c)
      BY <1>1, <1>3, <3>2 DEF Joined, Line, KindsApart
    <3> QED  BY <3>1, <3>2
  <2>2. lineNext = [line EXCEPT ![c] = Append(@, v)] /\ closedNext = closed
    <3>1. chan'[c].closed = chan[c].closed
      BY <1>1, <1>3 DEF Joined
    <3>2. lineNext = [line EXCEPT ![c] = Append(@, v)]
      BY <1>2, <2>1
    <3>3. closedNext = closed
      BY <1>2, <3>1
    <3> QED  BY <3>2, <3>3
  <2>3. Promise!HasRoom(c)
    BY <1>1, <1>3, LineOf DEF Joined
  <2> QED  BY <1>3, <2>2, <2>3 DEF Joined, Promise!Next, Promise!Offer
<1>4. CASE Withdrawn(c)
  <2>1. Line(c)' = <<>>
    BY <1>1, <1>4 DEF Withdrawn, Line, KindsApart
  <2>2. lineNext = [line EXCEPT ![c] = <<>>] /\ closedNext = closed
    BY <1>2, <1>4, <2>1 DEF Withdrawn
  <2> QED  BY <1>4, <2>2 DEF Withdrawn, Promise!Next, Promise!Withdraw, Rendezvous
<1>5. CASE Taken(c)
  <2>1. Line(c) # <<>> /\ NextValue(c) = Head(Line(c))
    BY <1>1, <1>5, LineOf DEF Taken
  <2>2. Line(c)' = Tail(Line(c))
    <3>1. CASE Rendezvous(c)
      <4>1. chan[c].queue = <<>> /\ chan[c].slot # NoValue
        BY <1>1, <1>5, <3>1 DEF KindsApart, Taken, HasValue
      <4>2. chan'[c].queue = <<>> /\ chan'[c].slot = NoValue
        BY <1>1, <1>5, <4>1 DEF Taken, WithoutNext, TypeInv, TypeOK, ChannelState
      <4> QED  BY <4>1, <4>2 DEF Line
    <3>2. CASE ~Rendezvous(c)
      <4>1. chan[c].slot = NoValue /\ chan[c].queue # <<>>
        BY <1>1, <1>5, <3>2 DEF KindsApart, Taken, HasValue
      <4>2. chan'[c].queue = Tail(chan[c].queue) /\ chan'[c].slot = NoValue
        BY <1>1, <1>5, <4>1 DEF Taken, WithoutNext, TypeInv, TypeOK, ChannelState
      <4> QED  BY <4>1, <4>2 DEF Line
    <3> QED  BY <3>1, <3>2
  <2>3. lineNext = [line EXCEPT ![c] = Tail(@)] /\ closedNext = closed
    BY <1>2, <1>5, <2>2 DEF Taken
  <2> QED  BY <1>5, <2>1, <2>3 DEF Taken, Promise!Next, Promise!Take
<1>6. CASE Told(c)
  <2>1. Line(c) = <<>> /\ Line(c)' = Line(c)
    BY <1>1, <1>6, LineOf DEF Told, Line
  <2>2. lineNext = line /\ closedNext = closed
    BY <1>2, <1>6, <2>1 DEF Told
  <2>3. CASE chan[c].closed
    <3>1. sawClosed' = [sawClosed EXCEPT ![c] = TRUE]
      BY <1>6, <2>3 DEF Told
    <3> QED  BY <1>6, <2>1, <2>2, <2>3, <3>1 DEF Told, Promise!Next, Promise!ReportClosed
  <2>4. CASE ~chan[c].closed
    <3>1. sawClosed' = sawClosed
      BY <1>1, <1>6, <2>4 DEF Told
    <3> QED  BY <1>6, <2>2, <3>1 DEF Told, Promise!vars
  <2> QED  BY <2>3, <2>4
<1>7. CASE Closed(c)
  <2>1. Line(c)' = Line(c)
    BY <1>7 DEF Closed, Line
  <2>2. lineNext = line /\ closedNext = [closed EXCEPT ![c] = TRUE]
    BY <1>2, <1>7, <2>1 DEF Closed
  <2> QED  BY <1>7, <2>2 DEF Closed, Promise!Next, Promise!Close
<1> QED  BY <1>3, <1>4, <1>5, <1>6, <1>7 DEF Effect

LEMMA StepRefines ==
  ASSUME TypeInv, TypeInv', PromiseInv, [Next]_vars
  PROVE  PromiseInv' /\ [Promise!Next]_Promise!vars
<1>1. (Quiet \/ \E c \in Chans : Effect(c)) /\ OffersApart'
  BY StepEffect DEF PromiseInv
<1>2. CASE Quiet
  BY <1>1, <1>2, QuietKeeps
<1>3. ASSUME NEW c \in Chans, Effect(c)
      PROVE  PromiseInv' /\ [Promise!Next]_Promise!vars
  <2>1. PromiseInv'
    BY <1>1, <1>3, EffectKeeps
  <2> QED  BY <1>3, <2>1, EffectRefines
<1> QED  BY <1>1, <1>2, <1>3

(* The channels implement the promise: every step of a thread, of a call   *)
(* or of a cancel is one step of it, or none.                              *)
THEOREM KeepsPromise == Spec => PromiseKept
<1>1. Init => PromiseInv /\ Promise!Init
  BY PromiseInit
<1>2. TypeInv /\ TypeInv' /\ PromiseInv /\ [Next]_vars
        => PromiseInv' /\ [Promise!Next]_Promise!vars
  BY StepRefines
<1> QED  BY <1>1, <1>2, TypeInvariant, PTL DEF Spec, PromiseKept, Promise!Spec

(* Nobody receives from a channel after its close was reported: nothing is *)
(* left in the line of such a channel, and nothing joins it.               *)
THEOREM ClosedStaysFinal == Spec => ClosedIsFinal
<1>1. Init => PromiseInv
  BY PromiseInit
<1>2. TypeInv /\ TypeInv' /\ PromiseInv /\ [Next]_vars => PromiseInv'
  BY StepRefines
<1>3. TypeInv /\ PromiseInv /\ [Next]_vars
        => [\A c \in Chans : sawClosed[c] => taken'[c] = taken[c]]_vars
  <2> SUFFICES ASSUME TypeInv, PromiseInv, [Next]_vars, NEW c \in Chans, sawClosed[c]
               PROVE  taken'[c] = taken[c]
    OBVIOUS
  <2>1. ~HasValue(c) /\ taken \in [Chans -> Seq(Values)]
    BY DEF PromiseInv, ToldIsTrue, TypeInv, TypeOK
  <2>2. Quiet \/ \E d \in Chans : Effect(d)
    BY StepEffect DEF PromiseInv
  <2>3. ASSUME NEW d \in Chans, Effect(d), taken' # taken
        PROVE  d # c /\ taken' = [taken EXCEPT ![d] = Append(@, NextValue(d))]
    BY <2>1, <2>3 DEF Effect, Joined, Withdrawn, Taken, Told, Closed
  <2> QED  BY <2>1, <2>2, <2>3 DEF Quiet
<1> QED  BY <1>1, <1>2, <1>3, TypeInvariant, PTL DEF Spec, ClosedIsFinal

----------------------------------------------------------------------------
(***************************************************************************)
(* Values are conserved and sends report the truth.                        *)
(***************************************************************************)

(* A send under way is one the program may make, its value has no fate yet *)
(* and is nobody else's.                                                   *)
SendsApart ==
  /\ \A t \in Threads : op[t].kind = "send" =>
        /\ t \in Senders[op[t].chan]
        /\ outcome[op[t].val] = "sending"
  /\ \A t, u \in Threads :
        op[t].kind = "send" /\ op[u].kind = "send" /\ op[t].val = op[u].val => t = u

OneSender(c) == \A t, u \in Senders[c] : t = u

(* channel(0) with one sender: the slot is that sender's; an offer that is *)
(* not in the slot any more was taken.                                     *)
SlotIsOwn(c) ==
  /\ chan[c].slot # NoValue => Offering(c) # {}
  /\ \A t \in Offering(c) :
       IF chan[c].slot = NoValue THEN op[t].val \in RangeOf(taken[c])
                                 ELSE op[t].val = chan[c].slot
  /\ RangeOf(sent[c]) \subseteq RangeOf(taken[c])

(* A delivered value was reported Ok, or is an offer just taken whose send *)
(* has not looked again.                                                   *)
FateKnown(c) ==
  \A v \in RangeOf(taken[c]) \cup RangeOf(chan[c].queue) :
    \/ outcome[v] = "ok"
    \/ /\ chan[c].slot = NoValue
       /\ \E t \in Offering(c) : op[t].val = v

ValueInv ==
  /\ SendsApart
  /\ ValuesAreConserved
  /\ \A c \in Chans : /\ Rendezvous(c) /\ OneSender(c) => SlotIsOwn(c)
                      /\ ~Rendezvous(c) \/ OneSender(c) => FateKnown(c)

(* What ValueInv says of one channel.                                      *)
Accounted(c) ==
  /\ IF Rendezvous(c) THEN HandOffsBalance(c) ELSE BufferKeepsOrder(c)
  /\ Rendezvous(c) /\ OneSender(c) => SlotIsOwn(c)
  /\ ~Rendezvous(c) \/ OneSender(c) => FateKnown(c)

LEMMA ValueInvByChannel == ValueInv <=> SendsApart /\ \A c \in Chans : Accounted(c)
BY DEF ValueInv, ValuesAreConserved, Accounted

----------------------------------------------------------------------------
(* Facts about sequences and sets that the steps need.                     *)

LEMMA RangeOfAppend ==
  ASSUME NEW s \in Seq(Values), NEW v \in Values
  PROVE  RangeOf(Append(s, v)) = RangeOf(s) \cup {v}
<1>1. /\ Len(Append(s, v)) = Len(s) + 1 /\ Len(s) \in Nat
      /\ DOMAIN s = 1 .. Len(s) /\ DOMAIN Append(s, v) = 1 .. Len(s) + 1
      /\ \A i \in 1 .. Len(s) : Append(s, v)[i] = s[i]
      /\ Append(s, v)[Len(s) + 1] = v
  OBVIOUS
<1>2. 1 .. Len(s) + 1 = (1 .. Len(s)) \cup {Len(s) + 1}
  BY <1>1
<1>3. \A x \in RangeOf(Append(s, v)) : x \in RangeOf(s) \cup {v}
  BY <1>1, <1>2 DEF RangeOf
<1>4. \A x \in RangeOf(s) : x \in RangeOf(Append(s, v))
  <2>1. \A i \in DOMAIN s : i \in DOMAIN Append(s, v) /\ Append(s, v)[i] = s[i]
    BY <1>1, <1>2
  <2> QED  BY <2>1 DEF RangeOf
<1>5. v \in RangeOf(Append(s, v))
  <2>1. Len(s) + 1 \in DOMAIN Append(s, v)
    BY <1>1, <1>2
  <2> QED  BY <1>1, <2>1 DEF RangeOf
<1> QED  BY <1>3, <1>4, <1>5

LEMMA RangeOfConcat ==
  ASSUME NEW s \in Seq(Values), NEW r \in Seq(Values)
  PROVE  RangeOf(s \o r) \subseteq RangeOf(s) \cup RangeOf(r)
<1> SUFFICES ASSUME NEW i \in 1 .. Len(s) + Len(r)
             PROVE  (s \o r)[i] \in RangeOf(s) \cup RangeOf(r)
  BY DEF RangeOf
<1>1. CASE i <= Len(s)
  BY <1>1 DEF RangeOf
<1>2. CASE i > Len(s)
  <2>1. (s \o r)[i] = r[i - Len(s)] /\ i - Len(s) \in 1 .. Len(r)
    BY <1>2
  <2> QED  BY <2>1 DEF RangeOf
<1> QED  BY <1>1, <1>2

LEMMA AppendAfter ==
  ASSUME NEW s \in Seq(Values), NEW r \in Seq(Values), NEW v \in Values
  PROVE  Append(s \o r, v) = s \o Append(r, v)
<1>1. <<v>> \in Seq(Values) /\ s \o r \in Seq(Values)
  OBVIOUS
<1>2. Append(s \o r, v) = (s \o r) \o <<v>> /\ Append(r, v) = r \o <<v>>
  BY <1>1, AppendIsConcat
<1>3. (s \o r) \o <<v>> = s \o (r \o <<v>>)
  BY <1>1, ConcatAssociative
<1> QED  BY <1>2, <1>3

(* The first value of a line goes, the others stay.                        *)
LEMMA HeadAndTail ==
  ASSUME NEW s \in Seq(Values), s # <<>>
  PROVE  /\ Head(s) \in Values /\ Tail(s) \in Seq(Values)
         /\ Len(Tail(s)) = Len(s) - 1
         /\ RangeOf(s) = RangeOf(Tail(s)) \cup {Head(s)}
         /\ \A r \in Seq(Values) : r \o s = Append(r, Head(s)) \o Tail(s)
<1>1. Head(s) \in Values /\ Tail(s) \in Seq(Values) /\ Len(Tail(s)) = Len(s) - 1
  OBVIOUS
<1>2. RangeOf(s) = RangeOf(Tail(s)) \cup {Head(s)}
  <2>1. /\ s[1] = Head(s) /\ DOMAIN s = 1 .. Len(s) /\ Len(s) \in Nat \ {0}
        /\ DOMAIN Tail(s) = 1 .. Len(s) - 1
        /\ \A i \in 1 .. Len(s) - 1 : Tail(s)[i] = s[i + 1]
    OBVIOUS
  <2>2. ASSUME NEW i \in 1 .. Len(s) PROVE s[i] \in RangeOf(Tail(s)) \cup {Head(s)}
    <3>1. CASE i = 1
      BY <2>1, <3>1
    <3>2. CASE i # 1
      <4>1. i - 1 \in 1 .. Len(s) - 1 /\ (i - 1) + 1 = i
        BY <2>1, <3>2
      <4> QED  BY <2>1, <4>1, ZenonT(30) DEF RangeOf
    <3> QED  BY <3>1, <3>2
  <2>3. ASSUME NEW i \in 1 .. Len(s) - 1 PROVE Tail(s)[i] \in RangeOf(s)
    <3>1. i + 1 \in 1 .. Len(s)
      BY <2>1
    <3> QED  BY <2>1, <3>1 DEF RangeOf
  <2>4. Head(s) \in RangeOf(s)
    BY <2>1 DEF RangeOf
  <2> QED  BY <2>1, <2>2, <2>3, <2>4 DEF RangeOf
<1>3. ASSUME NEW r \in Seq(Values) PROVE r \o s = Append(r, Head(s)) \o Tail(s)
  OBVIOUS
<1> QED  BY <1>1, <1>2, <1>3

LEMMA OfferingFinite ==
  ASSUME NEW c \in Chans
  PROVE  IsFiniteSet(Offering(c)) /\ Cardinality(Offering(c)) \in Nat
<1>1. Offering(c) \subseteq Threads /\ IsFiniteSet(Threads)
  BY ChannelAssumption DEF Offering, Sending
<1> QED  BY <1>1, FS_Subset, FS_CardinalityType

LEMMA AtMostOneSender ==
  ASSUME NEW c \in Chans, Cardinality(Senders[c]) <= 1
  PROVE  OneSender(c)
<1>1. IsFiniteSet(Senders[c]) /\ Cardinality(Senders[c]) \in Nat
  BY ChannelAssumption, FS_Subset, FS_CardinalityType
<1>2. CASE Cardinality(Senders[c]) = 0
  BY <1>1, <1>2, FS_EmptySet DEF OneSender
<1>3. CASE Cardinality(Senders[c]) = 1
  BY <1>1, <1>3, FS_Singleton DEF OneSender
<1> QED  BY <1>1, <1>2, <1>3

----------------------------------------------------------------------------
(* What most steps leave alone.                                            *)

SendSame(u) ==
  /\ op'[u].kind = "send" <=> op[u].kind = "send"
  /\ op[u].kind = "send" =>
       op'[u].chan = op[u].chan /\ op'[u].val = op[u].val /\ op'[u].held = op[u].held

ContentsKept(c) ==
  /\ chan'[c].queue = chan[c].queue /\ chan'[c].slot = chan[c].slot
  /\ taken'[c] = taken[c] /\ sent'[c] = sent[c]

OkStays == \A v \in Values : outcome[v] = "ok" => outcome'[v] = "ok"

OffersKept(c) ==
  /\ Offering(c)' = Offering(c)
  /\ \A t \in Offering(c) : op'[t].val = op[t].val

LEMMA AccountKept ==
  ASSUME TypeInv, NEW c \in Chans, Accounted(c), ContentsKept(c), OffersKept(c), OkStays
  PROVE  Accounted(c)'
<1>1. /\ Rendezvous(c)' = Rendezvous(c) /\ OneSender(c)' = OneSender(c)
      /\ RangeOf(taken[c])' = RangeOf(taken[c]) /\ RangeOf(sent[c])' = RangeOf(sent[c])
      /\ RangeOf(chan[c].queue)' = RangeOf(chan[c].queue)
  BY DEF Rendezvous, OneSender, ContentsKept
<1>2. /\ HandOffsBalance(c)' = HandOffsBalance(c)
      /\ BufferKeepsOrder(c)' = BufferKeepsOrder(c)
  BY DEF HandOffsBalance, BufferKeepsOrder, ContentsKept, OffersKept
<1>3. SlotIsOwn(c) => SlotIsOwn(c)'
  BY <1>1 DEF SlotIsOwn, ContentsKept, OffersKept
<1>4. FateKnown(c) => FateKnown(c)'
  <2>1. RangeOf(taken[c]) \subseteq Values /\ RangeOf(chan[c].queue) \subseteq Values
    BY DEF RangeOf, TypeInv, TypeOK, ChannelState
  <2> QED  BY <1>1, <2>1 DEF FateKnown, ContentsKept, OffersKept, OkStays
<1> QED  BY <1>1, <1>2, <1>3, <1>4 DEF Accounted

LEMMA OffersOfOthers ==
  ASSUME NEW t \in Threads, \A u \in Threads \ {t} : SendSame(u), NEW c \in Chans,
         SendSame(t) \/ (t \notin Offering(c) /\ t \notin Offering(c)')
  PROVE  OffersKept(c)
BY DEF OffersKept, Offering, Sending, SendSame

LEMMA ApartKept ==
  ASSUME TypeInv, SendsApart, NEW t \in Threads, \A u \in Threads \ {t} : SendSame(u),
         \/ (SendSame(t) \/ op'[t].kind # "send") /\ outcome' = outcome
         \/ /\ op[t].kind = "send" /\ op'[t].kind # "send"
            /\ \E r \in Outcomes : outcome' = [outcome EXCEPT ![op[t].val] = r]
  PROVE  SendsApart'
<1>1. \A u \in Threads : op[u].kind = "send" => op[u].val \in Values
  BY DEF TypeInv, OperationShape
<1>2. outcome \in [Values -> Outcomes]
  BY DEF TypeInv, TypeOK
<1>3. ASSUME NEW u \in Threads, op'[u].kind = "send"
      PROVE  /\ op[u].kind = "send" /\ op'[u].chan = op[u].chan /\ op'[u].val = op[u].val
             /\ outcome'[op[u].val] = outcome[op[u].val]
  <2>1. op[u].kind = "send" /\ op'[u].chan = op[u].chan /\ op'[u].val = op[u].val
    BY <1>3 DEF SendSame
  <2>2. outcome'[op[u].val] = outcome[op[u].val]
    <3>1. CASE outcome' = outcome
      BY <3>1
    <3>2. CASE /\ op[t].kind = "send" /\ op'[t].kind # "send"
               /\ \E r \in Outcomes : outcome' = [outcome EXCEPT ![op[t].val] = r]
      <4>1. u # t /\ op[u].val # op[t].val
        BY <1>3, <2>1, <3>2 DEF SendsApart
      <4> QED  BY <1>1, <1>2, <2>1, <3>2, <4>1
    <3> QED  BY <3>1, <3>2
  <2> QED  BY <2>1, <2>2
<1> QED  BY <1>3 DEF SendsApart

----------------------------------------------------------------------------
(* Steps that touch no value.                                              *)

ValuesAlone ==
  /\ \A u \in Threads : SendSame(u)
  /\ \A c \in Chans : ContentsKept(c)
  /\ outcome' = outcome

LEMMA AloneKeeps ==
  ASSUME TypeInv, ValueInv, ValuesAlone
  PROVE  ValueInv'
<1>1. SendsApart'
  BY DEF ValueInv, ValuesAlone, SendsApart, SendSame
<1>2. ASSUME NEW c \in Chans PROVE Accounted(c)'
  <2>1. OffersKept(c) /\ OkStays /\ ContentsKept(c) /\ Accounted(c)
    BY ValueInvByChannel DEF ValuesAlone, OffersKept, OkStays, Offering, Sending, SendSame
  <2> QED  BY <2>1, AccountKept
<1> QED  BY <1>1, <1>2 DEF ValueInv, ValuesAreConserved, Accounted

LEMMA AloneSends ==
  ASSUME TypeInv, NEW t \in Threads,
         \/ SendBlocks(t) \/ WaitStep(t)
         \/ RecvGivesUp(t) \/ RecvAnnounces(t) \/ RecvBlocks(t)
  PROVE  ValuesAlone
<1>1. /\ op \in [Threads -> Operation] /\ op[t] \in Operation
      /\ chan \in [Chans -> ChannelState]
  BY DEF TypeInv, TypeOK
<1>2. CASE SendBlocks(t) \/ WaitStep(t) \/ RecvBlocks(t)
  <2>1. PICK pc : op' = [op EXCEPT ![t].pc = pc]
    BY <1>2 DEF SendBlocks, RecvBlocks, PrepareToWait, WaitStep, Register, Arm, Wake
  <2>2. \A u \in Threads : SendSame(u)
    BY <1>1, <2>1 DEF SendSame, Operation
  <2>3. \A c \in Chans : ContentsKept(c)
    <3>1. CASE Register(t)
      BY <1>1, <3>1 DEF Register, ContentsKept, ChannelState
    <3>2. CASE ~Register(t)
      BY <1>2, <3>2 DEF SendBlocks, RecvBlocks, PrepareToWait, WaitStep, Arm, Wake, ContentsKept
    <3> QED  BY <3>1, <3>2
  <2>4. outcome' = outcome
    BY <1>2 DEF SendBlocks, RecvBlocks, PrepareToWait, WaitStep, Register, Arm, Wake
  <2> QED  BY <2>2, <2>3, <2>4 DEF ValuesAlone
<1>3. CASE RecvGivesUp(t)
  <2>1. \A u \in Threads : SendSame(u)
    BY <1>1, <1>3 DEF RecvGivesUp, Looks, Leave, NoOperation, SendSame
  <2>2. \A c \in Chans : ContentsKept(c)
    BY <1>1, <1>3 DEF RecvGivesUp, ContentsKept, ChannelState
  <2> QED  BY <1>3, <2>1, <2>2 DEF RecvGivesUp, ValuesAlone
<1>4. CASE RecvAnnounces(t)
  <2>1. \A u \in Threads : SendSame(u)
    BY <1>1, <1>4 DEF RecvAnnounces, RecvContinues, Looks, SendSame, Operation
  <2>2. \A c \in Chans : ContentsKept(c)
    BY <1>1, <1>4 DEF RecvAnnounces, ContentsKept, ChannelState
  <2> QED  BY <1>4, <2>1, <2>2 DEF RecvAnnounces, ValuesAlone
<1> QED  BY <1>2, <1>3, <1>4

LEMMA AloneCalls ==
  ASSUME TypeInv,
         \/ \E c \in Chans : \E t \in Receivers[c], k \in Tokens \cup {NoToken} : Recv(t, c, k)
         \/ \E c \in Chans : Close(c)
         \/ \E k \in Tokens : Cancel(k) \/ CancelNotifies(k)
         \/ UNCHANGED vars
  PROVE  ValuesAlone
<1>1. op \in [Threads -> Operation] /\ chan \in [Chans -> ChannelState]
  BY DEF TypeInv, TypeOK
<1>2. ASSUME NEW c \in Chans, NEW t \in Receivers[c], NEW k \in Tokens \cup {NoToken},
             Recv(t, c, k)
      PROVE  ValuesAlone
  <2>1. t \in Threads /\ op[t].kind = "none"
    BY <1>2, ChannelAssumption DEF Recv, TypeInv, OperationShape
  <2> QED  BY <1>1, <1>2, <2>1 DEF Recv, ValuesAlone, SendSame, ContentsKept
<1>3. ASSUME NEW c \in Chans, Close(c) PROVE ValuesAlone
  BY <1>1, <1>3 DEF Close, ValuesAlone, SendSame, ContentsKept, ChannelState
<1>4. ASSUME NEW k \in Tokens, Cancel(k) \/ CancelNotifies(k) PROVE ValuesAlone
  BY <1>4 DEF Cancel, CancelNotifies, ValuesAlone, SendSame, ContentsKept
<1>5. CASE UNCHANGED vars
  BY <1>5 DEF vars, ValuesAlone, SendSame, ContentsKept
<1> QED  BY <1>2, <1>3, <1>4, <1>5

----------------------------------------------------------------------------
(* Steps that move a value.                                                *)

(* A call of send: the value was never sent before.                        *)
LEMMA ValueSend ==
  ASSUME TypeInv, ValueInv, NEW c \in Chans, NEW t \in Senders[c], NEW v \in Values,
         NEW k \in Tokens \cup {NoToken}, Send(t, c, v, k)
  PROVE  ValueInv'
<1>1. t \in Threads /\ op[t].kind = "none" /\ op \in [Threads -> Operation]
      /\ outcome \in [Values -> Outcomes] /\ outcome[v] = "unsent"
  BY ChannelAssumption DEF Send, TypeInv, TypeOK, OperationShape
<1>2. \A u \in Threads \ {t} : SendSame(u)
  BY <1>1 DEF Send, SendSame
<1>3. t \notin Offering(c) /\ \A d \in Chans : t \notin Offering(d) /\ t \notin Offering(d)'
  BY <1>1 DEF Send, Offering, Sending
<1>4. OkStays
  BY <1>1 DEF Send, OkStays
<1>5. \A d \in Chans : Accounted(d)'
  BY <1>1, <1>2, <1>3, <1>4, OffersOfOthers, AccountKept, ValueInvByChannel
     DEF Send, ContentsKept
<1>6. \A u \in Threads : op[u].kind = "send" => op[u].val \in Values \ {v}
  BY <1>1 DEF ValueInv, SendsApart, TypeInv, OperationShape
<1>7. SendsApart'
  <2>1. \A u \in Threads \ {t} :
          op'[u].kind = "send" => /\ op[u].kind = "send"
                                  /\ op'[u].chan = op[u].chan /\ op'[u].val = op[u].val
                                  /\ outcome'[op'[u].val] = outcome[op[u].val]
                                  /\ op'[u].val # v
    BY <1>1, <1>2, <1>6 DEF Send, SendSame
  <2>2. op'[t].kind = "send" => op'[t].val = v /\ op'[t].chan = c /\ outcome'[v] = "sending"
    BY <1>1 DEF Send
  <2> QED  BY <2>1, <2>2 DEF ValueInv, SendsApart
<1> QED  BY <1>5, <1>7 DEF ValueInv, ValuesAreConserved, Accounted

(* The send of t returns: its value has a fate, its offer is gone, and the *)
(* other sends are where they were.                                        *)
Returned(t) ==
  /\ op[t].kind = "send" /\ op[t].chan \in Chans /\ op[t].val \in Values
  /\ t \in Senders[op[t].chan] /\ outcome[op[t].val] = "sending"
  /\ \A u \in Threads \ {t} : SendSame(u)
  /\ \A d \in Chans : Offering(d)' = Offering(d) \ {t}
  /\ \A u \in Threads \ {t} : op'[u] = op[u]
  /\ OkStays

LEMMA SendReturns ==
  ASSUME TypeInv, ValueInv, NEW t \in Threads,
         SendHandedOff(t) \/ SendGivesUp(t) \/ SendBuffers(t)
  PROVE  Returned(t) /\ SendsApart'
<1>1. op \in [Threads -> Operation] /\ outcome \in [Values -> Outcomes]
  BY DEF TypeInv, TypeOK
<1>2. op[t].kind = "send" /\ op[t].chan \in Chans /\ op[t].val \in Values
  BY DEF SendHandedOff, SendGivesUp, SendBuffers, SendContinues, Looks, TypeInv, OperationShape
<1>3. t \in Senders[op[t].chan] /\ outcome[op[t].val] = "sending"
  BY <1>2 DEF ValueInv, SendsApart
<1>4. op' = [op EXCEPT ![t] = NoOperation]
  BY DEF SendHandedOff, SendGivesUp, SendBuffers, Leave
<1>5. PICK r \in Outcomes : outcome' = [outcome EXCEPT ![op[t].val] = r]
  BY DEF SendHandedOff, SendGivesUp, SendBuffers, SendReports, Outcomes
<1>6. op'[t].kind # "send" /\ \A u \in Threads \ {t} : op'[u] = op[u]
  BY <1>1, <1>4 DEF NoOperation
<1>7. \A u \in Threads \ {t} : SendSame(u)
  BY <1>6 DEF SendSame
<1>8. \A d \in Chans : Offering(d)' = Offering(d) \ {t}
  BY <1>6 DEF Offering, Sending
<1>9. OkStays
  BY <1>1, <1>2, <1>3, <1>5 DEF OkStays
<1>10. SendsApart'
  BY <1>2, <1>5, <1>6, <1>7, ApartKept DEF ValueInv
<1> QED  BY <1>2, <1>3, <1>6, <1>7, <1>8, <1>9, <1>10 DEF Returned

(* A channel the returning send is not on.                                 *)
LEMMA OtherChannels ==
  ASSUME TypeInv, ValueInv, NEW t \in Threads,
         SendHandedOff(t) \/ SendGivesUp(t) \/ SendBuffers(t),
         NEW d \in Chans, d # op[t].chan
  PROVE  Accounted(d)'
<1>1. ContentsKept(d)
  BY DEF SendHandedOff, SendGivesUp, SendBuffers, ContentsKept, TypeInv, TypeOK
<1>2. Returned(t)
  BY SendReturns
<1>3. t \notin Offering(d) /\ t \notin Offering(d)'
  BY <1>2 DEF Returned, Offering, Sending
<1>4. OffersKept(d)
  BY <1>2, <1>3, OffersOfOthers DEF Returned
<1>5. OkStays
  BY <1>2 DEF Returned
<1> QED  BY <1>1, <1>4, <1>5, AccountKept, ValueInvByChannel

(* The offer of t is gone from the slot: t reports Ok.                     *)
LEMMA ValueHandedOff ==
  ASSUME TypeInv, KindsApart, ValueInv, NEW t \in Threads, SendHandedOff(t)
  PROVE  ValueInv'
<1>r. Returned(t) /\ SendsApart' /\ \A d \in Chans : Accounted(d)
  BY SendReturns, ValueInvByChannel
<1>0. PICK c \in Chans, v \in Values :
        /\ c = op[t].chan /\ v = op[t].val
        /\ Returned(t) /\ SendsApart' /\ \A d \in Chans : Accounted(d)
  BY <1>r DEF Returned
<1>1. /\ c \in Chans /\ v \in Values /\ op[t].kind = "send" /\ op[t].held /\ t \in Offering(c)
      /\ chan[c].slot = NoValue /\ Rendezvous(c) /\ Accounted(c)
  BY <1>0 DEF Returned, SendHandedOff, Offering, Sending, KindsApart
<1>2. /\ chan'[c].queue = chan[c].queue /\ chan'[c].slot = chan[c].slot /\ taken' = taken
      /\ chan[c].queue = <<>>
  BY <1>0, <1>1 DEF SendHandedOff, KindsApart, TypeInv, TypeOK, ChannelState
<1>3. /\ sent[c] \in Seq(Values) /\ taken[c] \in Seq(Values)
      /\ sent'[c] = Append(sent[c], v)
  BY <1>0, <1>1 DEF SendHandedOff, TypeInv, TypeOK
<1>4. outcome'[v] = "ok" /\ outcome \in [Values -> Outcomes]
  BY <1>0, <1>1 DEF SendHandedOff, SendReports, TypeInv, TypeOK
<1>5. HandOffsBalance(c)'
  <2>1. Cardinality(Offering(c) \ {t}) = Cardinality(Offering(c)) - 1
    BY <1>1, OfferingFinite, FS_RemoveElement
  <2>2. Len(sent'[c]) = Len(sent[c]) + 1 /\ Len(sent[c]) \in Nat
    BY <1>3
  <2>3. Offering(c)' = Offering(c) \ {t}
    BY <1>1, <1>0 DEF Returned
  <2>4. Len(sent[c]) + Cardinality(Offering(c)) = Len(taken[c])
    BY <1>1, <1>3 DEF Accounted, HandOffsBalance
  <2>5. Cardinality(Offering(c)) \in Nat /\ Len(taken[c]) \in Nat
    BY <1>1, <1>3, OfferingFinite
  <2>6. Len(sent'[c]) + Cardinality(Offering(c)') = Len(taken'[c])
    BY <1>2, <2>1, <2>2, <2>3, <2>4, <2>5
  <2> QED  BY <1>1, <1>2, <2>5, <2>6 DEF HandOffsBalance
<1>6. OneSender(c) => SlotIsOwn(c)'
  <2>1. RangeOf(sent'[c]) = RangeOf(sent[c]) \cup {v}
    BY <1>1, <1>3, RangeOfAppend
  <2>2. Offering(c)' \subseteq Offering(c) /\ \A u \in Offering(c)' : op'[u].val = op[u].val
    BY <1>0 DEF Returned, Offering, Sending
  <2>3. ASSUME OneSender(c) PROVE SlotIsOwn(c)'
    <3>1. SlotIsOwn(c) /\ v \in RangeOf(taken[c])
      BY <1>0, <1>1, <2>3 DEF Accounted, SlotIsOwn
    <3> QED  BY <1>1, <1>2, <2>1, <2>2, <3>1 DEF SlotIsOwn
  <2> QED  BY <2>3
<1>7. OneSender(c) => FateKnown(c)'
  <2>1. ASSUME OneSender(c), NEW w \in RangeOf(taken[c])
        PROVE  outcome'[w] = "ok" \/ \E u \in Offering(c)' : op'[u].val = w
    <3>1. CASE outcome[w] = "ok"
      BY <1>1, <2>1, <3>1, <1>0 DEF Returned, OkStays, RangeOf, TypeInv, TypeOK
    <3>2. ASSUME NEW u \in Offering(c), op[u].val = w
          PROVE  outcome'[w] = "ok" \/ \E x \in Offering(c)' : op'[x].val = w
      <4>1. CASE u = t
        BY <1>0, <1>4, <3>2, <4>1
      <4>2. CASE u # t
        <5>1. u \in Threads
          BY <3>2 DEF Offering, Sending
        <5>2. u \in Offering(c)' /\ op'[u] = op[u]
          BY <1>0, <3>2, <4>2, <5>1 DEF Returned
        <5> QED  BY <3>2, <5>2
      <4> QED  BY <4>1, <4>2
    <3> QED  BY <1>1, <2>1, <3>1, <3>2 DEF Accounted, FateKnown
  <2>2. RangeOf(chan'[c].queue) = {}
    BY <1>2 DEF RangeOf
  <2> QED  BY <1>1, <1>2, <2>1, <2>2 DEF FateKnown
<1>8. Rendezvous(c)' = Rendezvous(c) /\ OneSender(c)' = OneSender(c)
  BY DEF Rendezvous, OneSender
<1>9. Accounted(c)'
  BY <1>1, <1>5, <1>6, <1>7, <1>8 DEF Accounted
<1>10. \A d \in Chans : Accounted(d)'
  BY <1>0, <1>9, OtherChannels
<1> QED  BY <1>10, <1>0 DEF Returned, ValueInv, ValuesAreConserved, Accounted

(* The send of t gives up.  An offer of its own is still in the slot, so   *)
(* no receiver has its value.                                              *)
LEMMA ValueGivesUp ==
  ASSUME TypeInv, KindsApart, ValueInv, NEW t \in Threads, SendGivesUp(t)
  PROVE  ValueInv'
<1>r. Returned(t) /\ SendsApart' /\ \A d \in Chans : Accounted(d)
  BY SendReturns, ValueInvByChannel
<1>0. PICK c \in Chans, v \in Values :
        /\ c = op[t].chan /\ v = op[t].val
        /\ Returned(t) /\ SendsApart' /\ \A d \in Chans : Accounted(d)
  BY <1>r DEF Returned
<1>1. /\ c \in Chans /\ v \in Values /\ op[t].kind = "send" /\ Accounted(c)
      /\ t \in Senders[c] /\ outcome[v] = "sending"
      /\ ~(op[t].held /\ chan[c].slot = NoValue)
      /\ op[t].held <=> t \in Offering(c)
      /\ op[t].held => Rendezvous(c)
  BY <1>0 DEF Returned, SendGivesUp, Offering, Sending, KindsApart
<1>2. /\ chan'[c].queue = chan[c].queue
      /\ chan'[c].slot = IF op[t].held THEN NoValue ELSE chan[c].slot
      /\ taken' = taken /\ sent' = sent
  <2>1. CASE op[t].held
    <3>1. /\ chan' = [chan EXCEPT ![c].slot = NoValue, ![c].listeners = @ \ {t}]
          /\ UNCHANGED <<sent, taken>>
      BY <1>0, <2>1 DEF SendGivesUp
    <3>2. chan'[c] = [chan[c] EXCEPT !.slot = NoValue, !.listeners = @ \ {t}]
      BY <3>1 DEF TypeInv, TypeOK
    <3> QED  BY <2>1, <3>1, <3>2 DEF TypeInv, TypeOK, ChannelState
  <2>2. CASE ~op[t].held
    <3>1. chan' = [chan EXCEPT ![c].listeners = @ \ {t}] /\ UNCHANGED <<sent, taken>>
      BY <1>0, <2>2 DEF SendGivesUp
    <3> QED  BY <1>0, <2>2, <3>1 DEF TypeInv, TypeOK, ChannelState
  <2> QED  BY <2>1, <2>2
<1>3. Offering(c)' = Offering(c) \ {t} /\ \A u \in Offering(c)' : op'[u].val = op[u].val
  BY <1>1, <1>0 DEF Returned, Offering, Sending
<1>4. CASE ~op[t].held
  <2>1. ContentsKept(c) /\ OffersKept(c)
    BY <1>1, <1>2, <1>3, <1>4 DEF ContentsKept, OffersKept
  <2>2. Accounted(c)'
    BY <1>1, <2>1, <1>0, AccountKept DEF Returned
  <2>3. \A d \in Chans : Accounted(d)'
    BY <1>0, <2>2, OtherChannels
  <2> QED  BY <2>3, <1>0 DEF Returned, ValueInv, ValuesAreConserved, Accounted
<1>5. CASE op[t].held
  <2>1. HandOffsBalance(c)'
    <3>1. Cardinality(Offering(c) \ {t}) = Cardinality(Offering(c)) - 1
      BY <1>1, <1>5, OfferingFinite, FS_RemoveElement
    <3>2. Len(sent[c]) \in Nat /\ Len(taken[c]) \in Nat /\ Cardinality(Offering(c)) \in Nat
      BY <1>1, OfferingFinite DEF TypeInv, TypeOK
    <3>3. /\ Len(sent[c]) + Cardinality(Offering(c)) = Len(taken[c]) + 1
          /\ chan[c].queue = <<>>
      BY <1>1, <1>5 DEF Accounted, HandOffsBalance
    <3>4. Len(sent'[c]) + Cardinality(Offering(c)') = Len(taken'[c]) + 0
      BY <1>2, <1>3, <3>1, <3>2, <3>3
    <3> QED  BY <1>2, <1>5, <3>3, <3>4 DEF HandOffsBalance
  <2>2. OneSender(c) => SlotIsOwn(c)'
    <3>1. OneSender(c) => Offering(c)' = {}
      BY <1>1, <1>3 DEF OneSender, Offering, Sending, ValueInv, SendsApart
    <3>2. OneSender(c) => RangeOf(sent[c]) \subseteq RangeOf(taken[c])
      BY <1>1, <1>5 DEF Accounted, SlotIsOwn
    <3> QED  BY <1>2, <1>5, <3>1, <3>2 DEF SlotIsOwn
  <2>3. OneSender(c) => FateKnown(c)'
    <3>1. ASSUME OneSender(c), NEW w \in RangeOf(taken[c]) \cup RangeOf(chan[c].queue)
          PROVE  outcome'[w] = "ok"
      <4>1. outcome[w] = "ok"
        BY <1>1, <1>5, <3>1 DEF Accounted, FateKnown
      <4>2. w \in Values
        BY <1>1, <3>1 DEF RangeOf, TypeInv, TypeOK, ChannelState
      <4> QED  BY <4>1, <4>2, <1>0 DEF Returned, OkStays
    <3> QED  BY <1>2, <3>1 DEF FateKnown
  <2>4. Accounted(c)'
    BY <1>1, <1>5, <2>1, <2>2, <2>3 DEF Accounted, Rendezvous, OneSender
  <2>5. \A d \in Chans : Accounted(d)'
    BY <1>0, <2>4, OtherChannels
  <2> QED  BY <2>5, <1>0 DEF Returned, ValueInv, ValuesAreConserved, Accounted
<1> QED  BY <1>4, <1>5

(* The value of t goes into the buffer and t reports Ok.                   *)
LEMMA ValueBuffers ==
  ASSUME TypeInv, KindsApart, ValueInv, NEW t \in Threads, SendBuffers(t)
  PROVE  ValueInv'
<1>r. Returned(t) /\ SendsApart' /\ \A d \in Chans : Accounted(d)
  BY SendReturns, ValueInvByChannel
<1>0. PICK c \in Chans, v \in Values :
        /\ c = op[t].chan /\ v = op[t].val
        /\ Returned(t) /\ SendsApart' /\ \A d \in Chans : Accounted(d)
  BY <1>r DEF Returned
<1>1. c \in Chans /\ v \in Values /\ Accounted(c) /\ ~Rendezvous(c) /\ CanSend(c)
  BY <1>0 DEF Returned, SendBuffers
<1>2. /\ chan'[c].queue = Append(chan[c].queue, v) /\ chan'[c].slot = chan[c].slot
      /\ taken' = taken /\ sent'[c] = Append(sent[c], v)
      /\ chan[c].slot = NoValue
  BY <1>0, <1>1, ZenonT(30) DEF SendBuffers, KindsApart, TypeInv, TypeOK, ChannelState
<1>3. /\ chan[c].queue \in Seq(Values) /\ taken[c] \in Seq(Values) /\ sent[c] \in Seq(Values)
      /\ outcome \in [Values -> Outcomes] /\ outcome'[v] = "ok"
      /\ Capacity[c] \in Nat \cup {Unbounded} /\ Unbounded \notin Nat
  BY <1>0, <1>1, ChannelAssumption DEF SendBuffers, SendReports, TypeInv, TypeOK, ChannelState
<1>4. BufferKeepsOrder(c)'
  <2>1. sent[c] = taken[c] \o chan[c].queue
    BY <1>1 DEF Accounted, BufferKeepsOrder
  <2>2. Append(taken[c] \o chan[c].queue, v) = taken[c] \o Append(chan[c].queue, v)
    <3>1. v \in Values /\ taken[c] \in Seq(Values) /\ chan[c].queue \in Seq(Values)
      BY <1>0, <1>3
    <3> QED  BY <3>1, AppendAfter
  <2>3. Capacity[c] # Unbounded => Len(Append(chan[c].queue, v)) <= Capacity[c]
    BY <1>1, <1>3 DEF CanSend
  <2> QED  BY <1>2, <2>1, <2>2, <2>3 DEF BufferKeepsOrder
<1>5. FateKnown(c)'
  <2>1. RangeOf(chan'[c].queue) = RangeOf(chan[c].queue) \cup {v}
    BY <1>1, <1>2, <1>3, RangeOfAppend
  <2>2. ASSUME NEW w \in RangeOf(taken[c]) \cup RangeOf(chan[c].queue)
        PROVE  outcome'[w] = "ok"
    <3>1. Offering(c) = {}
      BY <1>1 DEF Offering, Sending, KindsApart
    <3>2. outcome[w] = "ok"
      BY <1>1, <2>2, <3>1 DEF Accounted, FateKnown
    <3>3. w \in Values
      BY <1>3, <2>2 DEF RangeOf
    <3> QED  BY <3>2, <3>3, <1>0 DEF Returned, OkStays
  <2> QED  BY <1>2, <1>3, <2>1, <2>2 DEF FateKnown
<1>6. Accounted(c)'
  BY <1>1, <1>4, <1>5 DEF Accounted, Rendezvous
<1>7. \A d \in Chans : Accounted(d)'
  BY <1>0, <1>6, OtherChannels
<1> QED  BY <1>7, <1>0 DEF Returned, ValueInv, ValuesAreConserved, Accounted

(* t puts its value into the empty slot of a channel(0).                   *)
LEMMA ValueOffers ==
  ASSUME TypeInv, KindsApart, ValueInv, NEW t \in Threads, SendOffers(t)
  PROVE  ValueInv'
<1>1. PICK c \in Chans, v \in Values :
        /\ c = op[t].chan /\ v = op[t].val /\ op[t].kind = "send" /\ ~op[t].held
        /\ Rendezvous(c) /\ chan[c].slot = NoValue /\ t \in Senders[c]
        /\ \A d \in Chans : Accounted(d)
  <2>1. op[t].kind = "send" /\ op[t].chan \in Chans /\ op[t].val \in Values
    BY DEF SendOffers, SendContinues, Looks, TypeInv, OperationShape
  <2>2. Rendezvous(op[t].chan) /\ chan[op[t].chan].slot = NoValue /\ ~op[t].held
    BY ChannelAssumption DEF SendOffers, CanSend, Rendezvous
  <2> QED  BY <2>1, <2>2, ValueInvByChannel DEF ValueInv, SendsApart
<1>2. /\ op \in [Threads -> Operation] /\ op[t] \in Operation
      /\ chan \in [Chans -> ChannelState]
      /\ NoValue \notin Values
  BY ChannelAssumption DEF TypeInv, TypeOK
<1>3. /\ op' = [op EXCEPT ![t].held = TRUE]
      /\ chan' = [chan EXCEPT ![c].slot = v]
      /\ UNCHANGED <<outcome, sent, taken>>
  BY <1>1 DEF SendOffers
<1>4. /\ chan'[c].slot = v /\ chan'[c].queue = chan[c].queue
      /\ \A d \in Chans \ {c} : ContentsKept(d)
  BY <1>1, <1>2, <1>3 DEF ChannelState, ContentsKept
<1>5. /\ op'[t].kind = "send" /\ op'[t].chan = c /\ op'[t].val = v /\ op'[t].held
      /\ \A u \in Threads \ {t} : op'[u] = op[u]
  BY <1>1, <1>2, <1>3 DEF Operation
<1>6. /\ Offering(c)' = Offering(c) \cup {t} /\ t \notin Offering(c)
      /\ \A d \in Chans \ {c} : OffersKept(d)
  BY <1>1, <1>5 DEF Offering, Sending, OffersKept
<1>7. SendsApart'
  BY <1>1, <1>3, <1>5 DEF ValueInv, SendsApart
<1>8. ASSUME NEW d \in Chans, d # c PROVE Accounted(d)'
  BY <1>1, <1>3, <1>4, <1>6, <1>8, AccountKept DEF OkStays
<1>9. HandOffsBalance(c)'
  <2>1. Cardinality(Offering(c) \cup {t}) = Cardinality(Offering(c)) + 1
    BY <1>1, <1>6, OfferingFinite, FS_AddElement
  <2>2. Len(sent[c]) \in Nat /\ Len(taken[c]) \in Nat /\ Cardinality(Offering(c)) \in Nat
    BY <1>1, OfferingFinite DEF TypeInv, TypeOK
  <2>3. /\ Len(sent[c]) + Cardinality(Offering(c)) = Len(taken[c]) + 0
        /\ chan[c].queue = <<>>
    BY <1>1 DEF Accounted, HandOffsBalance
  <2>4. Len(sent'[c]) + Cardinality(Offering(c)') = Len(taken'[c]) + 1
    BY <1>3, <1>6, <2>1, <2>2, <2>3
  <2> QED  BY <1>2, <1>4, <2>3, <2>4 DEF HandOffsBalance
<1>10. ASSUME OneSender(c) PROVE SlotIsOwn(c)' /\ FateKnown(c)'
  <2>1. Offering(c) = {}
    BY <1>1, <1>6, <1>10 DEF OneSender, Offering, Sending, ValueInv, SendsApart
  <2>2. SlotIsOwn(c) /\ FateKnown(c)
    BY <1>1, <1>10 DEF Accounted
  <2>3. SlotIsOwn(c)'
    BY <1>1, <1>2, <1>3, <1>4, <1>5, <1>6, <2>1, <2>2 DEF SlotIsOwn
  <2>4. FateKnown(c)'
    BY <1>3, <1>4, <2>1, <2>2 DEF FateKnown
  <2> QED  BY <2>3, <2>4
<1>11. Accounted(c)'
  BY <1>1, <1>9, <1>10 DEF Accounted, Rendezvous, OneSender
<1> QED  BY <1>7, <1>8, <1>11 DEF ValueInv, ValuesAreConserved, Accounted

(* A receiver takes the first value of the line.                           *)
LEMMA ValueTakes ==
  ASSUME TypeInv, KindsApart, ValueInv, NEW t \in Threads, RecvTakes(t)
  PROVE  ValueInv'
<1>1. PICK c \in Chans :
        /\ c = op[t].chan /\ op[t].kind = "recv" /\ HasValue(c)
        /\ \A d \in Chans : Accounted(d)
  BY ValueInvByChannel DEF RecvTakes, Looks, TypeInv, OperationShape
<1>2. /\ op \in [Threads -> Operation] /\ chan \in [Chans -> ChannelState]
      /\ taken \in [Chans -> Seq(Values)] /\ sent \in [Chans -> Seq(Values)]
      /\ chan[c].queue \in Seq(Values) /\ chan[c].slot \in Values \cup {NoValue}
      /\ NoValue \notin Values
  BY ChannelAssumption DEF TypeInv, TypeOK, ChannelState
<1>3. /\ op' = [op EXCEPT ![t] = NoOperation]
      /\ taken' = [taken EXCEPT ![c] = Append(@, NextValue(c))]
      /\ chan' = [chan EXCEPT ![c] = [WithoutNext(c) EXCEPT
                                        !.receivers = ReceiversWithout(t),
                                        !.listeners = @ \ {t}]]
      /\ UNCHANGED <<outcome, sent>>
  BY <1>1 DEF RecvTakes, Leave
<1>4. \A u \in Threads : SendSame(u) /\ (op[u].kind = "send" => op'[u] = op[u])
  BY <1>1, <1>2, <1>3 DEF SendSame, NoOperation
<1>5. SendsApart'
  BY <1>3, <1>4 DEF ValueInv, SendsApart, SendSame
<1>6. \A d \in Chans : OffersKept(d)
  BY <1>4 DEF OffersKept, Offering, Sending, SendSame
<1>7. ASSUME NEW d \in Chans, d # c PROVE Accounted(d)'
  <2>1. ContentsKept(d)
    BY <1>1, <1>2, <1>3, <1>7 DEF ContentsKept
  <2> QED  BY <1>1, <1>3, <1>6, <2>1, AccountKept DEF OkStays
<1>8. /\ chan'[c].queue = WithoutNext(c).queue /\ chan'[c].slot = WithoutNext(c).slot
      /\ taken'[c] = Append(taken[c], NextValue(c))
  BY <1>1, <1>2, <1>3 DEF WithoutNext, ChannelState
<1>9. CASE Rendezvous(c)
  <2>1. PICK v \in Values : v = chan[c].slot /\ chan[c].queue = <<>>
    BY <1>1, <1>2, <1>9 DEF HasValue, KindsApart
  <2>2. chan'[c].queue = <<>> /\ chan'[c].slot = NoValue /\ taken'[c] = Append(taken[c], v)
    BY <1>1, <1>2, <1>8, <2>1 DEF WithoutNext, NextValue, ChannelState
  <2>3. RangeOf(taken'[c]) = RangeOf(taken[c]) \cup {v}
    BY <1>1, <1>2, <2>2, RangeOfAppend
  <2>4. HandOffsBalance(c)'
    <3>1. Len(sent[c]) \in Nat /\ Len(taken[c]) \in Nat /\ Cardinality(Offering(c)) \in Nat
      BY <1>1, <1>2, OfferingFinite
    <3>2. Len(taken'[c]) = Len(taken[c]) + 1
      BY <1>1, <1>2, <2>2
    <3>3. Len(sent[c]) + Cardinality(Offering(c)) = Len(taken[c]) + 1
      BY <1>1, <1>2, <1>9, <2>1 DEF Accounted, HandOffsBalance
    <3>4. Len(sent'[c]) + Cardinality(Offering(c)') = Len(taken'[c]) + 0
      BY <1>1, <1>3, <1>6, <3>1, <3>2, <3>3 DEF OffersKept
    <3> QED  BY <2>2, <3>4 DEF HandOffsBalance
  <2>5. ASSUME OneSender(c) PROVE SlotIsOwn(c)' /\ FateKnown(c)'
    <3>1. SlotIsOwn(c) /\ FateKnown(c)
      BY <1>1, <1>9, <2>5 DEF Accounted
    <3>2. /\ Offering(c) # {} /\ Offering(c)' = Offering(c)
          /\ \A u \in Offering(c) : op[u].val = v /\ op'[u].val = v
      BY <1>1, <1>2, <1>6, <2>1, <3>1 DEF SlotIsOwn, OffersKept
    <3>3. SlotIsOwn(c)'
      BY <1>3, <2>2, <2>3, <3>1, <3>2 DEF SlotIsOwn
    <3>4. RangeOf(chan'[c].queue) = {} /\ RangeOf(chan[c].queue) = {}
      BY <2>1, <2>2 DEF RangeOf
    <3>5. FateKnown(c)'
      <4> SUFFICES ASSUME NEW w \in RangeOf(taken'[c]) \cup RangeOf(chan'[c].queue)
                   PROVE  \/ outcome'[w] = "ok"
                          \/ /\ chan'[c].slot = NoValue
                             /\ \E u \in Offering(c)' : op'[u].val = w
        BY DEF FateKnown
      <4>1. w \in RangeOf(taken[c]) \/ w = v
        BY <2>3, <3>4
      <4>2. CASE w \in RangeOf(taken[c])
        <5>1. chan[c].slot # NoValue
          BY <1>2, <2>1
        <5>2. outcome[w] = "ok"
          BY <3>1, <4>2, <5>1 DEF FateKnown
        <5> QED  BY <1>3, <5>2
      <4>3. CASE w = v
        BY <2>2, <3>2, <4>3
      <4> QED  BY <4>1, <4>2, <4>3
    <3> QED  BY <3>3, <3>5
  <2>6. Accounted(c)'
    BY <1>9, <2>4, <2>5 DEF Accounted, Rendezvous, OneSender
  <2> QED  BY <1>5, <1>7, <2>6 DEF ValueInv, ValuesAreConserved, Accounted
<1>10. CASE ~Rendezvous(c)
  <2>1. chan[c].slot = NoValue /\ chan[c].queue # <<>>
    BY <1>1, <1>10 DEF HasValue, KindsApart
  <2>2. /\ chan'[c].queue = Tail(chan[c].queue) /\ chan'[c].slot = NoValue
        /\ taken'[c] = Append(taken[c], Head(chan[c].queue))
    BY <1>1, <1>2, <1>8, <2>1 DEF WithoutNext, NextValue, ChannelState
  <2>3. /\ Head(chan[c].queue) \in Values /\ Tail(chan[c].queue) \in Seq(Values)
        /\ Len(Tail(chan[c].queue)) = Len(chan[c].queue) - 1
        /\ RangeOf(chan[c].queue) = RangeOf(Tail(chan[c].queue)) \cup {Head(chan[c].queue)}
        /\ taken[c] \o chan[c].queue
             = Append(taken[c], Head(chan[c].queue)) \o Tail(chan[c].queue)
    BY <1>1, <1>2, <2>1, HeadAndTail
  <2>4. BufferKeepsOrder(c)'
    <3>1. /\ sent[c] = taken[c] \o chan[c].queue
          /\ Capacity[c] # Unbounded => Len(chan[c].queue) <= Capacity[c]
      BY <1>1, <1>10 DEF Accounted, BufferKeepsOrder
    <3>2. Capacity[c] \in Nat \cup {Unbounded} /\ Len(chan[c].queue) \in Nat
      BY <1>1, <1>2, ChannelAssumption
    <3>3. Capacity[c] # Unbounded => Len(Tail(chan[c].queue)) <= Capacity[c]
      BY <2>3, <3>1, <3>2
    <3> QED  BY <1>3, <2>2, <2>3, <3>1, <3>3 DEF BufferKeepsOrder
  <2>5. FateKnown(c)'
    <3>1. RangeOf(taken'[c]) = RangeOf(taken[c]) \cup {Head(chan[c].queue)}
      <4>1. taken[c] \in Seq(Values)
        BY <1>1, <1>2
      <4> QED  BY <2>2, <2>3, <4>1, RangeOfAppend
    <3>2. RangeOf(taken'[c]) \cup RangeOf(chan'[c].queue)
            = RangeOf(taken[c]) \cup RangeOf(chan[c].queue)
      BY <2>2, <2>3, <3>1
    <3>3. FateKnown(c)
      BY <1>1, <1>10 DEF Accounted
    <3>4. Offering(c)' = Offering(c) /\ \A u \in Offering(c) : op'[u].val = op[u].val
      BY <1>1, <1>6 DEF OffersKept
    <3> QED  BY <1>3, <2>1, <2>2, <3>2, <3>3, <3>4 DEF FateKnown
  <2>6. Accounted(c)'
    BY <1>10, <2>4, <2>5 DEF Accounted, Rendezvous
  <2> QED  BY <1>5, <1>7, <2>6 DEF ValueInv, ValuesAreConserved, Accounted
<1> QED  BY <1>9, <1>10

----------------------------------------------------------------------------
LEMMA ValueInit == Init => ValueInv
<1> SUFFICES ASSUME Init PROVE ValueInv
  OBVIOUS
<1>1. SendsApart
  BY DEF Init, SendsApart, NoOperation
<1>2. ASSUME NEW c \in Chans PROVE Accounted(c)
  <2>1. /\ chan[c].queue = <<>> /\ chan[c].slot = NoValue
        /\ taken[c] = <<>> /\ sent[c] = <<>> /\ Offering(c) = {}
    BY DEF Init, EmptyChannel, NoOperation, Offering, Sending
  <2>2. Cardinality(Offering(c)) = 0
    BY <2>1, FS_EmptySet
  <2>3. HandOffsBalance(c)
    BY <2>1, <2>2 DEF HandOffsBalance
  <2>4. BufferKeepsOrder(c)
    BY <2>1, ChannelAssumption DEF BufferKeepsOrder
  <2>5. RangeOf(<<>>) = {}
    BY DEF RangeOf
  <2>6. SlotIsOwn(c) /\ FateKnown(c)
    BY <2>1, <2>5 DEF SlotIsOwn, FateKnown
  <2> QED  BY <2>3, <2>4, <2>6 DEF Accounted
<1> QED  BY <1>1, <1>2, ValueInvByChannel

LEMMA ValueStep ==
  ASSUME TypeInv, KindsApart, ValueInv, [Next]_vars
  PROVE  ValueInv'
<1>1. ASSUME NEW c \in Chans, NEW t \in Senders[c], NEW v \in Values,
             NEW k \in Tokens \cup {NoToken}, Send(t, c, v, k)
      PROVE  ValueInv'
  BY <1>1, ValueSend
<1>2. CASE \/ \E c \in Chans : \E t \in Receivers[c], k \in Tokens \cup {NoToken} : Recv(t, c, k)
           \/ \E c \in Chans : Close(c)
           \/ \E k \in Tokens : Cancel(k) \/ CancelNotifies(k)
           \/ UNCHANGED vars
  <2>1. ValuesAlone
    BY <1>2, AloneCalls
  <2> QED  BY <2>1, AloneKeeps
<1>3. ASSUME NEW t \in Threads, Step(t) PROVE ValueInv'
  <2>1. CASE SendHandedOff(t)
    BY <2>1, ValueHandedOff
  <2>2. CASE SendGivesUp(t)
    BY <2>2, ValueGivesUp
  <2>3. CASE SendOffers(t)
    BY <2>3, ValueOffers
  <2>4. CASE SendBuffers(t)
    BY <2>4, ValueBuffers
  <2>5. CASE RecvTakes(t)
    BY <2>5, ValueTakes
  <2>6. CASE \/ SendBlocks(t) \/ WaitStep(t)
             \/ RecvGivesUp(t) \/ RecvAnnounces(t) \/ RecvBlocks(t)
    <3>1. ValuesAlone
      BY <2>6, AloneSends
    <3> QED  BY <3>1, AloneKeeps
  <2> QED  BY <1>3, <2>1, <2>2, <2>3, <2>4, <2>5, <2>6 DEF Step, SendStep, RecvStep
<1> QED  BY <1>1, <1>2, <1>3 DEF Next, Call

(* Where each value is, which sends still own theirs and what was reported *)
(* of them fit together after every step.                                  *)
THEOREM ValueInvariant == Spec => []ValueInv
<1>1. Init => ValueInv /\ PromiseInv
  BY ValueInit, PromiseInit
<1>2. TypeInv /\ TypeInv' /\ PromiseInv /\ ValueInv /\ [Next]_vars => ValueInv' /\ PromiseInv'
  <2> SUFFICES ASSUME TypeInv, TypeInv', PromiseInv, ValueInv, [Next]_vars
               PROVE  ValueInv' /\ PromiseInv'
    OBVIOUS
  <2>1. PromiseInv'
    BY StepRefines
  <2>2. ValueInv'
    BY ValueStep DEF PromiseInv
  <2> QED  BY <2>1, <2>2
<1> QED  BY <1>1, <1>2, TypeInvariant, PTL DEF Spec

(* No channel loses, duplicates or reorders a value, overruns its capacity *)
(* or reports more hand-overs than were made, whatever the threads that    *)
(* send, receive, close and cancel do between each other's steps.          *)
THEOREM ValuesConserved == Spec => []ValuesAreConserved
<1>1. ValueInv => ValuesAreConserved
  BY DEF ValueInv
<1> QED  BY <1>1, ValueInvariant, PTL

LEMMA AccountsAreTrue ==
  ASSUME TypeInv, ValueInv, NEW c \in Chans,
         ~Rendezvous(c) \/ Cardinality(Senders[c]) <= 1
  PROVE  ReportsAreTrueOn(c)
<1>1. (~Rendezvous(c) \/ OneSender(c)) /\ Accounted(c)
  BY AtMostOneSender, ValueInvByChannel
<1>2. /\ taken[c] \in Seq(Values) /\ chan[c].queue \in Seq(Values)
  BY DEF TypeInv, TypeOK, ChannelState
<1>3. RangeOf(sent[c]) \subseteq RangeOf(taken[c]) \cup RangeOf(chan[c].queue)
  <2>1. CASE Rendezvous(c)
    BY <1>1, <2>1 DEF Accounted, SlotIsOwn
  <2>2. CASE ~Rendezvous(c)
    <3>1. sent[c] = taken[c] \o chan[c].queue
      BY <1>1, <2>2 DEF Accounted, BufferKeepsOrder
    <3> QED  BY <1>2, <3>1, RangeOfConcat
  <2> QED  BY <2>1, <2>2
<1>4. ASSUME NEW v \in RangeOf(taken[c]) \cup RangeOf(chan[c].queue)
      PROVE  outcome[v] \notin {"closed", "cancelled"}
  <2>1. outcome[v] = "ok" \/ \E t \in Offering(c) : op[t].val = v
    BY <1>1, <1>4 DEF Accounted, FateKnown
  <2>2. \A t \in Offering(c) : outcome[op[t].val] = "sending"
    BY DEF ValueInv, SendsApart, Offering, Sending
  <2> QED  BY <2>1, <2>2
<1> QED  BY <1>3, <1>4 DEF ReportsAreTrueOn

(* What a send reports is what became of its value, on every channel with  *)
(* a buffer and on every channel(0) with a single sender, over all the     *)
(* interleavings of its looks with receivers, close and cancel.            *)
THEOREM ReportsTrue == Spec => []ReportsAreTrue
<1>1. TypeInv /\ ValueInv => ReportsAreTrue
  BY AccountsAreTrue DEF ReportsAreTrue
<1> QED  BY <1>1, TypeInvariant, ValueInvariant, PTL
=============================================================================
