---------------------------- MODULE SelectProofs ----------------------------
(* Proofs that a select of Select is counted as a waiting receiver exactly *)
(* while it holds guards, that it never sleeps past an arm that could win, *)
(* that its steps keep the promise of the channels, and that one arm of it *)
(* takes effect, for any number of threads, channels, tokens and arms.     *)
EXTENDS Select, ChannelProofs

----------------------------------------------------------------------------
(***************************************************************************)
(* Going round the arms.                                                   *)
(***************************************************************************)

LEMMA Remainder ==
  ASSUME NEW n \in Nat \ {0}, NEW x \in Nat
  PROVE  /\ x % n \in 0 .. n - 1
         /\ x < n => x % n = x
         /\ n <= x /\ x < n + n => x % n = x - n
OBVIOUS

(* The arm k steps after s on a round of n arms.                           *)
ArmAfter(s, k, n) == ((s + k) % n) + 1

LEMMA ArmInRange ==
  ASSUME NEW n \in Nat \ {0}, NEW s \in Nat, NEW k \in Nat
  PROVE  ArmAfter(s, k, n) \in 1 .. n
<1>1. s + k \in Nat
  OBVIOUS
<1>2. (s + k) % n \in 0 .. n - 1
  BY <1>1, Remainder
<1> QED  BY <1>2 DEF ArmAfter

(* A full round meets every arm.                                           *)
LEMMA EveryArmMet ==
  ASSUME NEW n \in Nat \ {0}, NEW s \in Nat, s < n, NEW i \in 1 .. n
  PROVE  \E k \in 0 .. n - 1 : ArmAfter(s, k, n) = i
<1>1. CASE s <= i - 1
  <2>1. i - 1 - s \in 0 .. n - 1 /\ s + (i - 1 - s) = i - 1 /\ i - 1 \in Nat /\ i - 1 < n
    BY <1>1
  <2>2. (s + (i - 1 - s)) % n = i - 1
    BY <2>1, Remainder
  <2>3. ArmAfter(s, i - 1 - s, n) = i
    BY <2>2 DEF ArmAfter
  <2> QED  BY <2>1, <2>3
<1>2. CASE s > i - 1
  <2>1. /\ n - s + i - 1 \in 0 .. n - 1 /\ s + (n - s + i - 1) = n + (i - 1)
        /\ n + (i - 1) \in Nat /\ n <= n + (i - 1) /\ n + (i - 1) < n + n
        /\ n + (i - 1) - n = i - 1
    BY <1>2
  <2>2. (n + (i - 1)) % n = i - 1
    <3>1. PICK x \in Nat : x = n + (i - 1) /\ n <= x /\ x < n + n
      BY <2>1
    <3>2. x % n = x - n
      BY <3>1, Remainder
    <3> QED  BY <2>1, <3>1, <3>2
  <2>3. ArmAfter(s, n - s + i - 1, n) = i
    BY <2>1, <2>2 DEF ArmAfter
  <2> QED  BY <2>1, <2>3
<1> QED  BY <1>1, <1>2

----------------------------------------------------------------------------
(***************************************************************************)
(* A select counts as a receiver while it holds guards.                    *)
(***************************************************************************)

(* The arm of the select s that is polled next.                            *)
NextArm(s) == s.arms[ArmAfter(s.start, s.offset, Len(s.arms))]

(* What holds of the select s of a thread whose operation is at opc.       *)
ShapeOf(s, opc) ==
  /\ s.pc \notin {"idle", "body"} => opc = "idle"
  /\ s.pc # "idle" => s.arms # <<>> /\ s.start < Len(s.arms)
  /\ s.pc = "idle" => s.held = {}
  /\ s.pc \in {"poll", "try"} /\ ~s.second => s.held = {}
  /\ s.pc = "try" => NextArm(s).kind = "send"
  /\ s.pc = "guard" => s.next # 0 /\ s.held \subseteq 1 .. s.next - 1
  /\ s.held \subseteq DOMAIN s.arms
  /\ s.over => s.pc = "unguard"

SelectShape == \A t \in Threads : ShapeOf(sel[t], op[t].pc)

(* The guards of s on channel c.                                           *)
Guards(s, c) == {i \in s.held : s.arms[i].chan = c}

GuardsCounted ==
  \A c \in Chans, t \in Threads : waiting[c][t] = Cardinality(Guards(sel[t], c))

SelectTypes ==
  /\ sel \in [Threads -> SelectState]
  /\ waiting \in [Chans -> [Threads -> Nat]]
  /\ rotation \in [Threads -> Nat]
  /\ turn \in [Threads -> Nat]
  /\ won \in [Threads -> Nat]

SelectInv == TypeInv /\ SelectTypes /\ SelectShape /\ GuardsCounted

LEMMA SelectInvInit == SelectInit => SelectInv
<1> SUFFICES ASSUME SelectInit PROVE SelectInv
  OBVIOUS
<1>1. TypeInv
  BY TypeInit DEF SelectInit
<1>2. SelectTypes
  <2>1. NoSelect \in SelectState
    BY DEF NoSelect, SelectState
  <2> QED  BY <2>1 DEF SelectInit, SelectTypes
<1>3. SelectShape
  BY DEF SelectInit, SelectShape, ShapeOf, NoSelect
<1>4. GuardsCounted
  <2> SUFFICES ASSUME NEW c \in Chans, NEW t \in Threads
               PROVE  waiting[c][t] = Cardinality(Guards(sel[t], c))
    BY DEF GuardsCounted
  <2>1. Guards(sel[t], c) = {}
    BY DEF SelectInit, NoSelect, Guards
  <2>2. waiting[c][t] = 0
    BY DEF SelectInit
  <2> QED  BY <2>1, <2>2, FS_EmptySet
<1> QED  BY <1>1, <1>2, <1>3, <1>4 DEF SelectInv

(* The fields of a select, and of an arm.                                  *)
LEMMA SelectFields ==
  ASSUME SelectInv, NEW t \in Threads
  PROVE  /\ sel[t] \in SelectState
         /\ ShapeOf(sel[t], op[t].pc)
         /\ sel[t].arms \in Seq(Arms) /\ Len(sel[t].arms) \in Nat
         /\ sel[t].start \in Nat /\ sel[t].offset \in Nat /\ sel[t].next \in Nat
         /\ sel[t].second \in BOOLEAN /\ sel[t].over \in BOOLEAN
         /\ sel[t].held \in SUBSET Nat
BY DEF SelectInv, SelectTypes, SelectShape, SelectState

LEMMA ArmFields ==
  ASSUME NEW a \in Arms
  PROVE  /\ a.kind \in {"send", "recv"} /\ a.chan \in Chans
         /\ a.tok \in Tokens \cup {NoToken}
         /\ a.kind = "send" => a.val \in Values
BY DEF Arms, SendArm, RecvArm

LEMMA PolledArm ==
  ASSUME SelectInv, NEW t \in Threads, sel[t].pc # "idle"
  PROVE  /\ ArmIndex(t) = ArmAfter(sel[t].start, sel[t].offset, ArmCount(t))
         /\ ArmIndex(t) \in DOMAIN sel[t].arms /\ ArmIndex(t) \in Nat
         /\ Polled(t) = NextArm(sel[t])
         /\ Polled(t) \in Arms /\ Polled(t).chan \in Chans
         /\ Polled(t).tok \in Tokens \cup {NoToken}
         /\ Polled(t).kind = "send" => Polled(t).val \in Values
<1>1. ArmIndex(t) = ArmAfter(sel[t].start, sel[t].offset, ArmCount(t))
  BY DEF ArmIndex, ArmAfter
<1>2. ArmCount(t) \in Nat \ {0}
  BY SelectFields DEF ArmCount, ShapeOf
<1>3. ArmIndex(t) \in 1 .. Len(sel[t].arms)
  BY <1>1, <1>2, SelectFields, ArmInRange DEF ArmCount
<1>4. Polled(t) \in Arms
  BY <1>3, SelectFields DEF Polled
<1>5. Polled(t) = NextArm(sel[t])
  BY <1>1 DEF Polled, NextArm, ArmCount
<1> QED  BY <1>1, <1>3, <1>4, <1>5, SelectFields, ArmFields

LEMMA GuardsFinite ==
  ASSUME SelectInv, NEW t \in Threads, NEW c \in Chans
  PROVE  IsFiniteSet(Guards(sel[t], c)) /\ Cardinality(Guards(sel[t], c)) \in Nat
<1>1. Guards(sel[t], c) \subseteq 1 .. Len(sel[t].arms)
  BY SelectFields DEF Guards, ShapeOf
<1>2. IsFiniteSet(1 .. Len(sel[t].arms))
  <2>1. sel[t].arms \in Seq(Arms)
    BY SelectFields
  <2>2. Len(sel[t].arms) \in Int
    BY <2>1
  <2>3. 1 \in Int
    OBVIOUS
  <2> QED  BY ONLY <2>2, <2>3, FS_Interval
<1> QED  BY <1>1, <1>2, FS_Subset, FS_CardinalityType

----------------------------------------------------------------------------
(* What a step of the select of t does to it and to its guards.            *)
Keeps == op' = op /\ SelectTypes' /\ SelectShape' /\ GuardsCounted'

LEMMA OneSelectChanges ==
  ASSUME SelectInv, NEW t \in Threads, NEW s \in SelectState,
         sel' = [sel EXCEPT ![t] = s], op' = op, ShapeOf(s, op[t].pc),
         waiting' \in [Chans -> [Threads -> Nat]],
         \A c \in Chans : waiting'[c][t] = Cardinality(Guards(s, c)),
         \A c \in Chans : \A u \in Threads \ {t} : waiting'[c][u] = waiting[c][u],
         rotation' \in [Threads -> Nat], turn' \in [Threads -> Nat],
         won' \in [Threads -> Nat]
  PROVE  Keeps
<1>1. sel \in [Threads -> SelectState]
  BY DEF SelectInv, SelectTypes
<1>2. SelectTypes'
  BY <1>1 DEF SelectTypes
<1>3. sel'[t] = s /\ \A u \in Threads \ {t} : sel'[u] = sel[u]
  BY <1>1
<1>4. SelectShape'
  <2> SUFFICES ASSUME NEW u \in Threads PROVE ShapeOf(sel'[u], op'[u].pc)
    BY DEF SelectShape
  <2>1. CASE u = t
    BY <1>3, <2>1
  <2>2. CASE u # t
    <3>1. sel'[u] = sel[u]
      BY <1>3, <2>2
    <3> QED  BY <3>1 DEF SelectInv, SelectShape
  <2> QED  BY <2>1, <2>2
<1>5. GuardsCounted'
  <2> SUFFICES ASSUME NEW c \in Chans, NEW u \in Threads
               PROVE  waiting'[c][u] = Cardinality(Guards(sel'[u], c))
    BY DEF GuardsCounted, Guards
  <2>1. CASE u = t
    BY <1>3, <2>1
  <2>2. CASE u # t
    <3>1. sel'[u] = sel[u]
      BY <1>3, <2>2
    <3> QED  BY <2>2, <3>1 DEF SelectInv, GuardsCounted
  <2> QED  BY <2>1, <2>2
<1> QED  BY <1>2, <1>4, <1>5 DEF Keeps

(* A step that makes and drops no guard.                                   *)
LEMMA GuardsStay ==
  ASSUME SelectInv, NEW t \in Threads, NEW s \in SelectState,
         sel' = [sel EXCEPT ![t] = s], op' = op, ShapeOf(s, op[t].pc),
         \/ s.held = {} /\ sel[t].held = {}
         \/ s.held = sel[t].held /\ s.arms = sel[t].arms,
         waiting' = waiting,
         rotation' \in [Threads -> Nat], turn' \in [Threads -> Nat],
         won' \in [Threads -> Nat]
  PROVE  Keeps
<1>1. \A c \in Chans : Guards(s, c) = Guards(sel[t], c)
  BY DEF Guards
<1>2. \A c \in Chans : waiting'[c][t] = Cardinality(Guards(s, c))
  BY <1>1 DEF SelectInv, GuardsCounted
<1>3. waiting' \in [Chans -> [Threads -> Nat]]
  BY DEF SelectInv, SelectTypes
<1> QED  BY <1>2, <1>3, OneSelectChanges

LEMMA EntersKeeps ==
  ASSUME SelectInv, NEW t \in Threads, EntersSelect(t)
  PROVE  Keeps
<1>1. PICK d \in [arms : Seq(Arms), default : BOOLEAN] :
        d = Selects[t][turn[t]] /\ d.arms # <<>> /\ Len(Selects[t]) \in Nat \ {0}
  <2>1. /\ Selects[t] \in Seq([arms : Seq(Arms), default : BOOLEAN])
        /\ turn[t] \in DOMAIN Selects[t]
    BY SelectAssumption DEF EntersSelect
  <2>2. Len(Selects[t]) \in Nat /\ DOMAIN Selects[t] = 1 .. Len(Selects[t])
    BY <2>1, LenProperties
  <2>3. Selects[t][turn[t]] \in [arms : Seq(Arms), default : BOOLEAN]
    <3>1. PICK S, q, n : /\ S = [arms : Seq(Arms), default : BOOLEAN]
                         /\ q = Selects[t] /\ n = turn[t]
      OBVIOUS
    <3>2. q \in Seq(S) /\ n \in 1 .. Len(q)
      BY <2>1, <2>2, <3>1
    <3>3. q[n] \in S
      BY <3>2, ElementOfSeq
    <3> QED  BY <3>1, <3>3
  <2>4. Selects[t][turn[t]].arms # <<>>
    BY <2>1, SelectAssumption
  <2> QED  BY <2>1, <2>2, <2>3, <2>4
<1>2. Len(d.arms) \in Nat \ {0} /\ rotation[t] \in Nat /\ Rotations[t] \in Nat \ {0}
      /\ rotation[t] + 1 \in Nat /\ turn[t] \in Nat
  BY <1>1, SelectAssumption DEF SelectInv, SelectTypes
<1>3. PICK start \in Nat : start = rotation[t] % Len(d.arms) /\ start < Len(d.arms)
  <2>1. rotation[t] % Len(d.arms) \in 0 .. Len(d.arms) - 1
    BY <1>2, Remainder
  <2> QED  BY <1>2, <2>1
<1>4. PICK s : s = [NoSelect EXCEPT !.pc = "poll", !.arms = d.arms, !.default = d.default,
                                    !.start = start]
  OBVIOUS
<1>5. s \in SelectState
  BY <1>1, <1>3, <1>4 DEF NoSelect, SelectState
<1>6. sel' = [sel EXCEPT ![t] = s] /\ op' = op /\ waiting' = waiting /\ won' = won
  BY <1>1, <1>3, <1>4 DEF EntersSelect
<1>7. ShapeOf(s, op[t].pc) /\ s.held = {}
  BY <1>1, <1>3, <1>4 DEF EntersSelect, ShapeOf, NoSelect
<1>8. sel[t].held = {}
  BY SelectFields DEF EntersSelect, ShapeOf
<1>9. rotation' \in [Threads -> Nat]
  <2>1. (rotation[t] + 1) % Rotations[t] \in 0 .. Rotations[t] - 1
    BY <1>2, Remainder
  <2> QED  BY <2>1 DEF EntersSelect, NextStart, SelectInv, SelectTypes
<1>10. turn' \in [Threads -> Nat]
  <2>1. turn[t] % Len(Selects[t]) \in 0 .. Len(Selects[t]) - 1
    BY <1>1, <1>2, Remainder
  <2>2. (turn[t] % Len(Selects[t])) + 1 \in Nat
    BY <2>1
  <2> QED  BY <2>2 DEF EntersSelect, SelectInv, SelectTypes
<1>11. won' \in [Threads -> Nat]
  BY <1>6 DEF SelectInv, SelectTypes
<1> QED  BY <1>5, <1>6, <1>7, <1>8, <1>9, <1>10, <1>11, GuardsStay

LEMMA WinsKeeps ==
  ASSUME SelectInv, NEW t \in Threads, sel[t].pc \in {"poll", "try"},
         NEW state, NEW owners, Wins(t, state, owners)
  PROVE  Keeps
<1>0. /\ sel[t] \in SelectState /\ ShapeOf(sel[t], op[t].pc) /\ sel[t].over \in BOOLEAN
  BY SelectFields
<1>1. won' \in [Threads -> Nat]
  <2>1. ArmIndex(t) \in Nat
    BY PolledArm
  <2> QED  BY <2>1 DEF Wins, SelectInv, SelectTypes
<1>2. /\ op' = op /\ waiting' = waiting /\ rotation' \in [Threads -> Nat]
      /\ turn' \in [Threads -> Nat]
  BY DEF Wins, SelectInv, SelectTypes
<1>3. CASE sel[t].held = {}
  <2>1. sel' = [sel EXCEPT ![t] = NoSelect]
    BY <1>3 DEF Wins
  <2>2. NoSelect \in SelectState /\ ShapeOf(NoSelect, op[t].pc) /\ NoSelect.held = {}
    BY DEF NoSelect, SelectState, ShapeOf
  <2> QED  BY <1>1, <1>2, <1>3, <2>1, <2>2, GuardsStay
<1>4. CASE sel[t].held # {}
  <2>1. PICK s : s = [sel[t] EXCEPT !.pc = "body"]
    OBVIOUS
  <2>2. sel' = [sel EXCEPT ![t] = s]
    BY <1>4, <2>1 DEF Wins
  <2>3. /\ s \in SelectState /\ s.held = sel[t].held /\ s.arms = sel[t].arms
        /\ s.pc = "body" /\ s.start = sel[t].start /\ s.over = sel[t].over
    BY <1>0, <2>1 DEF SelectState
  <2>4. ShapeOf(s, op[t].pc)
    BY <1>0, <2>3 DEF ShapeOf
  <2> QED  BY <1>1, <1>2, <2>2, <2>3, <2>4, GuardsStay
<1> QED  BY <1>3, <1>4

LEMMA PollKeeps ==
  ASSUME SelectInv, NEW t \in Threads,
         \/ RecvArmTakes(t) \/ RecvArmFails(t) \/ RecvArmMisses(t)
         \/ SendArmIsCancelled(t) \/ SendArmIsLive(t) \/ SendArmIsClosed(t)
         \/ SendArmSends(t) \/ SendArmMisses(t)
  PROVE  Keeps
<1>0. /\ sel[t] \in SelectState /\ ShapeOf(sel[t], op[t].pc) /\ sel[t].pc \in {"poll", "try"}
      /\ sel[t].offset \in Nat /\ sel[t].over \in BOOLEAN
  BY SelectFields DEF RecvArmTakes, RecvArmFails, RecvArmMisses, SendArmIsCancelled,
     SendArmIsLive, SendArmIsClosed, SendArmSends, SendArmMisses, Polls
<1>1. CASE \/ RecvArmTakes(t) \/ RecvArmFails(t) \/ SendArmIsCancelled(t)
           \/ SendArmIsClosed(t) \/ SendArmSends(t)
  <2>1. \E state, owners : Wins(t, state, owners)
    BY <1>1 DEF RecvArmTakes, RecvArmFails, SendArmIsCancelled, SendArmIsClosed, SendArmSends
  <2> QED  BY <1>0, <2>1, WinsKeeps
<1>2. CASE RecvArmMisses(t) \/ SendArmMisses(t) \/ SendArmIsLive(t)
  <2>1. PICK s : /\ sel' = [sel EXCEPT ![t] = s]
                 /\ \/ s = [sel[t] EXCEPT !.offset = sel[t].offset + 1, !.pc = "poll"]
                    \/ s = [sel[t] EXCEPT !.pc = "try"]
    BY <1>2 DEF RecvArmMisses, SendArmMisses, SendArmIsLive, Misses, SelectInv, SelectTypes
  <2>2. /\ s \in SelectState /\ s.held = sel[t].held /\ s.arms = sel[t].arms
        /\ s.pc \in {"poll", "try"} /\ s.start = sel[t].start /\ s.over = sel[t].over
        /\ s.second = sel[t].second
    <3>1. CASE s = [sel[t] EXCEPT !.pc = "try"]
      BY <1>0, <3>1 DEF SelectState
    <3>2. CASE s = [sel[t] EXCEPT !.offset = sel[t].offset + 1, !.pc = "poll"]
      <4>1. sel[t].offset + 1 \in Nat
        BY <1>0
      <4> QED  BY <1>0, <3>2, <4>1 DEF SelectState
    <3> QED  BY <2>1, <3>1, <3>2
  <2>3. s.pc = "try" => NextArm(s).kind = "send"
    <3>1. CASE SendArmIsLive(t)
      <4>1. s = [sel[t] EXCEPT !.pc = "try"] /\ Polled(t).kind = "send"
        BY <1>0, <2>1, <3>1 DEF SendArmIsLive, Polls, SelectInv, SelectTypes
      <4>2. s.arms = sel[t].arms /\ s.start = sel[t].start /\ s.offset = sel[t].offset
        BY <1>0, <4>1 DEF SelectState
      <4> QED  BY <1>0, <4>1, <4>2, PolledArm DEF NextArm
    <3>2. CASE ~SendArmIsLive(t)
      <4>1. sel' = [sel EXCEPT ![t].offset = @ + 1, ![t].pc = "poll"]
        BY <1>2, <3>2 DEF RecvArmMisses, SendArmMisses, Misses
      <4>2. sel'[t].pc = "poll" /\ sel'[t] = s
        BY <1>0, <2>1, <4>1 DEF SelectState, SelectInv, SelectTypes
      <4> QED  BY <4>2
    <3> QED  BY <3>1, <3>2
  <2>6. ShapeOf(s, op[t].pc)
    BY <1>0, <2>2, <2>3 DEF ShapeOf
  <2>4. UNCHANGED <<op, waiting, rotation, turn, won>>
    BY <1>2 DEF RecvArmMisses, SendArmMisses, SendArmIsLive, Misses, vars
  <2>5. /\ rotation' \in [Threads -> Nat] /\ turn' \in [Threads -> Nat]
        /\ won' \in [Threads -> Nat]
    BY <2>4 DEF SelectInv, SelectTypes
  <2> QED  BY <2>1, <2>2, <2>4, <2>5, <2>6, GuardsStay
<1> QED  BY <1>1, <1>2

LEMMA PauseKeeps ==
  ASSUME SelectInv, NEW t \in Threads,
         \/ TakesDefault(t) \/ BeginsWait(t) \/ ReadsGeneration(t) \/ FallsAsleep(t)
         \/ WakesUp(t) \/ StartsOver(t) \/ BodyEnds(t)
  PROVE  Keeps
<1>0. /\ sel[t] \in SelectState /\ ShapeOf(sel[t], op[t].pc)
      /\ sel[t].start \in Nat /\ sel[t].second \in BOOLEAN /\ sel[t].over \in BOOLEAN
      /\ sel[t].arms \in Seq(Arms) /\ Len(sel[t].arms) \in Nat
      /\ sel \in [Threads -> SelectState]
  BY SelectFields DEF SelectInv, SelectTypes
<1>1. /\ UNCHANGED <<op, waiting, rotation, turn>>
      /\ won' = won \/ won' = [won EXCEPT ![t] = 0]
  BY DEF TakesDefault, BeginsWait, ReadsGeneration, FallsAsleep, WakesUp, StartsOver, BodyEnds,
     vars
<1>2. /\ rotation' \in [Threads -> Nat] /\ turn' \in [Threads -> Nat]
      /\ won' \in [Threads -> Nat]
  BY <1>1 DEF SelectInv, SelectTypes
<1>3. ASSUME NEW s, sel' = [sel EXCEPT ![t] = s], s \in SelectState, ShapeOf(s, op[t].pc),
             s.held = sel[t].held, s.arms = sel[t].arms
      PROVE  Keeps
  BY <1>1, <1>2, <1>3, GuardsStay
<1>4. CASE TakesDefault(t) \/ (StartsOver(t) /\ sel[t].over)
  <2>1. sel' = [sel EXCEPT ![t] = NoSelect] /\ sel[t].held = {}
    BY <1>0, <1>4 DEF TakesDefault, StartsOver, PolledAll, ShapeOf
  <2>2. NoSelect \in SelectState /\ ShapeOf(NoSelect, op[t].pc) /\ NoSelect.held = {}
    BY DEF NoSelect, SelectState, ShapeOf
  <2> QED  BY <1>1, <1>2, <2>1, <2>2, GuardsStay
<1>5. CASE BeginsWait(t)
  <2>1. PICK s : s = [sel[t] EXCEPT !.pc = "guard", !.next = 1]
    OBVIOUS
  <2>2. sel' = [sel EXCEPT ![t] = s]
    BY <1>0, <1>5, <2>1 DEF BeginsWait
  <2>3. /\ s \in SelectState /\ s.held = sel[t].held /\ s.arms = sel[t].arms
        /\ s.pc = "guard" /\ s.start = sel[t].start /\ s.over = sel[t].over /\ s.next = 1
    BY <1>0, <2>1 DEF SelectState
  <2>4. sel[t].pc = "poll" /\ ~sel[t].second
    BY <1>5 DEF BeginsWait, PolledAll
  <2>5. ShapeOf(s, op[t].pc)
    BY <1>0, <2>3, <2>4 DEF ShapeOf
  <2> QED  BY <1>3, <2>2, <2>3, <2>5
<1>6. CASE ReadsGeneration(t) \/ (StartsOver(t) /\ ~sel[t].over)
  <2>1. PICK b \in BOOLEAN : /\ sel' = [sel EXCEPT ![t].pc = "poll", ![t].offset = 0, ![t].second = b]
                             /\ ~b => sel[t].held = {}
                             /\ sel[t].pc \in {"guard", "unguard"} /\ ~sel[t].over
    <3>1. CASE ReadsGeneration(t)
      BY <1>0, <3>1 DEF ReadsGeneration, ShapeOf
    <3>2. CASE StartsOver(t) /\ ~sel[t].over
      <4>1. sel' = [sel EXCEPT ![t] = [sel[t] EXCEPT !.pc = "poll", !.offset = 0, !.second = FALSE]]
        BY <3>2 DEF StartsOver
      <4> QED  BY <1>0, <3>2, <4>1 DEF StartsOver
    <3> QED  BY <1>6, <3>1, <3>2
  <2>2. PICK s : s = [sel[t] EXCEPT !.pc = "poll", !.offset = 0, !.second = b]
    OBVIOUS
  <2>3. sel' = [sel EXCEPT ![t] = s]
    BY <1>0, <2>1, <2>2
  <2>4. /\ s \in SelectState /\ s.held = sel[t].held /\ s.arms = sel[t].arms
        /\ s.pc = "poll" /\ s.start = sel[t].start /\ s.over = sel[t].over /\ s.second = b
    BY <1>0, <2>2 DEF SelectState
  <2>5. ShapeOf(s, op[t].pc)
    BY <1>0, <2>1, <2>4 DEF ShapeOf
  <2> QED  BY <1>3, <2>3, <2>4, <2>5
<1>7. CASE FallsAsleep(t)
  <2>1. PICK x \in Nat : x = (sel[t].start + 1) % Len(sel[t].arms) /\ x < Len(sel[t].arms)
    <3>1. sel[t].arms # <<>>
      BY <1>0, <1>7 DEF FallsAsleep, PolledAll, ShapeOf
    <3>2. Len(sel[t].arms) \in Nat \ {0} /\ sel[t].start + 1 \in Nat
      BY <1>0, <3>1
    <3>3. (sel[t].start + 1) % Len(sel[t].arms) \in 0 .. Len(sel[t].arms) - 1
      BY <3>2, Remainder
    <3> QED  BY <3>2, <3>3
  <2>2. PICK s : s = [sel[t] EXCEPT !.pc = "asleep", !.start = x]
    OBVIOUS
  <2>3. sel' = [sel EXCEPT ![t] = s]
    BY <1>0, <1>7, <2>1, <2>2 DEF FallsAsleep, ArmCount
  <2>4. /\ s \in SelectState /\ s.held = sel[t].held /\ s.arms = sel[t].arms
        /\ s.pc = "asleep" /\ s.start = x /\ s.over = sel[t].over
    BY <1>0, <2>1, <2>2 DEF SelectState
  <2>5. ShapeOf(s, op[t].pc)
    BY <1>0, <1>7, <2>1, <2>4 DEF ShapeOf, FallsAsleep, PolledAll
  <2> QED  BY <1>3, <2>3, <2>4, <2>5
<1>8. CASE WakesUp(t) \/ BodyEnds(t)
  <2>1. PICK b \in BOOLEAN : sel' = [sel EXCEPT ![t].pc = "unguard", ![t].over = b]
    <3>1. CASE BodyEnds(t)
      BY <3>1 DEF BodyEnds
    <3>2. CASE WakesUp(t)
      <4>1. sel' = [sel EXCEPT ![t].pc = "unguard"]
        BY <3>2 DEF WakesUp
      <4>2. [sel EXCEPT ![t].pc = "unguard"]
              = [sel EXCEPT ![t].pc = "unguard", ![t].over = sel[t].over]
        BY <1>0 DEF SelectState
      <4> QED  BY <1>0, <4>1, <4>2
    <3> QED  BY <1>8, <3>1, <3>2
  <2>2. PICK s : s = [sel[t] EXCEPT !.pc = "unguard", !.over = b]
    OBVIOUS
  <2>3. sel' = [sel EXCEPT ![t] = s]
    BY <1>0, <2>1, <2>2
  <2>4. /\ s \in SelectState /\ s.held = sel[t].held /\ s.arms = sel[t].arms
        /\ s.pc = "unguard" /\ s.start = sel[t].start
    BY <1>0, <2>2 DEF SelectState
  <2>5. sel[t].pc # "idle" /\ op[t].pc = "idle"
    BY <1>0, <1>8 DEF WakesUp, BodyEnds, ShapeOf
  <2>6. ShapeOf(s, op[t].pc)
    BY <1>0, <2>4, <2>5 DEF ShapeOf
  <2> QED  BY <1>3, <2>3, <2>4, <2>6
<1> QED  BY <1>0, <1>4, <1>5, <1>6, <1>7, <1>8

(* A guard is made ...                                                     *)
LEMMA MakesKeeps ==
  ASSUME SelectInv, NEW t \in Threads, MakesGuard(t)
  PROVE  Keeps
<1>0. /\ sel[t] \in SelectState /\ ShapeOf(sel[t], op[t].pc)
      /\ sel[t].arms \in Seq(Arms) /\ Len(sel[t].arms) \in Nat
      /\ sel[t].next \in Nat /\ sel[t].held \in SUBSET Nat
      /\ sel \in [Threads -> SelectState]
      /\ waiting \in [Chans -> [Threads -> Nat]]
  BY SelectFields DEF SelectInv, SelectTypes
<1>1. PICK i \in Nat : /\ i = sel[t].next /\ i <= Len(sel[t].arms) /\ sel[t].pc = "guard"
                       /\ i + 1 \in Nat
  BY <1>0 DEF MakesGuard, ArmCount
<1>2. UNCHANGED <<op, rotation, turn, won>>
  BY DEF MakesGuard
<1>3. /\ rotation' \in [Threads -> Nat] /\ turn' \in [Threads -> Nat]
      /\ won' \in [Threads -> Nat]
  BY <1>2 DEF SelectInv, SelectTypes
<1>4. CASE ~Guarded(t, i)
  <2>1. PICK s : s = [sel[t] EXCEPT !.next = i + 1]
    OBVIOUS
  <2>2. sel' = [sel EXCEPT ![t] = s] /\ waiting' = waiting
    BY <1>1, <1>4, <2>1 DEF MakesGuard
  <2>3. /\ s \in SelectState /\ s.held = sel[t].held /\ s.arms = sel[t].arms /\ s.next = i + 1
        /\ s.pc = "guard" /\ s.start = sel[t].start /\ s.over = sel[t].over
    BY <1>0, <1>1, <2>1 DEF SelectState
  <2>4. s.held \subseteq 1 .. s.next - 1
    BY <1>0, <1>1, <2>3 DEF ShapeOf
  <2>5. ShapeOf(s, op[t].pc)
    BY <1>0, <1>1, <2>3, <2>4 DEF ShapeOf
  <2> QED  BY <1>2, <1>3, <2>2, <2>3, <2>5, GuardsStay
<1>5. CASE Guarded(t, i)
  <2>0. i \in DOMAIN sel[t].arms /\ i \in 1 .. Len(sel[t].arms)
    BY <1>0, <1>1 DEF ShapeOf
  <2>1. PICK c \in Chans : c = sel[t].arms[i].chan
    <3>1. sel[t].arms[i] \in Arms
      BY <1>0, <2>0
    <3> QED  BY <3>1, ArmFields
  <2>2. PICK s : s = [sel[t] EXCEPT !.next = i + 1, !.held = @ \cup {i}]
    OBVIOUS
  <2>3. sel' = [sel EXCEPT ![t] = s] /\ waiting' = [waiting EXCEPT ![c][t] = @ + 1]
    BY <1>0, <1>1, <1>5, <2>1, <2>2 DEF MakesGuard
  <2>4. /\ s \in SelectState /\ s.held = sel[t].held \cup {i} /\ s.arms = sel[t].arms
        /\ s.next = i + 1 /\ s.pc = "guard" /\ s.start = sel[t].start /\ s.over = sel[t].over
    BY <1>0, <1>1, <2>2 DEF SelectState
  <2>5. i \notin sel[t].held
    BY <1>0, <1>1 DEF ShapeOf
  <2>6. s.held \subseteq 1 .. s.next - 1
    BY <1>0, <1>1, <2>0, <2>4 DEF ShapeOf
  <2>7. ShapeOf(s, op[t].pc)
    BY <1>0, <1>1, <2>0, <2>4, <2>6 DEF ShapeOf
  <2>8. ASSUME NEW d \in Chans PROVE waiting'[d][t] = Cardinality(Guards(s, d))
    <3>1. /\ waiting[d][t] = Cardinality(Guards(sel[t], d))
          /\ IsFiniteSet(Guards(sel[t], d)) /\ Cardinality(Guards(sel[t], d)) \in Nat
      BY GuardsFinite DEF SelectInv, GuardsCounted
    <3>2. CASE d = c
      <4>1. Guards(s, d) = Guards(sel[t], d) \cup {i} /\ i \notin Guards(sel[t], d)
        BY <2>1, <2>4, <2>5, <3>2 DEF Guards
      <4>2. Cardinality(Guards(s, d)) = Cardinality(Guards(sel[t], d)) + 1
        BY <3>1, <4>1, FS_AddElement
      <4>3. waiting'[d][t] = waiting[d][t] + 1
        BY <1>0, <2>3, <3>2
      <4> QED  BY <3>1, <4>2, <4>3
    <3>3. CASE d # c
      <4>1. Guards(s, d) = Guards(sel[t], d)
        BY <2>1, <2>4, <3>3 DEF Guards
      <4>2. waiting'[d] = waiting[d]
        BY <1>0, <2>3, <3>3
      <4> QED  BY <3>1, <4>1, <4>2
    <3> QED  BY <3>2, <3>3
  <2>9. /\ waiting' \in [Chans -> [Threads -> Nat]]
        /\ \A d \in Chans : \A u \in Threads \ {t} : waiting'[d][u] = waiting[d][u]
    BY <1>0, <2>3
  <2>10. /\ s \in SelectState /\ sel' = [sel EXCEPT ![t] = s] /\ op' = op
         /\ rotation' \in [Threads -> Nat] /\ turn' \in [Threads -> Nat]
         /\ won' \in [Threads -> Nat]
    BY <1>2, <1>3, <2>3, <2>4
  <2> QED  BY <2>7, <2>8, <2>9, <2>10, OneSelectChanges
<1> QED  BY <1>4, <1>5

(* ... and dropped.                                                        *)
LEMMA DropsKeeps ==
  ASSUME SelectInv, NEW t \in Threads, DropsGuard(t)
  PROVE  Keeps
<1>0. /\ sel[t] \in SelectState /\ ShapeOf(sel[t], op[t].pc)
      /\ sel[t].arms \in Seq(Arms) /\ Len(sel[t].arms) \in Nat
      /\ sel[t].held \in SUBSET Nat
      /\ sel \in [Threads -> SelectState]
      /\ waiting \in [Chans -> [Threads -> Nat]]
  BY SelectFields DEF SelectInv, SelectTypes
<1>a. PICK i \in sel[t].held :
        /\ waiting' = [waiting EXCEPT ![sel[t].arms[i].chan][t] = @ - 1]
        /\ sel' = [sel EXCEPT ![t].held = @ \ {i}]
  BY DEF DropsGuard
<1>b. PICK c : c = sel[t].arms[i].chan
  OBVIOUS
<1>1. /\ i \in sel[t].held /\ c = sel[t].arms[i].chan
      /\ waiting' = [waiting EXCEPT ![c][t] = @ - 1]
      /\ sel' = [sel EXCEPT ![t].held = @ \ {i}]
  BY <1>a, <1>b
<1>2. UNCHANGED <<op, rotation, turn, won>> /\ sel[t].pc = "unguard"
  BY DEF DropsGuard
<1>3. /\ rotation' \in [Threads -> Nat] /\ turn' \in [Threads -> Nat]
      /\ won' \in [Threads -> Nat]
  BY <1>2 DEF SelectInv, SelectTypes
<1>4. c \in Chans
  <2>1. i \in DOMAIN sel[t].arms
    BY <1>0 DEF ShapeOf
  <2>2. sel[t].arms[i] \in Arms
    BY <1>0, <2>1
  <2> QED  BY <1>1, <2>2, ArmFields
<1>5. PICK s : s = [sel[t] EXCEPT !.held = @ \ {i}]
  OBVIOUS
<1>6. sel' = [sel EXCEPT ![t] = s]
  BY <1>0, <1>1, <1>5
<1>7. /\ s \in SelectState /\ s.held = sel[t].held \ {i} /\ s.arms = sel[t].arms
      /\ s.pc = "unguard" /\ s.start = sel[t].start
  BY <1>0, <1>2, <1>5 DEF SelectState
<1>8. ShapeOf(s, op[t].pc)
  BY <1>0, <1>2, <1>7 DEF ShapeOf
<1>9. ASSUME NEW d \in Chans
      PROVE  waiting'[d][t] = Cardinality(Guards(s, d)) /\ waiting'[d][t] \in Nat
  <2>1. /\ waiting[d][t] = Cardinality(Guards(sel[t], d))
        /\ IsFiniteSet(Guards(sel[t], d)) /\ Cardinality(Guards(sel[t], d)) \in Nat
    BY GuardsFinite DEF SelectInv, GuardsCounted
  <2>2. CASE d = c
    <3>1. Guards(s, d) = Guards(sel[t], d) \ {i} /\ i \in Guards(sel[t], d)
      BY <1>1, <1>7, <2>2 DEF Guards
    <3>2. /\ Cardinality(Guards(s, d)) = Cardinality(Guards(sel[t], d)) - 1
          /\ Cardinality(Guards(s, d)) \in Nat
      <4>1. IsFiniteSet(Guards(s, d))
        BY <2>1, <3>1, FS_RemoveElement
      <4> QED  BY <2>1, <3>1, <4>1, FS_RemoveElement, FS_CardinalityType
    <3>3. waiting'[d][t] = waiting[d][t] - 1
      BY <1>0, <1>1, <2>2
    <3> QED  BY <2>1, <3>2, <3>3
  <2>3. CASE d # c
    <3>1. Guards(s, d) = Guards(sel[t], d)
      BY <1>1, <1>7, <2>3 DEF Guards
    <3>2. waiting'[d] = waiting[d]
      BY <1>0, <1>1, <2>3
    <3> QED  BY <2>1, <3>1, <3>2
  <2> QED  BY <2>2, <2>3
<1>10. \A d \in Chans : \A u \in Threads \ {t} : waiting'[d][u] = waiting[d][u]
  BY <1>0, <1>1
<1>11. waiting' \in [Chans -> [Threads -> Nat]]
  <2>1. /\ DOMAIN waiting' = Chans /\ waiting' = [d \in Chans |-> waiting'[d]]
        /\ \A d \in Chans : waiting'[d] = [u \in Threads |-> waiting'[d][u]]
    BY <1>0, <1>1
  <2>2. \A d \in Chans, u \in Threads : waiting'[d][u] \in Nat
    BY <1>0, <1>9, <1>10
  <2>3. ASSUME NEW d \in Chans PROVE waiting'[d] \in [Threads -> Nat]
    BY <2>1, <2>2
  <2> QED  BY <2>1, <2>3
<1> QED  BY <1>2, <1>3, <1>6, <1>7, <1>8, <1>9, <1>10, <1>11, OneSelectChanges, ZenonT(30)

----------------------------------------------------------------------------
(* What a select does to the channels, tokens and signals.                 *)

LEMMA TypesStay ==
  ASSUME TypeInv, op' = op, TypeOK',
         \A c \in Chans : chan'[c].receivers = chan[c].receivers
  PROVE  TypeInv'
<1>1. OperationShape'
  BY DEF TypeInv, OperationShape
<1>2. ReceiverCountExact'
  BY DEF TypeInv, ReceiverCountExact, Receiving
<1> QED  BY <1>1, <1>2 DEF TypeInv

(* The listeners of channels and the waiters of tokens come and go.        *)
WithListeners(state, L) == [c \in Chans |-> [state[c] EXCEPT !.listeners = L[c]]]

IsWithListeners(new, state, L) ==
  /\ new \in [Chans -> ChannelState]
  /\ \A c \in Chans :
       /\ new[c].queue = state[c].queue /\ new[c].slot = state[c].slot
       /\ new[c].closed = state[c].closed /\ new[c].receivers = state[c].receivers
       /\ new[c].listeners = L[c]

LEMMA ListenersChange ==
  ASSUME NEW state \in [Chans -> ChannelState],
         NEW L, \A c \in Chans : L[c] \in SUBSET Threads
  PROVE  IsWithListeners(WithListeners(state, L), state, L)
<1> DEFINE new == WithListeners(state, L)
<1>1. ASSUME NEW c \in Chans
      PROVE  /\ new[c] \in ChannelState
             /\ new[c].queue = state[c].queue /\ new[c].slot = state[c].slot
             /\ new[c].closed = state[c].closed /\ new[c].receivers = state[c].receivers
             /\ new[c].listeners = L[c]
  <2>1. state[c] \in ChannelState
    OBVIOUS
  <2>2. new[c] = [state[c] EXCEPT !.listeners = L[c]]
    BY DEF WithListeners
  <2> QED  BY <2>1, <2>2 DEF ChannelState
<1>2. new \in [Chans -> ChannelState]
  BY <1>1 DEF WithListeners
<1> QED  BY <1>1, <1>2 DEF IsWithListeners

LEMMA WaitersChange ==
  ASSUME token \in [Tokens -> CancellationState],
         NEW W, \A k \in Tokens : W[k] \in SUBSET Threads,
         token' = [k \in Tokens |-> [token[k] EXCEPT !.waiters = W[k]]]
  PROVE  /\ token' \in [Tokens -> CancellationState]
         /\ \A k \in Tokens :
              /\ token'[k].cancelled = token[k].cancelled
              /\ token'[k].notifying = token[k].notifying
              /\ token'[k].waiters = W[k]
<1>1. ASSUME NEW k \in Tokens
      PROVE  /\ token'[k] \in CancellationState
             /\ token'[k].cancelled = token[k].cancelled
             /\ token'[k].notifying = token[k].notifying
             /\ token'[k].waiters = W[k]
  <2>1. token[k] \in CancellationState /\ token'[k] = [token[k] EXCEPT !.waiters = W[k]]
    OBVIOUS
  <2> QED  BY <2>1 DEF CancellationState
<1> QED  BY <1>1

(* What the winning arm leaves: `state` is what it made of its channel.    *)
LEMMA WinsTypes ==
  ASSUME SelectInv, NEW t \in Threads, NEW state \in [Chans -> ChannelState],
         NEW owners, Wins(t, state, owners)
  PROVE  /\ chan' \in [Chans -> ChannelState]
         /\ token' \in [Tokens -> CancellationState]
         /\ signal' \in [Threads -> BOOLEAN]
         /\ \A c \in Chans :
              /\ chan'[c].queue = state[c].queue /\ chan'[c].slot = state[c].slot
              /\ chan'[c].closed = state[c].closed /\ chan'[c].receivers = state[c].receivers
              /\ chan'[c].listeners = state[c].listeners \ {t}
         /\ \A k \in Tokens : /\ token'[k].cancelled = token[k].cancelled
                              /\ token'[k].notifying = token[k].notifying
                              /\ token'[k].waiters = token[k].waiters \ {t}
         /\ \A u \in Threads \ {t} : signal'[u] = (signal[u] \/ u \in owners)
<1>1. /\ token \in [Tokens -> CancellationState] /\ signal \in [Threads -> BOOLEAN]
  BY DEF SelectInv, TypeInv, TypeOK
<1>2. PICK L : L = [c \in Chans |-> state[c].listeners \ {t}]
  OBVIOUS
<1>3. \A c \in Chans : L[c] \in SUBSET Threads
  BY <1>2 DEF ChannelState
<1>4. chan' = WithListeners(state, L)
  BY <1>2 DEF Wins, WithListeners
<1>5. PICK W : W = [k \in Tokens |-> token[k].waiters \ {t}]
  OBVIOUS
<1>6. \A k \in Tokens : W[k] \in SUBSET Threads
  BY <1>1, <1>5 DEF CancellationState
<1>7. token' = [k \in Tokens |-> [token[k] EXCEPT !.waiters = W[k]]]
  BY <1>5 DEF Wins
<1>8. /\ chan' \in [Chans -> ChannelState]
      /\ \A c \in Chans :
              /\ chan'[c].queue = state[c].queue /\ chan'[c].slot = state[c].slot
              /\ chan'[c].closed = state[c].closed /\ chan'[c].receivers = state[c].receivers
              /\ chan'[c].listeners = L[c]
  <2>1. IsWithListeners(chan', state, L)
    BY <1>3, <1>4, ListenersChange
  <2> QED  BY <2>1 DEF IsWithListeners
<1>9. /\ token' \in [Tokens -> CancellationState]
      /\ \A k \in Tokens : /\ token'[k].cancelled = token[k].cancelled
                           /\ token'[k].notifying = token[k].notifying
                           /\ token'[k].waiters = W[k]
  BY <1>1, <1>6, <1>7, WaitersChange
<1>10. signal' = [u \in Threads |-> u # t /\ (signal[u] \/ u \in owners)]
  BY DEF Wins
<1>11. signal' \in [Threads -> BOOLEAN]
  BY <1>10
<1>12. \A u \in Threads \ {t} : signal'[u] = (signal[u] \/ u \in owners)
  BY <1>10
<1> QED  BY <1>2, <1>5, <1>8, <1>9, <1>11, <1>12

(* What the winning arm makes of its channel.                              *)
LEMMA WinStateTypes ==
  ASSUME SelectInv, NEW t \in Threads, NEW c \in Chans,
         NEW state, state = [chan EXCEPT ![c] = WithoutNext(c)]
                    \/ (Polled(t).val \in Values /\ state = [chan EXCEPT ![c] = Fill(c, Polled(t).val)])
                    \/ state = chan
  PROVE  /\ state \in [Chans -> ChannelState]
         /\ \A d \in Chans : /\ state[d].receivers = chan[d].receivers
                             /\ state[d].listeners = chan[d].listeners
                             /\ state[d].closed = chan[d].closed
         /\ \A d \in Chans \ {c} : state[d] = chan[d]
<1>1. /\ chan \in [Chans -> ChannelState] /\ chan[c] \in ChannelState
      /\ chan[c].queue \in Seq(Values)
  BY ChannelFields DEF SelectInv, TypeInv, TypeOK
<1>2. PICK s : state = [chan EXCEPT ![c] = s]
               /\ \/ s = WithoutNext(c)
                  \/ Polled(t).val \in Values /\ s = Fill(c, Polled(t).val)
                  \/ s = chan[c]
  BY <1>1
<1>3. /\ s \in ChannelState /\ s.receivers = chan[c].receivers
      /\ s.listeners = chan[c].listeners /\ s.closed = chan[c].closed
  <2>1. CASE s = WithoutNext(c)
    <3>1. chan[c].queue # <<>> => Tail(chan[c].queue) \in Seq(Values)
      BY <1>1
    <3> QED  BY <1>1, <2>1, <3>1 DEF WithoutNext, ChannelState
  <2>2. CASE Polled(t).val \in Values /\ s = Fill(c, Polled(t).val)
    <3>1. PICK v \in Values : v = Polled(t).val
      BY <2>2
    <3>2. Append(chan[c].queue, v) \in Seq(Values)
      BY <1>1
    <3> QED  BY <1>1, <2>2, <3>1, <3>2 DEF Fill, ChannelState
  <2>3. CASE s = chan[c]
    BY <1>1, <2>3
  <2> QED  BY <1>2, <2>1, <2>2, <2>3
<1> QED  BY <1>1, <1>2, <1>3

LEMMA OutcomesStay ==
  ASSUME SelectInv, NEW t \in Threads, NEW r \in Outcomes, Results(t, r)
  PROVE  outcome' \in [Values -> Outcomes]
<1>1. \A v \in Values : outcome[v] \in Outcomes
  BY DEF SelectInv, TypeInv, TypeOK
<1> QED  BY <1>1 DEF Results, Outcomes

(* The arm under the poll wins.                                            *)
WinsWith(t, c, state, owners, r) ==
  /\ c = Polled(t).chan /\ sel[t].pc \in {"poll", "try"}
  /\ Wins(t, state, owners) /\ Results(t, r)
  /\ state \in [Chans -> ChannelState]
  /\ \A d \in Chans : /\ state[d].receivers = chan[d].receivers
                      /\ state[d].listeners = chan[d].listeners
                      /\ state[d].closed = chan[d].closed
  /\ \A d \in Chans \ {c} : state[d] = chan[d]
  /\ state = chan \/ owners = chan[c].listeners

LEMMA WinningSteps ==
  ASSUME SelectInv, NEW t \in Threads,
         \/ RecvArmTakes(t) \/ RecvArmFails(t) \/ SendArmIsCancelled(t)
         \/ SendArmIsClosed(t) \/ SendArmSends(t)
  PROVE  \E c \in Chans, r \in Outcomes : \E state, owners : WinsWith(t, c, state, owners, r)
<1>0. sel[t].pc \in {"poll", "try"}
  BY DEF RecvArmTakes, RecvArmFails, SendArmIsCancelled, SendArmIsClosed, SendArmSends, Polls
<1>1. PICK c \in Chans : c = Polled(t).chan
  BY <1>0, PolledArm
<1>2. chan \in [Chans -> ChannelState]
  BY DEF SelectInv, TypeInv, TypeOK
<1>3. CASE RecvArmFails(t) \/ SendArmIsCancelled(t) \/ SendArmIsClosed(t)
  <2>1. PICK r \in Outcomes : Wins(t, chan, {}) /\ Results(t, r)
    BY <1>3 DEF RecvArmFails, SendArmIsCancelled, SendArmIsClosed, Outcomes
  <2>2. WinsWith(t, c, chan, {}, r)
    BY <1>0, <1>1, <1>2, <2>1 DEF WinsWith
  <2> QED  BY <2>2
<1>4. CASE RecvArmTakes(t)
  <2>1. PICK state, owners : /\ state = [chan EXCEPT ![c] = WithoutNext(c)]
                             /\ owners = chan[c].listeners
    OBVIOUS
  <2>2. Wins(t, state, owners) /\ Results(t, "ok") /\ "ok" \in Outcomes
    BY <1>1, <1>4, <2>1 DEF RecvArmTakes, Outcomes
  <2>3. /\ state \in [Chans -> ChannelState]
        /\ \A d \in Chans : /\ state[d].receivers = chan[d].receivers
                            /\ state[d].listeners = chan[d].listeners
                            /\ state[d].closed = chan[d].closed
        /\ \A d \in Chans \ {c} : state[d] = chan[d]
    BY <2>1, WinStateTypes
  <2>4. WinsWith(t, c, state, owners, "ok")
    BY <1>0, <1>1, <2>1, <2>2, <2>3 DEF WinsWith
  <2> QED  BY <2>2, <2>4
<1>5. CASE SendArmSends(t)
  <2>0. Polled(t).val \in Values
    BY <1>5, PolledArm, SelectFields DEF SendArmSends, ShapeOf
  <2>1. PICK state, owners : /\ state = [chan EXCEPT ![c] = Fill(c, Polled(t).val)]
                             /\ owners = chan[c].listeners
    OBVIOUS
  <2>2. Wins(t, state, owners) /\ Results(t, "ok") /\ "ok" \in Outcomes
    BY <1>1, <1>5, <2>1 DEF SendArmSends, Outcomes
  <2>3. /\ state \in [Chans -> ChannelState]
        /\ \A d \in Chans : /\ state[d].receivers = chan[d].receivers
                            /\ state[d].listeners = chan[d].listeners
                            /\ state[d].closed = chan[d].closed
        /\ \A d \in Chans \ {c} : state[d] = chan[d]
    BY <2>0, <2>1, WinStateTypes
  <2>4. WinsWith(t, c, state, owners, "ok")
    BY <1>0, <1>1, <2>1, <2>2, <2>3 DEF WinsWith
  <2> QED  BY <2>2, <2>4
<1> QED  BY <1>3, <1>4, <1>5

LEMMA WinsKeepsTypes ==
  ASSUME SelectInv, NEW t \in Threads, NEW c \in Chans, NEW r \in Outcomes, NEW state, NEW owners,
         WinsWith(t, c, state, owners, r),
         sent' \in [Chans -> Seq(Values)], taken' \in [Chans -> Seq(Values)],
         sawClosed' \in [Chans -> BOOLEAN]
  PROVE  TypeInv'
<1>1. /\ chan' \in [Chans -> ChannelState]
      /\ token' \in [Tokens -> CancellationState]
      /\ signal' \in [Threads -> BOOLEAN]
      /\ \A d \in Chans : chan'[d].receivers = chan[d].receivers
  BY WinsTypes DEF WinsWith
<1>2. outcome' \in [Values -> Outcomes]
  BY OutcomesStay DEF WinsWith
<1>3. op' = op /\ op \in [Threads -> Operation]
  BY DEF WinsWith, Wins, SelectInv, TypeInv, TypeOK
<1>4. TypeOK'
  BY <1>1, <1>2, <1>3 DEF TypeOK
<1> QED  BY <1>1, <1>3, <1>4, TypesStay DEF SelectInv

LEMMA NextValueType ==
  ASSUME TypeInv, NEW c \in Chans, HasValue(c)
  PROVE  NextValue(c) \in Values
<1>1. /\ chan[c].queue \in Seq(Values) /\ chan[c].slot \in Values \cup {NoValue}
  BY ChannelFields
<1>2. chan[c].queue # <<>> => Head(chan[c].queue) \in Values
  BY <1>1
<1> QED  BY <1>1, <1>2 DEF HasValue, NextValue

LEMMA WinningKeepsTypes ==
  ASSUME SelectInv, NEW t \in Threads,
         \/ RecvArmTakes(t) \/ RecvArmFails(t) \/ SendArmIsCancelled(t)
         \/ SendArmIsClosed(t) \/ SendArmSends(t)
  PROVE  TypeInv'
<1>1. PICK c \in Chans, r \in Outcomes : \E state, owners : WinsWith(t, c, state, owners, r)
  BY WinningSteps
<1>2. PICK state, owners : WinsWith(t, c, state, owners, r)
  BY <1>1
<1>3. /\ sent \in [Chans -> Seq(Values)] /\ taken \in [Chans -> Seq(Values)]
      /\ sawClosed \in [Chans -> BOOLEAN] /\ c = Polled(t).chan
      /\ TypeInv /\ chan[c].closed \in BOOLEAN
  BY <1>2, ChannelFields DEF SelectInv, TypeInv, TypeOK, WinsWith
<1>4. sent' \in [Chans -> Seq(Values)]
  <2>1. CASE SendArmSends(t)
    <3>1. Polled(t).val \in Values
      BY <2>1, PolledArm, SelectFields DEF SendArmSends, ShapeOf
    <3>2. Append(sent[c], Polled(t).val) \in Seq(Values)
      BY <1>3, <3>1
    <3> QED  BY <1>3, <2>1, <3>2 DEF SendArmSends
  <2>2. CASE ~SendArmSends(t)
    BY <1>3, <2>2 DEF RecvArmTakes, RecvArmFails, SendArmIsCancelled, SendArmIsClosed
  <2> QED  BY <2>1, <2>2
<1>5. taken' \in [Chans -> Seq(Values)]
  <2>1. CASE RecvArmTakes(t)
    <3>1. NextValue(c) \in Values
      BY <1>3, <2>1, NextValueType DEF RecvArmTakes
    <3>2. Append(taken[c], NextValue(c)) \in Seq(Values)
      BY <1>3, <3>1
    <3> QED  BY <1>3, <2>1, <3>2 DEF RecvArmTakes
  <2>2. CASE ~RecvArmTakes(t)
    BY <1>3, <2>2 DEF SendArmSends, RecvArmFails, SendArmIsCancelled, SendArmIsClosed
  <2> QED  BY <2>1, <2>2
<1>6. sawClosed' \in [Chans -> BOOLEAN]
  <2>1. CASE RecvArmFails(t)
    BY <1>3, <2>1 DEF RecvArmFails
  <2>2. CASE ~RecvArmFails(t)
    BY <1>3, <2>2 DEF SendArmSends, RecvArmTakes, SendArmIsCancelled, SendArmIsClosed
  <2> QED  BY <2>1, <2>2
<1> QED  BY <1>2, <1>4, <1>5, <1>6, WinsKeepsTypes

LEMMA SignalsKeepTypes ==
  ASSUME TypeInv, op' = op, chan' = chan, token' = token, outcome' = outcome, sent' = sent,
         taken' = taken, sawClosed' = sawClosed, signal' \in [Threads -> BOOLEAN]
  PROVE  TypeInv'
<1>1. TypeOK'
  BY DEF TypeInv, TypeOK
<1> QED  BY <1>1, TypesStay

LEMMA OtherSelectStepsKeepTypes ==
  ASSUME SelectInv, NEW t \in Threads,
         \/ RecvArmMisses(t) \/ SendArmIsLive(t) \/ SendArmMisses(t) \/ BeginsWait(t)
         \/ MakesGuard(t) \/ ReadsGeneration(t) \/ FallsAsleep(t) \/ WakesUp(t)
         \/ DropsGuard(t) \/ StartsOver(t) \/ BodyEnds(t)
  PROVE  TypeInv'
<1>1. TypeInv /\ signal \in [Threads -> BOOLEAN]
  BY DEF SelectInv, TypeInv, TypeOK
<1>2. UNCHANGED <<op, chan, token, outcome, sent, taken, sawClosed>>
  BY DEF RecvArmMisses, SendArmIsLive, SendArmMisses, BeginsWait, MakesGuard, ReadsGeneration,
     FallsAsleep, WakesUp, DropsGuard, StartsOver, BodyEnds, Misses, vars
<1>3. \/ signal' = signal
      \/ ReadGeneration(t)
      \/ \E c : NotifyListeners(c)
  BY DEF RecvArmMisses, SendArmIsLive, SendArmMisses, BeginsWait, MakesGuard, ReadsGeneration,
     FallsAsleep, WakesUp, DropsGuard, StartsOver, BodyEnds, Misses, vars
<1>4. signal' \in [Threads -> BOOLEAN]
  BY <1>1, <1>3 DEF ReadGeneration, NotifyListeners, Notify
<1> QED  BY <1>1, <1>2, <1>4, SignalsKeepTypes

LEMMA DefaultKeepsTypes ==
  ASSUME SelectInv, NEW t \in Threads, TakesDefault(t) \/ EntersSelect(t)
  PROVE  TypeInv'
<1>1. /\ TypeInv /\ chan \in [Chans -> ChannelState] /\ token \in [Tokens -> CancellationState]
      /\ signal \in [Threads -> BOOLEAN] /\ op \in [Threads -> Operation]
      /\ outcome \in [Values -> Outcomes] /\ sent \in [Chans -> Seq(Values)]
      /\ taken \in [Chans -> Seq(Values)] /\ sawClosed \in [Chans -> BOOLEAN]
  BY DEF SelectInv, TypeInv, TypeOK
<1>2. PICK W1, W2 : \/ TakesDefault(t)
                    \/ /\ W1 = Watched(Selects[t][turn[t]])
                       /\ W2 = WatchedTokens(Selects[t][turn[t]])
                       /\ EntersSelect(t)
  OBVIOUS
<1>3. PICK L : L = [c \in Chans |-> IF TakesDefault(t) THEN chan[c].listeners \ {t}
                                    ELSE IF c \in W1 THEN chan[c].listeners \cup {t}
                                         ELSE chan[c].listeners]
  OBVIOUS
<1>4. PICK W : W = [k \in Tokens |-> IF TakesDefault(t) THEN token[k].waiters \ {t}
                                     ELSE IF k \in W2 THEN token[k].waiters \cup {t}
                                          ELSE token[k].waiters]
  OBVIOUS
<1>5. /\ \A c \in Chans : L[c] \in SUBSET Threads
      /\ \A k \in Tokens : W[k] \in SUBSET Threads
  <2>1. \A c \in Chans : chan[c].listeners \in SUBSET Threads
    BY <1>1 DEF ChannelState
  <2>2. \A k \in Tokens : token[k].waiters \in SUBSET Threads
    BY <1>1 DEF CancellationState
  <2> QED  BY <1>3, <1>4, <2>1, <2>2
<1>6. chan' = WithListeners(chan, L)
  <2>1. CASE TakesDefault(t)
    <3>1. chan' = [c \in Chans |-> [chan[c] EXCEPT !.listeners = @ \ {t}]]
      BY <2>1 DEF TakesDefault
    <3>2. \A c \in Chans : L[c] = chan[c].listeners \ {t}
      BY <1>3, <2>1
    <3> QED  BY <3>1, <3>2 DEF WithListeners
  <2>2. CASE ~TakesDefault(t)
    <3>1. chan' = [c \in Chans |-> [chan[c] EXCEPT
                    !.listeners = IF c \in W1 THEN @ \cup {t} ELSE @]]
      BY <1>2, <2>2 DEF EntersSelect
    <3>2. \A c \in Chans : L[c] = IF c \in W1 THEN chan[c].listeners \cup {t}
                                             ELSE chan[c].listeners
      BY <1>3, <2>2
    <3> QED  BY <3>1, <3>2 DEF WithListeners
  <2> QED  BY <2>1, <2>2
<1>7. token' = [k \in Tokens |-> [token[k] EXCEPT !.waiters = W[k]]]
  <2>1. CASE TakesDefault(t)
    <3>1. token' = [k \in Tokens |-> [token[k] EXCEPT !.waiters = @ \ {t}]]
      BY <2>1 DEF TakesDefault
    <3>2. \A k \in Tokens : W[k] = token[k].waiters \ {t}
      BY <1>4, <2>1
    <3> QED  BY <3>1, <3>2
  <2>2. CASE ~TakesDefault(t)
    <3>1. token' = [k \in Tokens |-> [token[k] EXCEPT
                     !.waiters = IF k \in W2 THEN @ \cup {t} ELSE @]]
      BY <1>2, <2>2 DEF EntersSelect
    <3>2. \A k \in Tokens : W[k] = IF k \in W2 THEN token[k].waiters \cup {t}
                                              ELSE token[k].waiters
      BY <1>4, <2>2
    <3> QED  BY <3>1, <3>2
  <2> QED  BY <2>1, <2>2
<1>8. IsWithListeners(chan', chan, L)
  BY <1>1, <1>5, <1>6, ListenersChange
<1>9. token' \in [Tokens -> CancellationState]
  BY <1>1, <1>5, <1>7, WaitersChange
<1>10. outcome' \in [Values -> Outcomes]
  BY <1>1 DEF TakesDefault, EntersSelect, Outcomes
<1>11. signal' \in [Threads -> BOOLEAN] /\ UNCHANGED <<op, sent, taken, sawClosed>>
  BY <1>1 DEF TakesDefault, EntersSelect, DropSignal
<1>12. TypeOK'
  BY <1>1, <1>8, <1>9, <1>10, <1>11 DEF TypeOK, IsWithListeners
<1> QED  BY <1>1, <1>8, <1>11, <1>12, TypesStay DEF IsWithListeners

LEMMA SelectStepKeeps ==
  ASSUME SelectInv, NEW t \in Threads, EntersSelect(t) \/ BodyEnds(t) \/ SelectStep(t)
  PROVE  SelectInv'
<1>1. Keeps
  BY EntersKeeps, PollKeeps, PauseKeeps, MakesKeeps, DropsKeeps DEF SelectStep
<1>2. TypeInv'
  BY WinningKeepsTypes, OtherSelectStepsKeepTypes, DefaultKeepsTypes DEF SelectStep
<1> QED  BY <1>1, <1>2 DEF Keeps, SelectInv

----------------------------------------------------------------------------
(* Sends, recvs, closes and cancels beside the selects.                    *)

LEMMA ChannelNextIsNext == ChannelNext => Next
BY DEF ChannelNext, ChannelCall, Next, Call

(* A thread in a select is in no other operation and begins none.          *)
LEMMA SelectingIdle ==
  ASSUME SelectInv, ChannelNext, NEW u \in Threads, sel[u].pc \notin {"idle", "body"}
  PROVE  op'[u].pc = "idle" /\ op'[u] = op[u]
<1>1. op[u].pc = "idle" /\ op \in [Threads -> Operation]
  BY SelectFields DEF ShapeOf, SelectInv, TypeInv, TypeOK
<1>2. ASSUME NEW t \in Threads, Step(t) PROVE op'[u] = op[u]
  <2>1. op[t].pc # "idle"
    BY <1>2 DEF Step, SendStep, SendHandedOff, SendGivesUp, SendContinues, SendOffers, SendBuffers,
       SendBlocks, RecvStep, RecvTakes, RecvGivesUp, RecvContinues, RecvAnnounces, RecvBlocks,
       WaitStep, Register, Arm, Wake, Looks
  <2>2. \E r : op' = [op EXCEPT ![t] = r]
    <3>1. CASE SendStep(t) \/ RecvStep(t)
      <4>1. \/ op' = [op EXCEPT ![t] = NoOperation]
            \/ op' = [op EXCEPT ![t] = [op[t] EXCEPT !.held = TRUE]]
            \/ \E pc : op' = [op EXCEPT ![t] = [op[t] EXCEPT !.pc = pc]]
        BY <1>1, <3>1 DEF SendStep, SendHandedOff, SendGivesUp, SendOffers, SendBuffers,
           SendBlocks, RecvStep, RecvTakes, RecvGivesUp, RecvAnnounces, RecvBlocks,
           Leave, PrepareToWait
      <4> QED  BY <4>1
    <3>2. CASE WaitStep(t)
      <4>1. \E pc : op' = [op EXCEPT ![t] = [op[t] EXCEPT !.pc = pc]]
        BY <1>1, <3>2 DEF WaitStep, Register, Arm, Wake
      <4> QED  BY <4>1
    <3> QED  BY <1>2, <3>1, <3>2 DEF Step
  <2> QED  BY <1>1, <2>1, <2>2
<1>3. ASSUME NEW c \in Chans, NEW t \in Senders[c], NEW v \in Values,
             NEW k \in Tokens \cup {NoToken}, MayCall(t), Send(t, c, v, k)
      PROVE  op'[u] = op[u]
  BY <1>1, <1>3, ChannelAssumption DEF Send, MayCall
<1>4. ASSUME NEW c \in Chans, NEW t \in Receivers[c],
             NEW k \in Tokens \cup {NoToken}, MayCall(t), Recv(t, c, k)
      PROVE  op'[u] = op[u]
  BY <1>1, <1>4, ChannelAssumption DEF Recv, MayCall
<1>5. ASSUME NEW c \in Chans, Close(c) PROVE op'[u] = op[u]
  BY <1>5 DEF Close
<1>6. ASSUME NEW k \in Tokens, Cancel(k) \/ CancelNotifies(k) PROVE op'[u] = op[u]
  BY <1>6 DEF Cancel, CancelNotifies
<1>7. op'[u] = op[u]
  BY <1>2, <1>3, <1>4, <1>5, <1>6 DEF ChannelNext, ChannelCall
<1> QED  BY <1>1, <1>7

LEMMA ChannelNextKeeps ==
  ASSUME SelectInv, ChannelNext
  PROVE  SelectInv'
<1>1. TypeInv'
  BY ChannelNextIsNext, TypeNext DEF SelectInv
<1>2. UNCHANGED <<sel, waiting, rotation, turn, won>>
  BY DEF ChannelNext, selVars
<1>3. SelectShape'
  <2> SUFFICES ASSUME NEW u \in Threads PROVE ShapeOf(sel[u], op'[u].pc)
    BY <1>2 DEF SelectShape
  <2>1. sel[u].pc \notin {"idle", "body"} => op'[u].pc = "idle"
    BY SelectingIdle
  <2> QED  BY <2>1, SelectFields DEF ShapeOf
<1>4. SelectTypes' /\ GuardsCounted'
  BY <1>2 DEF SelectInv, SelectTypes, GuardsCounted, Guards
<1> QED  BY <1>1, <1>3, <1>4 DEF SelectInv

(* The types of select and of the channels, the shape of a select in each  *)
(* of its phases and the counts of its guards: every step keeps them.      *)
THEOREM SelectInvariant == SelectSpec => []SelectInv
<1>1. SelectInit => SelectInv
  BY SelectInvInit
<1>2. SelectInv /\ [SelectNext]_allVars => SelectInv'
  <2> SUFFICES ASSUME SelectInv, [SelectNext]_allVars PROVE SelectInv'
    OBVIOUS
  <2>1. CASE SelectNext
    BY <2>1, SelectStepKeeps, ChannelNextKeeps DEF SelectNext
  <2>2. CASE UNCHANGED allVars
    <3>1. UNCHANGED vars /\ UNCHANGED <<sel, waiting, rotation, turn, won, op>>
      BY <2>2 DEF allVars, selVars, vars
    <3>2. TypeInv'
      BY <3>1, TypeNext DEF SelectInv
    <3>3. SelectTypes' /\ SelectShape' /\ GuardsCounted'
      BY <3>1 DEF SelectInv, SelectTypes, SelectShape, GuardsCounted, Guards
    <3> QED  BY <3>2, <3>3 DEF SelectInv
  <2> QED  BY <2>1, <2>2
<1> QED  BY <1>1, <1>2, PTL DEF SelectSpec

(* select_waiting_receivers of a channel counts exactly the guards of the  *)
(* selects that wait to receive from it, on every path out of a select: it *)
(* never goes below zero and leaves no phantom behind.                     *)
THEOREM WaitersCounted == SelectSpec => []WaitersExact
<1>1. SelectInv => WaitersExact
  BY DEF SelectInv, TypeInv, SelectTypes, GuardsCounted, Guards, WaitersExact, SelectTypeOK
<1> QED  BY <1>1, SelectInvariant, PTL

----------------------------------------------------------------------------
(***************************************************************************)
(* No select sleeps past an arm that could win.                            *)
(***************************************************************************)

(* Could arm a of u win now?                                               *)
TokenWork(k) == IsCancelled(k) /\ ~token[k].notifying

ChanWork(u, a) ==
  \/ chan[a.chan].closed
  \/ a.kind = "recv" /\ HasValue(a.chan)
  \/ /\ a.kind = "send" /\ CanSend(a.chan)
     /\ Rendezvous(a.chan) => HasWaitingReceiver(u, a.chan)

Work(u, a) == ChanWork(u, a) \/ TokenWork(a.tok)

LEMMA WorkIsArmHasWork ==
  ASSUME NEW u \in Threads, NEW i
  PROVE  ArmHasWork(u, i) <=> Work(u, sel[u].arms[i])
BY DEF ArmHasWork, Work, ChanWork, TokenWork

(* The signal of a select is with every channel and token of its arms.     *)
Registered(u, a) ==
  u \in chan[a.chan].listeners /\ (a.tok \in Tokens => u \in token[a.tok].waiters)

(* A select that has begun its second poll, and was not notified since,    *)
(* knows that the arms it is past have no work.                            *)
SelectWell(u) ==
  LET s == sel[u] IN
  /\ Selecting(u) => \A i \in DOMAIN s.arms : Registered(u, s.arms[i])
  /\ s.pc \in {"poll", "try"} /\ s.second /\ ~signal[u] =>
       /\ s.offset <= Len(s.arms)
       /\ \A k \in Nat : k < s.offset => ~Work(u, s.arms[ArmAfter(s.start, k, Len(s.arms))])
       /\ s.pc = "try" => s.offset < Len(s.arms) /\ ~TokenWork(NextArm(s).tok)
  /\ s.pc = "asleep" /\ ~signal[u] => \A i \in DOMAIN s.arms : ~Work(u, s.arms[i])

SelectsWell == \A u \in Threads : SelectWell(u)

(* Something came to channel c that a select may wait for.                 *)
Gains(c) ==
  \/ chan'[c].closed /\ ~chan[c].closed
  \/ HasValue(c)' /\ ~HasValue(c)
  \/ CanSend(c)' /\ ~CanSend(c)
  \/ chan'[c].receivers > 0 /\ ~(chan[c].receivers > 0)
  \/ \E v \in Threads : waiting'[c][v] > 0 /\ ~(waiting[c][v] > 0)

(* u is told of all that came to what it is registered with.               *)
Informed(u) ==
  /\ signal[u] => signal'[u]
  /\ \A c \in Chans : u \in chan[c].listeners =>
       u \in chan'[c].listeners /\ (Gains(c) => signal'[u])
  /\ \A k \in Tokens : u \in token[k].waiters =>
       u \in token'[k].waiters /\ (TokenWork(k)' /\ ~TokenWork(k) => signal'[u])

LEMMA WorkComesWithNews ==
  ASSUME NEW u \in Threads, NEW a \in Arms, Registered(u, a), Informed(u), ~signal'[u],
         Work(u, a)'
  PROVE  Work(u, a)
<1>1. a.chan \in Chans /\ u \in chan[a.chan].listeners /\ ~Gains(a.chan)
  BY ArmFields DEF Registered, Informed
<1>2. CASE ChanWork(u, a)'
  BY <1>1, <1>2 DEF ChanWork, Gains, Work, HasWaitingReceiver, Rendezvous
<1>3. CASE TokenWork(a.tok)'
  <2>1. a.tok \in Tokens
    BY <1>3 DEF TokenWork, IsCancelled
  <2>2. TokenWork(a.tok)
    BY <1>3, <2>1 DEF Registered, Informed
  <2> QED  BY <2>2 DEF Work
<1> QED  BY <1>2, <1>3 DEF Work

(* A select that does not move itself, and is told.                        *)
LEMMA InformedStays ==
  ASSUME SelectInv, NEW u \in Threads, SelectWell(u), Informed(u), sel'[u] = sel[u]
  PROVE  SelectWell(u)'
<1>0. PICK s : s = sel[u]
  OBVIOUS
<1>1. /\ s.arms \in Seq(Arms) /\ Len(s.arms) \in Nat /\ ShapeOf(s, op[u].pc)
      /\ s.start \in Nat /\ s.offset \in Nat
  BY <1>0, SelectFields
<1>2. \A i \in DOMAIN s.arms : s.arms[i] \in Arms
  BY <1>1
<1>3. s.pc \in {"poll", "try", "asleep"} => Selecting(u)
  BY <1>0, <1>1 DEF Selecting, Waiting, ShapeOf
<1>4. Selecting(u) => \A i \in DOMAIN s.arms : Registered(u, s.arms[i])
  BY <1>0 DEF SelectWell
<1>5. ASSUME Selecting(u), NEW i \in DOMAIN s.arms
      PROVE  /\ Registered(u, s.arms[i])'
             /\ ~signal'[u] /\ Work(u, s.arms[i])' => Work(u, s.arms[i])
  <2>1. PICK a \in Arms : a = s.arms[i] /\ Registered(u, a)
    BY <1>2, <1>4, <1>5
  <2>2. Registered(u, a)'
    BY <2>1, ArmFields DEF Registered, Informed
  <2>3. ~signal'[u] /\ Work(u, a)' => Work(u, a)
    BY <2>1, WorkComesWithNews
  <2> QED  BY <2>1, <2>2, <2>3
<1>6. ~signal'[u] => ~signal[u]
  BY DEF Informed
<1>7. Selecting(u)' <=> Selecting(u)
  BY DEF Selecting
<1>8. s.pc # "idle" => Len(s.arms) \in Nat \ {0}
  BY <1>1 DEF ShapeOf
<1>9. CASE s.pc \in {"poll", "try"} /\ s.second /\ ~signal'[u]
  <2>1. /\ s.offset <= Len(s.arms)
        /\ \A k \in Nat : k < s.offset => ~Work(u, s.arms[ArmAfter(s.start, k, Len(s.arms))])
        /\ s.pc = "try" => s.offset < Len(s.arms) /\ ~TokenWork(NextArm(s).tok)
    BY <1>0, <1>6, <1>9 DEF SelectWell
  <2>2. ASSUME NEW k \in Nat, k < s.offset
        PROVE  ~Work(u, s.arms[ArmAfter(s.start, k, Len(s.arms))])'
    <3>1. ArmAfter(s.start, k, Len(s.arms)) \in DOMAIN s.arms
      <4>1. Len(s.arms) \in Nat \ {0}
        BY <1>8, <1>9
      <4>2. ArmAfter(s.start, k, Len(s.arms)) \in 1 .. Len(s.arms)
        BY <1>1, <4>1, ArmInRange
      <4> QED  BY <1>1, <4>2
    <3>2. PICK i \in DOMAIN s.arms : i = ArmAfter(s.start, k, Len(s.arms))
      BY <3>1
    <3>3. ~Work(u, s.arms[i])
      BY <2>1, <2>2, <3>2
    <3>4. ~Work(u, s.arms[i])'
      BY <1>3, <1>5, <1>9, <3>3
    <3> QED  BY <3>2, <3>4
  <2>3. ASSUME s.pc = "try" PROVE ~TokenWork(NextArm(s).tok)'
    <3>1. PICK i \in DOMAIN s.arms : NextArm(s) = s.arms[i]
      <4>1. Len(s.arms) \in Nat \ {0}
        BY <1>8, <1>9
      <4>2. ArmAfter(s.start, s.offset, Len(s.arms)) \in 1 .. Len(s.arms)
        BY <1>1, <4>1, ArmInRange
      <4> QED  BY <1>1, <4>2 DEF NextArm
    <3>2. Registered(u, s.arms[i]) /\ ~TokenWork(s.arms[i].tok)
      BY <1>3, <1>4, <1>9, <2>1, <2>3, <3>1
    <3>3. PICK k : k = s.arms[i].tok
      OBVIOUS
    <3>4. ~TokenWork(k)'
      <4>1. CASE k \in Tokens
        BY <1>9, <3>2, <3>3, <4>1 DEF Registered, Informed
      <4>2. CASE k \notin Tokens
        BY <4>2 DEF TokenWork, IsCancelled
      <4> QED  BY <4>1, <4>2
    <3> QED  BY <3>1, <3>3, <3>4
  <2> QED  BY <1>0, <1>3, <1>5, <1>7, <1>9, <2>1, <2>2, <2>3 DEF SelectWell
<1>10. CASE s.pc = "asleep" /\ ~signal'[u]
  BY <1>0, <1>3, <1>5, <1>6, <1>7, <1>10 DEF SelectWell
<1>11. CASE /\ ~(s.pc \in {"poll", "try"} /\ s.second /\ ~signal'[u])
            /\ ~(s.pc = "asleep" /\ ~signal'[u])
  BY <1>0, <1>5, <1>7, <1>11 DEF SelectWell
<1> QED  BY <1>9, <1>10, <1>11

----------------------------------------------------------------------------
(* Who is told of what.                                                    *)
SameFor(d) ==
  /\ chan'[d].queue = chan[d].queue /\ chan'[d].slot = chan[d].slot
  /\ chan'[d].closed = chan[d].closed /\ chan'[d].receivers = chan[d].receivers
  /\ waiting'[d] = waiting[d]

SameTokens ==
  \A k \in Tokens : /\ token'[k].cancelled = token[k].cancelled
                    /\ token'[k].notifying = token[k].notifying

StaysListed(u) ==
  /\ \A d \in Chans : u \in chan[d].listeners => u \in chan'[d].listeners
  /\ \A k \in Tokens : u \in token[k].waiters => u \in token'[k].waiters

LEMMA ChangeInforms ==
  ASSUME NEW u \in Threads, signal[u] => signal'[u], StaysListed(u), SameTokens,
         \A d \in Chans : SameFor(d) \/ (u \in chan[d].listeners => signal'[u])
  PROVE  Informed(u)
<1>1. ASSUME NEW d \in Chans, SameFor(d) PROVE ~Gains(d)
  BY <1>1 DEF SameFor, Gains, HasValue, CanSend, Rendezvous
<1>2. ASSUME NEW k \in Tokens PROVE ~(TokenWork(k)' /\ ~TokenWork(k))
  BY <1>2 DEF SameTokens, TokenWork, IsCancelled
<1> QED  BY <1>1, <1>2 DEF Informed, StaysListed

(* The steps of the select of t, seen by another thread.                   *)
LEMMA SelectInforms ==
  ASSUME SelectInv, NEW t \in Threads, EntersSelect(t) \/ BodyEnds(t) \/ SelectStep(t),
         NEW u \in Threads \ {t}
  PROVE  Informed(u)
<1>0. /\ chan \in [Chans -> ChannelState] /\ token \in [Tokens -> CancellationState]
      /\ signal \in [Threads -> BOOLEAN] /\ waiting \in [Chans -> [Threads -> Nat]]
  BY DEF SelectInv, TypeInv, TypeOK, SelectTypes
<1>1. CASE \/ RecvArmMisses(t) \/ SendArmIsLive(t) \/ SendArmMisses(t) \/ BeginsWait(t)
           \/ ReadsGeneration(t) \/ FallsAsleep(t) \/ WakesUp(t) \/ StartsOver(t) \/ BodyEnds(t)
  <2>1. UNCHANGED <<chan, token, waiting>>
    BY <1>1 DEF RecvArmMisses, SendArmIsLive, SendArmMisses, BeginsWait, ReadsGeneration,
       FallsAsleep, WakesUp, StartsOver, BodyEnds, Misses, vars
  <2>2. signal' = signal \/ signal' = [signal EXCEPT ![t] = FALSE]
    BY <1>1 DEF RecvArmMisses, SendArmIsLive, SendArmMisses, BeginsWait, ReadsGeneration,
       FallsAsleep, WakesUp, StartsOver, BodyEnds, Misses, vars, ReadGeneration
  <2>3. signal'[u] = signal[u]
    BY <1>0, <2>2
  <2> QED  BY <2>1, <2>3, ChangeInforms DEF SameFor, SameTokens, StaysListed
<1>2. CASE MakesGuard(t) \/ DropsGuard(t)
  <2>1. chan' = chan /\ token' = token
    BY <1>2 DEF MakesGuard, DropsGuard
  <2>2. \/ waiting' = waiting /\ signal' = signal
        \/ \E c, n : NotifyListeners(c) /\ waiting' = [waiting EXCEPT ![c] = n]
    <3>1. CASE MakesGuard(t)
      BY <3>1 DEF MakesGuard
    <3>2. CASE DropsGuard(t)
      <4>1. PICK i : /\ NotifyListeners(sel[t].arms[i].chan)
                     /\ waiting' = [waiting EXCEPT ![sel[t].arms[i].chan][t] = @ - 1]
        BY <3>2 DEF DropsGuard
      <4> QED  BY <4>1
    <3> QED  BY <1>2, <3>1, <3>2
  <2>3. ASSUME NEW c, NEW n, NotifyListeners(c), waiting' = [waiting EXCEPT ![c] = n]
        PROVE  Informed(u)
    <3>1. (signal[u] => signal'[u]) /\ (u \in chan[c].listeners => signal'[u])
      BY <2>3 DEF NotifyListeners, Notify
    <3>2. \A d \in Chans : d # c => waiting'[d] = waiting[d]
      BY <1>0, <2>3
    <3> QED  BY <2>1, <3>1, <3>2, ChangeInforms DEF SameFor, SameTokens, StaysListed
  <2>4. CASE waiting' = waiting /\ signal' = signal
    BY <2>1, <2>4, ChangeInforms DEF SameFor, SameTokens, StaysListed
  <2> QED  BY <2>2, <2>3, <2>4
<1>3. CASE \/ RecvArmTakes(t) \/ RecvArmFails(t) \/ SendArmIsCancelled(t)
           \/ SendArmIsClosed(t) \/ SendArmSends(t)
  <2>1. PICK c \in Chans, r \in Outcomes : \E state, owners : WinsWith(t, c, state, owners, r)
    BY <1>3, WinningSteps
  <2>2. PICK state, owners : WinsWith(t, c, state, owners, r)
    BY <2>1
  <2>3. /\ \A d \in Chans :
              /\ chan'[d].queue = state[d].queue /\ chan'[d].slot = state[d].slot
              /\ chan'[d].closed = state[d].closed /\ chan'[d].receivers = state[d].receivers
              /\ chan'[d].listeners = state[d].listeners \ {t}
        /\ \A k \in Tokens : /\ token'[k].cancelled = token[k].cancelled
                             /\ token'[k].notifying = token[k].notifying
                             /\ token'[k].waiters = token[k].waiters \ {t}
        /\ signal'[u] = (signal[u] \/ u \in owners)
    BY <2>2, WinsTypes DEF WinsWith
  <2>4. /\ waiting' = waiting
        /\ \A d \in Chans : state[d].listeners = chan[d].listeners
        /\ \A d \in Chans \ {c} : state[d] = chan[d]
        /\ state = chan \/ owners = chan[c].listeners
    BY <2>2 DEF WinsWith, Wins
  <2>5. StaysListed(u) /\ SameTokens /\ (signal[u] => signal'[u])
    BY <2>3, <2>4 DEF StaysListed, SameTokens
  <2>6. \A d \in Chans : SameFor(d) \/ (u \in chan[d].listeners => signal'[u])
    BY <2>3, <2>4, ZenonT(30) DEF SameFor
  <2> QED  BY <2>5, <2>6, ChangeInforms
<1>4. CASE TakesDefault(t) \/ EntersSelect(t)
  <2>1. waiting' = waiting /\ signal'[u] = signal[u]
    BY <1>0, <1>4 DEF TakesDefault, EntersSelect, DropSignal
  <2>2. ASSUME NEW d \in Chans
        PROVE  SameFor(d) /\ (u \in chan[d].listeners => u \in chan'[d].listeners)
    <3>1. PICK L : chan'[d] = [chan[d] EXCEPT !.listeners = L]
                   /\ (u \in chan[d].listeners => u \in L)
      <4>1. CASE TakesDefault(t)
        BY <4>1 DEF TakesDefault
      <4>2. CASE EntersSelect(t)
        BY <4>2 DEF EntersSelect
      <4> QED  BY <1>4, <4>1, <4>2
    <3>2. chan[d] \in ChannelState
      BY <1>0
    <3> QED  BY <2>1, <3>1, <3>2 DEF SameFor, ChannelState
  <2>3. ASSUME NEW k \in Tokens
        PROVE  /\ token'[k].cancelled = token[k].cancelled
               /\ token'[k].notifying = token[k].notifying
               /\ u \in token[k].waiters => u \in token'[k].waiters
    <3>1. PICK W : token'[k] = [token[k] EXCEPT !.waiters = W]
                   /\ (u \in token[k].waiters => u \in W)
      <4>1. CASE TakesDefault(t)
        BY <4>1 DEF TakesDefault
      <4>2. CASE EntersSelect(t)
        BY <4>2 DEF EntersSelect
      <4> QED  BY <1>4, <4>1, <4>2
    <3>2. token[k] \in CancellationState
      BY <1>0
    <3> QED  BY <3>1, <3>2 DEF CancellationState
  <2> QED  BY <2>1, <2>2, <2>3, ChangeInforms DEF StaysListed, SameTokens
<1> QED  BY <1>1, <1>2, <1>3, <1>4 DEF SelectStep

(* A send or recv of t that looks or waits, seen by another thread.        *)
LEMMA StepInforms ==
  ASSUME SelectInv, ChannelNext, NEW t \in Threads, Step(t), NEW u \in Threads \ {t}
  PROVE  Informed(u)
<1>0. /\ chan \in [Chans -> ChannelState] /\ token \in [Tokens -> CancellationState]
      /\ signal \in [Threads -> BOOLEAN] /\ waiting' = waiting /\ TypeInv
  BY DEF SelectInv, TypeInv, TypeOK, ChannelNext, selVars
<1>1. ASSUME NEW k, Forget(t, k)
      PROVE  SameTokens /\ \A j \in Tokens : u \in token[j].waiters => u \in token'[j].waiters
  <2> SUFFICES ASSUME NEW j \in Tokens
               PROVE  /\ token'[j].cancelled = token[j].cancelled
                      /\ token'[j].notifying = token[j].notifying
                      /\ u \in token[j].waiters => u \in token'[j].waiters
    BY DEF SameTokens
  <2>1. token[j] \in CancellationState
    BY <1>0
  <2>2. token'[j] = [token[j] EXCEPT !.waiters = IF j = k THEN @ \ {t} ELSE @]
    BY <1>1 DEF Forget
  <2> QED  BY <2>1, <2>2 DEF CancellationState
<1>2. CASE SendBlocks(t) \/ RecvBlocks(t) \/ Arm(t) \/ Wake(t)
  <2>1. chan' = chan /\ token' = token /\ signal'[u] = signal[u]
    BY <1>0, <1>2 DEF SendBlocks, RecvBlocks, PrepareToWait, Arm, ReadGeneration, Wake
  <2> QED  BY <1>0, <2>1, ChangeInforms DEF SameFor, SameTokens, StaysListed
<1>3. CASE Register(t)
  <2>1. PICK c \in Chans : c = op[t].chan
    BY <1>0, <1>3 DEF Register, TypeInv, OperationShape
  <2>2. chan' = [chan EXCEPT ![c] = [chan[c] EXCEPT !.listeners = @ \cup {t}]]
    BY <1>3, <2>1 DEF Register
  <2>3. \A d \in Chans : SameFor(d) /\ (u \in chan[d].listeners => u \in chan'[d].listeners)
    BY <1>0, <2>2 DEF SameFor, ChannelState
  <2>4. signal'[u] = signal[u]
    BY <1>0, <1>3 DEF Register
  <2>5. ASSUME NEW k \in Tokens
        PROVE  /\ token'[k].cancelled = token[k].cancelled
               /\ token'[k].notifying = token[k].notifying
               /\ u \in token[k].waiters => u \in token'[k].waiters
    <3>1. token'[k] = [token[k] EXCEPT !.waiters = IF k = op[t].tok THEN @ \cup {t} ELSE @]
      BY <1>3 DEF Register, Watch
    <3> QED  BY <1>0, <3>1 DEF CancellationState
  <2> QED  BY <2>3, <2>4, <2>5, ChangeInforms DEF StaysListed, SameTokens
<1>4. CASE \/ SendHandedOff(t) \/ SendGivesUp(t) \/ SendOffers(t) \/ SendBuffers(t)
           \/ RecvTakes(t) \/ RecvGivesUp(t) \/ RecvAnnounces(t)
  <2>1. PICK c \in Chans : c = op[t].chan /\ chan[c] \in ChannelState
    BY <1>0, <1>4 DEF SendHandedOff, SendGivesUp, SendOffers, SendBuffers, SendContinues, RecvTakes,
         RecvGivesUp, RecvAnnounces, RecvContinues, Looks, TypeInv, OperationShape
  <2>2. SameTokens /\ \A j \in Tokens : u \in token[j].waiters => u \in token'[j].waiters
    <3>1. CASE SendOffers(t) \/ RecvAnnounces(t)
      BY <3>1 DEF SendOffers, RecvAnnounces, SameTokens
    <3>2. CASE ~(SendOffers(t) \/ RecvAnnounces(t))
      <4>1. Forget(t, op[t].tok)
        BY <1>4, <3>2 DEF SendHandedOff, SendGivesUp, SendBuffers, RecvTakes, RecvGivesUp, Leave
      <4> QED  BY <1>1, <4>1
    <3> QED  BY <3>1, <3>2
  <2>3. /\ \A d \in Chans \ {c} : chan'[d] = chan[d]
        /\ u \in chan[c].listeners => u \in chan'[c].listeners
    <3>1. \A d \in Chans \ {c} : chan'[d] = chan[d]
      BY <1>0, <1>4, <2>1 DEF SendHandedOff, SendGivesUp, SendOffers, SendBuffers, RecvTakes,
         RecvGivesUp, RecvAnnounces
    <3>2. CASE SendHandedOff(t)
      BY <1>0, <2>1, <3>2 DEF SendHandedOff, ChannelState
    <3>3. CASE SendOffers(t)
      BY <1>0, <2>1, <3>3 DEF SendOffers, ChannelState
    <3>4. CASE SendBuffers(t)
      <4>1. chan'[c] = [chan[c] EXCEPT !.queue = Append(@, op[t].val), !.listeners = @ \ {t}]
        BY <1>0, <2>1, <3>4 DEF SendBuffers
      <4>2. u \in chan[c].listeners => u \in chan'[c].listeners
        BY <2>1, <4>1 DEF ChannelState
      <4> QED  BY <3>1, <4>2
    <3>5. CASE SendGivesUp(t)
      BY <1>0, <2>1, <3>5 DEF SendGivesUp, ChannelState
    <3>6. CASE RecvGivesUp(t) \/ RecvAnnounces(t)
      <4>1. u \in chan[c].listeners => u \in chan'[c].listeners
        BY <1>0, <2>1, <3>6 DEF RecvGivesUp, RecvAnnounces, ChannelState
      <4> QED  BY <3>1, <4>1
    <3>7. CASE RecvTakes(t)
      <4>1. WithoutNext(c).listeners = chan[c].listeners /\ "listeners" \in DOMAIN WithoutNext(c)
        BY <2>1 DEF WithoutNext, ChannelState
      <4>2. chan'[c] = [WithoutNext(c) EXCEPT !.receivers = ReceiversWithout(t),
                                              !.listeners = @ \ {t}]
        BY <1>0, <2>1, <3>7 DEF RecvTakes
      <4>3. u \in chan[c].listeners => u \in chan'[c].listeners
        BY <4>1, <4>2
      <4> QED  BY <3>1, <4>3
    <3> QED  BY <1>4, <3>1, <3>2, <3>3, <3>4, <3>5, <3>6, <3>7
  <2>4. StaysListed(u)
    BY <2>2, <2>3 DEF StaysListed
  <2>5. \A d \in Chans \ {c} : SameFor(d)
    BY <1>0, <2>3 DEF SameFor
  <2>6. CASE NotifyListeners(c) \/ NotifyAndDrop(c, t)
    <3>1. signal[u] \/ u \in chan[c].listeners => signal'[u]
      BY <2>6 DEF NotifyListeners, Notify, NotifyAndDrop
    <3> QED  BY <2>2, <2>4, <2>5, <3>1, ChangeInforms
  <2>7. CASE DropSignal(t) /\ (SendHandedOff(t) \/ ((SendGivesUp(t) \/ RecvGivesUp(t)) /\ ~op[t].held))
    <3>1. signal'[u] = signal[u]
      BY <1>0, <2>7 DEF DropSignal
    <3>2. SameFor(c)
      <4>1. CASE SendHandedOff(t) \/ SendGivesUp(t)
        <5>1. chan' = [chan EXCEPT ![c] = [chan[c] EXCEPT !.listeners = @ \ {t}]]
          BY <2>1, <2>7, <4>1 DEF SendHandedOff, SendGivesUp
        <5> QED  BY <1>0, <2>1, <5>1 DEF SameFor, ChannelState
      <4>2. CASE RecvGivesUp(t) /\ ~op[t].held
        <5>1. chan' = [chan EXCEPT ![c] = [chan[c] EXCEPT !.receivers = chan[c].receivers,
                                                          !.listeners = @ \ {t}]]
          BY <2>1, <4>2 DEF RecvGivesUp, ReceiversWithout
        <5> QED  BY <1>0, <2>1, <5>1 DEF SameFor, ChannelState
      <4> QED  BY <2>7, <4>1, <4>2
    <3> QED  BY <2>2, <2>4, <2>5, <3>1, <3>2, ChangeInforms
  <2> QED  BY <1>4, <2>1, <2>6, <2>7 DEF SendHandedOff, SendGivesUp, SendOffers, SendBuffers,
              RecvTakes, RecvGivesUp, RecvAnnounces
<1> QED  BY <1>2, <1>3, <1>4 DEF Step, SendStep, RecvStep, WaitStep

(* A call of the program, or the second half of a cancel.                  *)
LEMMA CallInforms ==
  ASSUME SelectInv, ChannelNext, ChannelCall \/ (\E k \in Tokens : CancelNotifies(k)),
         NEW u \in Threads
  PROVE  Informed(u)
<1>0. /\ chan \in [Chans -> ChannelState] /\ token \in [Tokens -> CancellationState]
      /\ signal \in [Threads -> BOOLEAN] /\ waiting' = waiting
  BY DEF SelectInv, TypeInv, TypeOK, ChannelNext, selVars
<1>1. CASE chan' = chan /\ token' = token /\ signal' = signal
  BY <1>0, <1>1, ChangeInforms DEF SameFor, SameTokens, StaysListed
<1>2. ASSUME NEW c \in Chans, Close(c) PROVE Informed(u)
  <2>1. (signal[u] => signal'[u]) /\ (u \in chan[c].listeners => signal'[u])
    BY <1>2 DEF Close, NotifyListeners, Notify
  <2>2. chan' = [chan EXCEPT ![c] = [chan[c] EXCEPT !.closed = TRUE]] /\ token' = token
    BY <1>2 DEF Close
  <2>3. /\ \A d \in Chans \ {c} : chan'[d] = chan[d]
        /\ chan'[c].listeners = chan[c].listeners
    BY <1>0, <2>2 DEF ChannelState
  <2>4. StaysListed(u) /\ SameTokens
    BY <2>2, <2>3 DEF StaysListed, SameTokens
  <2>5. \A d \in Chans : SameFor(d) \/ (u \in chan[d].listeners => signal'[u])
    BY <1>0, <2>1, <2>3 DEF SameFor
  <2> QED  BY <2>1, <2>4, <2>5, ChangeInforms
<1>3. ASSUME NEW k \in Tokens, Cancel(k) \/ CancelNotifies(k) PROVE Informed(u)
  <2>1. chan' = chan /\ (signal[u] => signal'[u])
    BY <1>3 DEF Cancel, RaiseFlag, CancelNotifies, NotifyWatchers, Notify
  <2>2. \A d \in Chans : ~Gains(d)
    BY <1>0, <2>1 DEF Gains, HasValue, CanSend, Rendezvous
  <2>3. ASSUME NEW j \in Tokens, u \in token[j].waiters
        PROVE  u \in token'[j].waiters /\ (TokenWork(j)' /\ ~TokenWork(j) => signal'[u])
    <3>1. token[j] \in CancellationState
      BY <1>0
    <3>2. CASE j # k
      <4>1. token'[j] = token[j]
        BY <1>0, <1>3, <3>2 DEF Cancel, RaiseFlag, CancelNotifies, NotifyWatchers
      <4> QED  BY <2>3, <4>1 DEF TokenWork, IsCancelled
    <3>3. CASE j = k /\ Cancel(k)
      <4>1. token'[j] = [token[j] EXCEPT !.cancelled = TRUE, !.notifying = TRUE]
        BY <1>0, <3>3 DEF Cancel, RaiseFlag
      <4> QED  BY <2>3, <3>1, <4>1 DEF TokenWork, CancellationState
    <3>4. CASE j = k /\ CancelNotifies(k)
      <4>1. token'[j] = [token[j] EXCEPT !.notifying = FALSE] /\ signal'[u]
        BY <1>0, <2>3, <3>4 DEF CancelNotifies, NotifyWatchers, Notify
      <4> QED  BY <2>3, <3>1, <4>1 DEF CancellationState
    <3> QED  BY <1>3, <3>2, <3>3, <3>4
  <2> QED  BY <2>1, <2>2, <2>3 DEF Informed
<1> QED  BY <1>1, <1>2, <1>3 DEF ChannelCall, Send, Recv

----------------------------------------------------------------------------
(* The steps of a select, seen by itself.                                  *)

(* Outside of a select nothing is asked.                                   *)
LEMMA NotSelectingWell ==
  ASSUME NEW t \in Threads, sel'[t].pc \in {"idle", "body"} \/ sel'[t].over,
         sel'[t].pc \notin {"poll", "try", "asleep"}
  PROVE  SelectWell(t)'
BY DEF SelectWell, Selecting, Waiting

(* Between the polls only the registration counts.                         *)
LEMMA BetweenPollsWell ==
  ASSUME SelectInv, NEW t \in Threads, SelectWell(t), Selecting(t),
         chan' = chan, token' = token, sel'[t].arms = sel[t].arms,
         sel'[t].pc \notin {"poll", "try", "asleep"} \/ (sel'[t].pc = "poll" /\ ~sel'[t].second)
  PROVE  SelectWell(t)'
BY DEF SelectWell, Registered

LEMMA MissesWell ==
  ASSUME SelectInv, NEW t \in Threads, SelectWell(t), RecvArmMisses(t) \/ SendArmMisses(t)
  PROVE  SelectWell(t)'
<1>0. PICK s : /\ s = sel[t] /\ s \in SelectState /\ ShapeOf(s, op[t].pc)
               /\ s.arms \in Seq(Arms) /\ Len(s.arms) \in Nat
               /\ s.start \in Nat /\ s.offset \in Nat /\ s.second \in BOOLEAN
  BY SelectFields
<1>1. PICK r : r = [s EXCEPT !.offset = s.offset + 1, !.pc = "poll"]
  OBVIOUS
<1>2. sel'[t] = r /\ UNCHANGED <<chan, token, signal, waiting>>
  BY <1>0, <1>1 DEF RecvArmMisses, SendArmMisses, Misses, vars, SelectInv, SelectTypes
<1>3. /\ r.arms = s.arms /\ r.start = s.start /\ r.second = s.second /\ r.pc = "poll"
      /\ r.offset = s.offset + 1
  BY <1>0, <1>1 DEF SelectState
<1>4. s.pc \in {"poll", "try"} /\ Selecting(t)
  BY <1>0 DEF RecvArmMisses, SendArmMisses, Polls, Selecting, Waiting, ShapeOf
<1>5. \A i \in DOMAIN s.arms : Registered(t, s.arms[i])
  BY <1>0, <1>4 DEF SelectWell
<1>6. PICK a : a = Polled(t) /\ a = s.arms[ArmAfter(s.start, s.offset, Len(s.arms))]
  BY <1>0, <1>4, PolledArm DEF NextArm
<1>7. ASSUME s.second, ~signal[t] PROVE ~Work(t, a) /\ s.offset < Len(s.arms)
  <2>1. CASE RecvArmMisses(t)
    BY <1>0, <1>6, <2>1 DEF RecvArmMisses, Polls, Work, ChanWork, TokenWork, ArmCount
  <2>2. CASE SendArmMisses(t)
    <3>1. s.pc = "try" /\ a.kind = "send" /\ ~TokenWork(a.tok) /\ s.offset < Len(s.arms)
      BY <1>0, <1>6, <1>7, <2>2 DEF SendArmMisses, SelectWell, ShapeOf, NextArm
    <3>2. ~chan[a.chan].closed /\ ~SendArmReady(t)
      BY <1>6, <2>2 DEF SendArmMisses
    <3> QED  BY <1>6, <3>1, <3>2 DEF SendArmReady, Work, ChanWork
  <2> QED  BY <2>1, <2>2
<1>8. ASSUME s.second, ~signal[t]
      PROVE  /\ s.offset + 1 <= Len(s.arms)
             /\ \A k \in Nat : k < s.offset + 1 =>
                  ~Work(t, s.arms[ArmAfter(s.start, k, Len(s.arms))])
  <2>1. \A k \in Nat : k < s.offset => ~Work(t, s.arms[ArmAfter(s.start, k, Len(s.arms))])
    BY <1>0, <1>4, <1>8 DEF SelectWell
  <2>2. ASSUME NEW k \in Nat, k < s.offset + 1
        PROVE  ~Work(t, s.arms[ArmAfter(s.start, k, Len(s.arms))])
    <3>1. k < s.offset \/ k = s.offset
      BY <1>0, <2>2
    <3> QED  BY <1>6, <1>7, <1>8, <2>1, <3>1
  <2> QED  BY <1>0, <1>7, <1>8, <2>2
<1>9. \A b : Work(t, b)' <=> Work(t, b)
  BY <1>2 DEF Work, ChanWork, TokenWork, IsCancelled, HasValue, CanSend, Rendezvous, HasWaitingReceiver
<1>10. \A b : Registered(t, b)' <=> Registered(t, b)
  BY <1>2 DEF Registered
<1>11. \A k \in Nat : ~Work(t, s.arms[ArmAfter(s.start, k, Len(s.arms))])
                        => ~Work(t, s.arms[ArmAfter(s.start, k, Len(s.arms))])'
  BY <1>9
<1>12. \A i \in DOMAIN s.arms : Registered(t, s.arms[i])'
  BY <1>5, <1>10
<1> QED  BY <1>2, <1>3, <1>8, <1>11, <1>12 DEF SelectWell

(* A step of the select of t moves no other select.                        *)
LEMMA SelTouchesOne ==
  ASSUME SelectInv, NEW t \in Threads, EntersSelect(t) \/ BodyEnds(t) \/ SelectStep(t)
  PROVE  \E r : sel' = [sel EXCEPT ![t] = r]
<1>1. CASE EntersSelect(t)
  BY <1>1 DEF EntersSelect
<1>2. CASE BodyEnds(t)
  <2>1. sel' = [sel EXCEPT ![t] = [sel[t] EXCEPT !.pc = "unguard", !.over = TRUE]]
    BY <1>2 DEF BodyEnds
  <2> QED  BY <2>1
<1>3. CASE SelectStep(t)
  <2>1. CASE \/ RecvArmTakes(t) \/ RecvArmFails(t) \/ SendArmIsCancelled(t)
             \/ SendArmIsClosed(t) \/ SendArmSends(t)
    <3>1. \E state, owners : Wins(t, state, owners)
      BY <2>1 DEF RecvArmTakes, RecvArmFails, SendArmIsCancelled, SendArmIsClosed, SendArmSends
    <3> QED  BY <3>1 DEF Wins
  <2>2. CASE RecvArmMisses(t) \/ SendArmMisses(t)
    <3>1. sel' = [sel EXCEPT ![t] = [sel[t] EXCEPT !.offset = @ + 1, !.pc = "poll"]]
      BY <2>2 DEF RecvArmMisses, SendArmMisses, Misses
    <3> QED  BY <3>1
  <2>3. CASE SendArmIsLive(t) \/ WakesUp(t)
    <3>1. \E pc : sel' = [sel EXCEPT ![t] = [sel[t] EXCEPT !.pc = pc]]
      BY <2>3 DEF SendArmIsLive, WakesUp
    <3> QED  BY <3>1
  <2>4. CASE TakesDefault(t) \/ StartsOver(t)
    BY <2>4 DEF TakesDefault, StartsOver
  <2>5. CASE BeginsWait(t)
    <3>1. sel' = [sel EXCEPT ![t] = [sel[t] EXCEPT !.pc = "guard", !.next = 1]]
      BY <2>5 DEF BeginsWait
    <3> QED  BY <3>1
  <2>6. CASE ReadsGeneration(t)
    <3>1. sel' = [sel EXCEPT ![t] = [sel[t] EXCEPT !.pc = "poll", !.offset = 0, !.second = TRUE]]
      BY <2>6 DEF ReadsGeneration
    <3> QED  BY <3>1
  <2>7. CASE FallsAsleep(t)
    <3>1. \E x : sel' = [sel EXCEPT ![t] = [sel[t] EXCEPT !.pc = "asleep", !.start = x]]
      BY <2>7 DEF FallsAsleep, SelectInv, SelectTypes
    <3> QED  BY <3>1
  <2>8. CASE MakesGuard(t)
    <3>1. \E n, h : sel' = [sel EXCEPT ![t] = [sel[t] EXCEPT !.next = n, !.held = h]]
      <4>1. CASE Guarded(t, sel[t].next)
        <5>1. sel' = [sel EXCEPT ![t] = [sel[t] EXCEPT !.next = sel[t].next + 1,
                                                       !.held = sel[t].held \cup {sel[t].next}]]
          BY <2>8, <4>1 DEF MakesGuard, SelectInv, SelectTypes
        <5> QED  BY <5>1
      <4>2. CASE ~Guarded(t, sel[t].next)
        <5>1. sel' = [sel EXCEPT ![t] = [sel[t] EXCEPT !.next = sel[t].next + 1]]
          BY <2>8, <4>2 DEF MakesGuard
        <5>2. [sel[t] EXCEPT !.next = sel[t].next + 1]
                = [sel[t] EXCEPT !.next = sel[t].next + 1, !.held = sel[t].held]
          BY SelectFields DEF SelectState
        <5> QED  BY <5>1, <5>2
      <4> QED  BY <4>1, <4>2
    <3> QED  BY <3>1
  <2>9. CASE DropsGuard(t)
    <3>1. \E h : sel' = [sel EXCEPT ![t] = [sel[t] EXCEPT !.held = h]]
      BY <2>9 DEF DropsGuard, SelectInv, SelectTypes
    <3> QED  BY <3>1
  <2> QED  BY <1>3, <2>1, <2>2, <2>3, <2>4, <2>5, <2>6, <2>7, <2>8, <2>9 DEF SelectStep
<1> QED  BY <1>1, <1>2, <1>3

LEMMA GoesLiveWell ==
  ASSUME SelectInv, NEW t \in Threads, SelectWell(t), SendArmIsLive(t)
  PROVE  SelectWell(t)'
<1>0. PICK s : /\ s = sel[t] /\ s \in SelectState /\ ShapeOf(s, op[t].pc)
               /\ s.arms \in Seq(Arms) /\ Len(s.arms) \in Nat
               /\ s.start \in Nat /\ s.offset \in Nat /\ s.second \in BOOLEAN
  BY SelectFields
<1>1. PICK r : r = [s EXCEPT !.pc = "try"]
  OBVIOUS
<1>2. sel'[t] = r /\ UNCHANGED <<chan, token, signal, waiting>>
  BY <1>0, <1>1 DEF SendArmIsLive, vars, SelectInv, SelectTypes
<1>3. /\ r.arms = s.arms /\ r.start = s.start /\ r.second = s.second /\ r.pc = "try"
      /\ r.offset = s.offset
  BY <1>0, <1>1 DEF SelectState
<1>4. s.pc = "poll" /\ Selecting(t) /\ s.offset < Len(s.arms)
  BY <1>0 DEF SendArmIsLive, Polls, Selecting, Waiting, ShapeOf, ArmCount
<1>5. NextArm(r) = Polled(t)
  BY <1>0, <1>3, <1>4, PolledArm DEF NextArm
<1>6. ~TokenWork(NextArm(r).tok)
  BY <1>5 DEF SendArmIsLive, TokenWork
<1>7. \A b : Work(t, b)' <=> Work(t, b)
  BY <1>2 DEF Work, ChanWork, TokenWork, IsCancelled, HasValue, CanSend, Rendezvous, HasWaitingReceiver
<1>8. \A b : Registered(t, b)' <=> Registered(t, b)
  BY <1>2 DEF Registered
<1>9. \A i \in DOMAIN s.arms : Registered(t, s.arms[i])'
  BY <1>0, <1>4, <1>8 DEF SelectWell
<1>10. s.second /\ ~signal[t] =>
         \A k \in Nat : k < s.offset => ~Work(t, s.arms[ArmAfter(s.start, k, Len(s.arms))])'
  BY <1>0, <1>4, <1>7 DEF SelectWell
<1>11. ~TokenWork(NextArm(r).tok)'
  <2>1. PICK k : k = NextArm(r).tok
    OBVIOUS
  <2>2. ~TokenWork(k)'
    BY <1>2, <1>6, <2>1 DEF TokenWork, IsCancelled
  <2> QED  BY <2>1, <2>2
<1> QED  BY <1>0, <1>2, <1>3, <1>4, <1>9, <1>10, <1>11 DEF SelectWell

(* A full second poll that found nothing has looked at every arm.          *)
LEMMA FallsAsleepWell ==
  ASSUME SelectInv, NEW t \in Threads, SelectWell(t), FallsAsleep(t)
  PROVE  SelectWell(t)'
<1>0. PICK s : /\ s = sel[t] /\ s \in SelectState /\ ShapeOf(s, op[t].pc)
               /\ s.arms \in Seq(Arms) /\ Len(s.arms) \in Nat
               /\ s.start \in Nat /\ s.offset \in Nat /\ s.second \in BOOLEAN
  BY SelectFields
<1>1. PICK r, x : r = [s EXCEPT !.pc = "asleep", !.start = x] /\ sel'[t] = r
  BY <1>0 DEF FallsAsleep, SelectInv, SelectTypes
<1>2. UNCHANGED <<chan, token, signal, waiting>>
  BY DEF FallsAsleep, vars
<1>3. r.arms = s.arms /\ r.pc = "asleep"
  BY <1>0, <1>1 DEF SelectState
<1>4. /\ s.pc = "poll" /\ s.second /\ Selecting(t) /\ s.offset = Len(s.arms)
      /\ Len(s.arms) \in Nat \ {0} /\ s.start < Len(s.arms)
  BY <1>0 DEF FallsAsleep, PolledAll, Selecting, Waiting, ShapeOf, ArmCount
<1>5. \A i \in DOMAIN s.arms : Registered(t, s.arms[i])
  BY <1>0, <1>4 DEF SelectWell
<1>6. ASSUME ~signal[t], NEW i \in DOMAIN s.arms PROVE ~Work(t, s.arms[i])
  <2>1. i \in 1 .. Len(s.arms)
    BY <1>0
  <2>2. PICK k \in 0 .. Len(s.arms) - 1 : ArmAfter(s.start, k, Len(s.arms)) = i
    <3>1. /\ Len(s.arms) \in Nat \ {0} /\ s.start \in Nat /\ s.start < Len(s.arms)
          /\ i \in 1 .. Len(s.arms)
      BY <1>0, <1>4, <2>1
    <3> QED  BY <3>1, EveryArmMet
  <2>3. k \in Nat /\ k < s.offset
    BY <1>4
  <2> QED  BY <1>0, <1>4, <1>6, <2>2, <2>3 DEF SelectWell
<1>7. \A b : (Work(t, b)' <=> Work(t, b)) /\ (Registered(t, b)' <=> Registered(t, b))
  BY <1>2 DEF Work, ChanWork, TokenWork, IsCancelled, HasValue, CanSend, Rendezvous,
     HasWaitingReceiver, Registered
<1>8. /\ \A i \in DOMAIN s.arms : Registered(t, s.arms[i])'
      /\ ~signal[t] => \A i \in DOMAIN s.arms : ~Work(t, s.arms[i])'
  BY <1>5, <1>6, <1>7
<1> QED  BY <1>1, <1>2, <1>3, <1>8 DEF SelectWell

LEMMA EntersWell ==
  ASSUME SelectInv, NEW t \in Threads, EntersSelect(t)
  PROVE  SelectWell(t)'
<1>1. PICK d : d = Selects[t][turn[t]]
  OBVIOUS
<1>2. PICK r, start : /\ r = [NoSelect EXCEPT !.pc = "poll", !.arms = d.arms,
                                              !.default = d.default, !.start = start]
                      /\ sel'[t] = r
  BY <1>1 DEF EntersSelect, SelectInv, SelectTypes
<1>3. r.pc = "poll" /\ r.arms = d.arms /\ r.second = FALSE
  BY <1>2 DEF NoSelect
<1>4. ASSUME NEW i \in DOMAIN d.arms PROVE Registered(t, d.arms[i])'
  <2>1. PICK a : a = d.arms[i]
    OBVIOUS
  <2>2. a \in Arms /\ a.chan \in Chans
    <3>1. sel' \in [Threads -> SelectState]
      BY EntersKeeps DEF Keeps, SelectTypes
    <3>2. d.arms \in Seq(Arms)
      BY <1>2, <1>3, <3>1 DEF SelectState
    <3>3. a \in Arms
      BY <2>1, <3>2
    <3> QED  BY <3>3, ArmFields
  <2>3. a.chan \in Watched(d) /\ a.tok \in WatchedTokens(d)
    BY <2>1 DEF Watched, WatchedTokens
  <2>4. t \in chan'[a.chan].listeners
    <3>1. chan'[a.chan] = [chan[a.chan] EXCEPT !.listeners = @ \cup {t}]
      BY <1>1, <2>2, <2>3 DEF EntersSelect
    <3> QED  BY <2>2, <3>1 DEF ChannelState, SelectInv, TypeInv, TypeOK
  <2>5. a.tok \in Tokens => t \in token'[a.tok].waiters
    <3>1. a.tok \in Tokens => token'[a.tok] = [token[a.tok] EXCEPT !.waiters = @ \cup {t}]
      BY <1>1, <2>3 DEF EntersSelect
    <3> QED  BY <3>1 DEF CancellationState, SelectInv, TypeInv, TypeOK
  <2> QED  BY <2>1, <2>4, <2>5 DEF Registered
<1> QED  BY <1>2, <1>3, <1>4 DEF SelectWell

LEMMA OwnStepWell ==
  ASSUME SelectInv, NEW t \in Threads, SelectWell(t),
         EntersSelect(t) \/ BodyEnds(t) \/ SelectStep(t)
  PROVE  SelectWell(t)'
<1>0. /\ sel[t] \in SelectState /\ ShapeOf(sel[t], op[t].pc) /\ sel \in [Threads -> SelectState]
      /\ sel[t].over \in BOOLEAN
  BY SelectFields DEF SelectInv, SelectTypes
<1>1. CASE \/ RecvArmTakes(t) \/ RecvArmFails(t) \/ SendArmIsCancelled(t)
           \/ SendArmIsClosed(t) \/ SendArmSends(t)
  <2>1. \E state, owners : Wins(t, state, owners)
    BY <1>1 DEF RecvArmTakes, RecvArmFails, SendArmIsCancelled, SendArmIsClosed, SendArmSends
  <2>2. sel'[t] = NoSelect \/ sel'[t] = [sel[t] EXCEPT !.pc = "body"]
    BY <1>0, <2>1 DEF Wins
  <2>3. sel'[t].pc \in {"idle", "body"}
    BY <1>0, <2>2 DEF NoSelect, SelectState
  <2> QED  BY <2>3, NotSelectingWell
<1>2. CASE TakesDefault(t) \/ (StartsOver(t) /\ sel[t].over)
  <2>1. sel'[t].pc = "idle"
    BY <1>0, <1>2 DEF TakesDefault, StartsOver, NoSelect
  <2> QED  BY <2>1, NotSelectingWell
<1>3. CASE BodyEnds(t)
  <2>1. sel'[t] = [sel[t] EXCEPT !.pc = "unguard", !.over = TRUE]
    BY <1>0, <1>3 DEF BodyEnds
  <2>2. sel'[t].over /\ sel'[t].pc = "unguard"
    BY <1>0, <2>1 DEF SelectState
  <2> QED  BY <2>2, NotSelectingWell
<1>4. CASE BeginsWait(t) \/ MakesGuard(t) \/ WakesUp(t) \/ (StartsOver(t) /\ ~sel[t].over)
  <2>1. chan' = chan /\ token' = token /\ Selecting(t)
    BY <1>0, <1>4 DEF BeginsWait, PolledAll, MakesGuard, WakesUp, StartsOver, vars, Selecting,
       Waiting, ShapeOf
  <2>2. /\ sel'[t].arms = sel[t].arms
        /\ sel'[t].pc \in {"guard", "unguard"} \/ (sel'[t].pc = "poll" /\ ~sel'[t].second)
    <3>1. CASE BeginsWait(t) \/ WakesUp(t)
      BY <1>0, <3>1 DEF BeginsWait, WakesUp, SelectState
    <3>2. CASE MakesGuard(t)
      <4>1. \/ sel'[t] = [sel[t] EXCEPT !.next = sel[t].next + 1, !.held = @ \cup {sel[t].next}]
            \/ sel'[t] = [sel[t] EXCEPT !.next = sel[t].next + 1]
        BY <1>0, <3>2 DEF MakesGuard
      <4>2. sel[t].pc = "guard"
        BY <3>2 DEF MakesGuard
      <4> QED  BY <1>0, <4>1, <4>2 DEF SelectState
    <3>3. CASE StartsOver(t) /\ ~sel[t].over
      <4>1. sel'[t] = [sel[t] EXCEPT !.pc = "poll", !.offset = 0, !.second = FALSE]
        BY <1>0, <3>3 DEF StartsOver
      <4> QED  BY <1>0, <4>1 DEF SelectState
    <3> QED  BY <1>4, <3>1, <3>2, <3>3
  <2> QED  BY <2>1, <2>2, BetweenPollsWell
<1>5. CASE DropsGuard(t)
  <2>1. PICK i : sel'[t] = [sel[t] EXCEPT !.held = @ \ {i}]
    BY <1>0, <1>5 DEF DropsGuard
  <2>2. /\ sel'[t].arms = sel[t].arms /\ sel'[t].pc = "unguard" /\ sel[t].pc = "unguard"
        /\ sel'[t].over = sel[t].over
    BY <1>0, <1>5, <2>1 DEF SelectState, DropsGuard
  <2>3. chan' = chan /\ token' = token
    BY <1>5 DEF DropsGuard
  <2>4. CASE sel[t].over
    BY <2>2, <2>4, NotSelectingWell
  <2>5. CASE ~sel[t].over
    <3>1. Selecting(t)
      BY <2>2, <2>5 DEF Selecting, Waiting
    <3> QED  BY <2>2, <2>3, <3>1, BetweenPollsWell
  <2> QED  BY <2>4, <2>5
<1>6. CASE ReadsGeneration(t)
  <2>1. PICK r : /\ r = [sel[t] EXCEPT !.pc = "poll", !.offset = 0, !.second = TRUE]
                 /\ sel'[t] = r
    BY <1>0, <1>6 DEF ReadsGeneration
  <2>2. r.arms = sel[t].arms /\ r.pc = "poll" /\ r.offset = 0
    BY <1>0, <2>1 DEF SelectState
  <2>3. chan' = chan /\ token' = token /\ Selecting(t)
    BY <1>0, <1>6 DEF ReadsGeneration, Selecting, Waiting, ShapeOf
  <2>4. \A i \in DOMAIN r.arms : Registered(t, r.arms[i])
    BY <2>2, <2>3 DEF SelectWell
  <2>5. \A b : Registered(t, b)' <=> Registered(t, b)
    BY <2>3 DEF Registered
  <2>6. \A i \in DOMAIN r.arms : Registered(t, r.arms[i])'
    BY <2>4, <2>5
  <2>7. Len(r.arms) \in Nat
    BY <2>2, SelectFields
  <2> QED  BY <2>1, <2>2, <2>6, <2>7 DEF SelectWell
<1> QED  BY <1>1, <1>2, <1>3, <1>4, <1>5, <1>6, MissesWell, GoesLiveWell, FallsAsleepWell,
            EntersWell, <1>0 DEF SelectStep

(* A select that sleeps with nothing on the way to wake it has no arm that *)
(* could win, for any arms of any selects on any channels and tokens: the  *)
(* registration comes first, the generation is read before the second poll *)
(* and whatever gives an arm work afterwards moves the generation on.      *)
THEOREM SelectsLoseNoWakeup == SelectSpec => []SleepingSelectsHaveNoWork
<1>1. SelectInit => SelectsWell
  BY DEF SelectInit, NoSelect, SelectsWell, SelectWell, Selecting, Waiting
<1>2. SelectInv /\ SelectsWell /\ [SelectNext]_allVars => SelectsWell'
  <2> SUFFICES ASSUME SelectInv, SelectsWell, [SelectNext]_allVars, NEW u \in Threads
               PROVE  SelectWell(u)'
    BY DEF SelectsWell
  <2>0. SelectWell(u)
    BY DEF SelectsWell
  <2>1. ASSUME NEW t \in Threads, EntersSelect(t) \/ BodyEnds(t) \/ SelectStep(t)
        PROVE  SelectWell(u)'
    <3>1. CASE u = t
      BY <2>0, <2>1, <3>1, OwnStepWell
    <3>2. CASE u # t
      <4>1. Informed(u)
        BY <2>1, <3>2, SelectInforms
      <4>2. sel'[u] = sel[u]
        <5>1. \E r : sel' = [sel EXCEPT ![t] = r]
          BY <2>1, SelTouchesOne
        <5> QED  BY <3>2, <5>1 DEF SelectInv, SelectTypes
      <4> QED  BY <2>0, <4>1, <4>2, InformedStays
    <3> QED  BY <3>1, <3>2
  <2>2. CASE ChannelNext
    <3>1. sel' = sel
      BY <2>2 DEF ChannelNext, selVars
    <3>2. CASE sel[u].pc \in {"idle", "body"}
      BY <3>1, <3>2, NotSelectingWell
    <3>3. CASE sel[u].pc \notin {"idle", "body"}
      <4>1. op[u].pc = "idle"
        BY <3>3, SelectFields DEF ShapeOf
      <4>2. ASSUME NEW t \in Threads, Step(t) PROVE Informed(u)
        <5>1. u # t
          BY <4>1, <4>2 DEF Step, SendStep, SendHandedOff, SendGivesUp, SendContinues, SendOffers, SendBuffers,
             SendBlocks, RecvStep, RecvTakes, RecvGivesUp, RecvContinues, RecvAnnounces, RecvBlocks,
             WaitStep, Register, Arm, Wake, Looks
        <5> QED  BY <2>2, <4>2, <5>1, StepInforms
      <4>3. Informed(u)
        BY <2>2, <4>2, CallInforms DEF ChannelNext
      <4> QED  BY <2>0, <3>1, <4>3, InformedStays
    <3> QED  BY <3>2, <3>3
  <2>3. CASE UNCHANGED allVars
    <3>1. UNCHANGED <<sel, chan, token, signal, waiting>>
      BY <2>3 DEF allVars, selVars, vars
    <3>2. Informed(u)
      BY <3>1, ChangeInforms DEF SameFor, SameTokens, StaysListed
    <3> QED  BY <2>0, <3>1, <3>2, InformedStays
  <2> QED  BY <2>1, <2>2, <2>3 DEF SelectNext
<1>3. SelectsWell => SleepingSelectsHaveNoWork
  BY WorkIsArmHasWork DEF SelectsWell, SelectWell, SleepingSelectsHaveNoWork
<1> QED  BY <1>1, <1>2, <1>3, SelectInvariant, PTL DEF SelectSpec

----------------------------------------------------------------------------
(***************************************************************************)
(* Selects keep the promise of the channels.                               *)
(***************************************************************************)

LEMMA TakesEffect ==
  ASSUME SelectInv, NEW t \in Threads, RecvArmTakes(t)
  PROVE  \E c \in Chans : c = Polled(t).chan /\ OnlyChannel(c) /\ Taken(c)
<1>1. PICK c \in Chans : c = Polled(t).chan
  BY PolledArm DEF RecvArmTakes, Polls
<1>2. chan \in [Chans -> ChannelState]
  BY DEF SelectInv, TypeInv, TypeOK
<1>3. PICK state : state = [chan EXCEPT ![c] = WithoutNext(c)]
  OBVIOUS
<1>4. /\ state \in [Chans -> ChannelState] /\ state[c] = WithoutNext(c)
      /\ state[c].closed = chan[c].closed
      /\ \A d \in Chans \ {c} : state[d] = chan[d]
  BY <1>2, <1>3, WinStateTypes
<1>5. Wins(t, state, chan[c].listeners)
  BY <1>1, <1>3 DEF RecvArmTakes
<1>6. \A d \in Chans : /\ chan'[d].queue = state[d].queue /\ chan'[d].slot = state[d].slot
                       /\ chan'[d].closed = state[d].closed
  BY <1>4, <1>5, WinsTypes
<1>7. OnlyChannel(c)
  BY <1>4, <1>6 DEF OnlyChannel
<1>8. Taken(c)
  BY <1>1, <1>4, <1>6 DEF Taken, RecvArmTakes
<1> QED  BY <1>1, <1>7, <1>8

(* What a send arm that wins makes of its channel: its value joins.        *)
JoinedBy(c, v) ==
  /\ ~chan[c].closed /\ ~chan'[c].closed /\ CanSend(c)
  /\ \/ Rendezvous(c) /\ chan'[c].slot = v /\ chan'[c].queue = chan[c].queue
     \/ /\ ~Rendezvous(c) /\ chan'[c].slot = chan[c].slot
        /\ chan'[c].queue = Append(chan[c].queue, v)
  /\ UNCHANGED <<taken, sawClosed>>

LEMMA SendsEffect ==
  ASSUME SelectInv, NEW t \in Threads, SendArmSends(t)
  PROVE  \E c \in Chans, v \in Values :
           c = Polled(t).chan /\ v = Polled(t).val /\ OnlyChannel(c) /\ JoinedBy(c, v)
<1>0. sel[t].pc = "try"
  BY DEF SendArmSends
<1>1. PICK c \in Chans, v \in Values : c = Polled(t).chan /\ v = Polled(t).val
  BY <1>0, PolledArm, SelectFields DEF ShapeOf
<1>2. chan \in [Chans -> ChannelState] /\ chan[c] \in ChannelState
  BY DEF SelectInv, TypeInv, TypeOK
<1>3. PICK state : state = [chan EXCEPT ![c] = Fill(c, v)]
  OBVIOUS
<1>4. /\ state \in [Chans -> ChannelState] /\ state[c] = Fill(c, v)
      /\ state[c].closed = chan[c].closed
      /\ \A d \in Chans \ {c} : state[d] = chan[d]
  BY <1>1, <1>2, <1>3, WinStateTypes
<1>5. Wins(t, state, chan[c].listeners)
  BY <1>1, <1>3 DEF SendArmSends
<1>6. \A d \in Chans : /\ chan'[d].queue = state[d].queue /\ chan'[d].slot = state[d].slot
                       /\ chan'[d].closed = state[d].closed
  BY <1>4, <1>5, WinsTypes
<1>7. OnlyChannel(c)
  BY <1>4, <1>6 DEF OnlyChannel
<1>8. \/ Rendezvous(c) /\ chan'[c].slot = v /\ chan'[c].queue = chan[c].queue
      \/ /\ ~Rendezvous(c) /\ chan'[c].slot = chan[c].slot
         /\ chan'[c].queue = Append(chan[c].queue, v)
  BY <1>2, <1>4, <1>6 DEF Fill, ChannelState
<1>9. JoinedBy(c, v)
  BY <1>1, <1>4, <1>6, <1>8 DEF JoinedBy, SendArmSends, SendArmReady
<1> QED  BY <1>1, <1>7, <1>9

(* A winning arm that leaves its channel as it is.                         *)
LEMMA RefusalEffect ==
  ASSUME SelectInv, NEW t \in Threads,
         RecvArmFails(t) \/ SendArmIsCancelled(t) \/ SendArmIsClosed(t)
  PROVE  SameContents /\ taken' = taken
<1>1. chan \in [Chans -> ChannelState]
  BY DEF SelectInv, TypeInv, TypeOK
<1>2. Wins(t, chan, {}) /\ taken' = taken
  BY DEF RecvArmFails, SendArmIsCancelled, SendArmIsClosed
<1> QED  BY <1>1, <1>2, WinsTypes DEF SameContents

LEMMA PauseEffect ==
  ASSUME SelectInv, NEW t \in Threads,
         \/ RecvArmMisses(t) \/ SendArmIsLive(t) \/ SendArmMisses(t)
         \/ TakesDefault(t) \/ BeginsWait(t) \/ MakesGuard(t) \/ ReadsGeneration(t)
         \/ FallsAsleep(t) \/ WakesUp(t) \/ DropsGuard(t) \/ StartsOver(t)
         \/ BodyEnds(t) \/ EntersSelect(t)
  PROVE  Quiet
<1>1. chan \in [Chans -> ChannelState]
  BY DEF SelectInv, TypeInv, TypeOK
<1>2. CASE TakesDefault(t) \/ EntersSelect(t)
  <2>1. ASSUME NEW c \in Chans PROVE \E L : chan'[c] = [chan[c] EXCEPT !.listeners = L]
    <3>1. CASE TakesDefault(t)
      <4>1. chan'[c] = [chan[c] EXCEPT !.listeners = chan[c].listeners \ {t}]
        BY <3>1 DEF TakesDefault
      <4> QED  BY <4>1
    <3>2. CASE EntersSelect(t)
      <4>1. \/ chan'[c] = [chan[c] EXCEPT !.listeners = chan[c].listeners \cup {t}]
            \/ chan'[c] = [chan[c] EXCEPT !.listeners = chan[c].listeners]
        BY <3>2 DEF EntersSelect
      <4> QED  BY <4>1
    <3> QED  BY <1>2, <3>1, <3>2
  <2>2. SameContents
    BY <1>1, <2>1 DEF SameContents, ChannelState
  <2> QED  BY <1>2, <2>2 DEF TakesDefault, EntersSelect, Quiet
<1>3. CASE ~(TakesDefault(t) \/ EntersSelect(t))
  <2>1. UNCHANGED <<chan, taken, sawClosed>>
    BY <1>3 DEF RecvArmMisses, SendArmIsLive, SendArmMisses, BeginsWait, MakesGuard,
       ReadsGeneration, FallsAsleep, WakesUp, DropsGuard, StartsOver, BodyEnds, Misses, vars
  <2> QED  BY <2>1 DEF Quiet, SameContents
<1> QED  BY <1>2, <1>3

LEMMA SelectEffect ==
  ASSUME SelectInv, KindsApart, NEW t \in Threads,
         EntersSelect(t) \/ BodyEnds(t) \/ SelectStep(t)
  PROVE  (Quiet \/ \E c \in Chans : Effect(c)) /\ OffersApart'
<1>1. OffersApart'
  <2>1. op' = op
    BY EntersKeeps, PollKeeps, PauseKeeps, MakesKeeps, DropsKeeps DEF SelectStep, Keeps
  <2> QED  BY <2>1 DEF OffersApart, KindsApart, Rendezvous
<1>2. CASE RecvArmTakes(t)
  BY <1>1, <1>2, TakesEffect DEF Effect
<1>3. CASE SendArmSends(t)
  <2>1. PICK c \in Chans, v \in Values : OnlyChannel(c) /\ JoinedBy(c, v)
    BY <1>3, SendsEffect
  <2>2. Joined(c)
    BY <2>1 DEF Joined, JoinedBy
  <2> QED  BY <1>1, <2>1, <2>2 DEF Effect
<1>4. CASE RecvArmFails(t)
  <2>1. PICK c \in Chans : c = Polled(t).chan
    BY <1>4, PolledArm DEF RecvArmFails, Polls
  <2>2. SameContents /\ taken' = taken
    BY <1>4, RefusalEffect
  <2>3. Told(c)
    BY <1>4, <2>1, <2>2 DEF RecvArmFails, Told, SameContents
  <2>4. OnlyChannel(c)
    BY <2>2 DEF SameContents, OnlyChannel
  <2> QED  BY <1>1, <2>3, <2>4 DEF Effect
<1>5. CASE SendArmIsCancelled(t) \/ SendArmIsClosed(t)
  <2>1. SameContents /\ taken' = taken /\ sawClosed' = sawClosed
    BY <1>5, RefusalEffect DEF SendArmIsCancelled, SendArmIsClosed
  <2> QED  BY <1>1, <2>1 DEF Quiet
<1> QED  BY <1>1, <1>2, <1>3, <1>4, <1>5, PauseEffect DEF SelectStep

LEMMA SelectNextRefines ==
  ASSUME SelectInv, SelectInv', PromiseInv, [SelectNext]_allVars
  PROVE  PromiseInv' /\ (Promise!Next \/ UNCHANGED Promise!vars)
<1>1. TypeInv /\ TypeInv' /\ KindsApart
  BY DEF SelectInv, PromiseInv
<1>2. (Quiet \/ \E c \in Chans : Effect(c)) /\ OffersApart'
  <2>1. CASE ChannelNext \/ UNCHANGED allVars
    <3>1. [Next]_vars
      BY <2>1, ChannelNextIsNext DEF allVars, vars
    <3> QED  BY <1>1, <3>1, StepEffect
  <2> QED  BY <1>1, <2>1, SelectEffect DEF SelectNext
<1>3. CASE Quiet
  BY <1>2, <1>3, QuietKeeps
<1>4. ASSUME NEW c \in Chans, Effect(c)
      PROVE  PromiseInv' /\ (Promise!Next \/ UNCHANGED Promise!vars)
  <2>1. PromiseInv'
    BY <1>1, <1>2, <1>4, EffectKeeps
  <2> QED  BY <1>1, <1>4, <2>1, EffectRefines
<1> QED  BY <1>2, <1>3, <1>4

(* The slot and the buffer of a channel keep to their kinds of channel,    *)
(* and what receivers were told of a close is true, with selects too.      *)
THEOREM SelectsPromiseInvariant == SelectSpec => []PromiseInv
<1>1. SelectInit => PromiseInv
  BY PromiseInit DEF SelectInit
<1>2. SelectInv /\ SelectInv' /\ PromiseInv /\ [SelectNext]_allVars => PromiseInv'
  BY SelectNextRefines
<1> QED  BY <1>1, <1>2, SelectInvariant, PTL DEF SelectSpec

(* Selects keep the promise of the channels as plain sends and recvs do:   *)
(* an arm that wins is one step of a first-in first-out line, and polling, *)
(* guarding, sleeping and giving up are none.                              *)
THEOREM SelectsKeepPromise == SelectSpec => PromiseKept
<1>1. SelectInit => Promise!Init
  BY PromiseInit DEF SelectInit
<1>2. SelectInv /\ SelectInv' /\ PromiseInv /\ [SelectNext]_allVars
        => [Promise!Next]_Promise!vars
  BY SelectNextRefines
<1> QED  BY <1>1, <1>2, SelectInvariant, SelectsPromiseInvariant,
            PTL DEF SelectSpec, PromiseKept, Promise!Spec

----------------------------------------------------------------------------
(***************************************************************************)
(* One arm of a select takes effect.                                       *)
(***************************************************************************)

(* Thread t offers on c in an arm of one of its selects.                   *)
OffersOn(t, c) ==
  \E i \in DOMAIN Selects[t] : \E j \in DOMAIN Selects[t][i].arms :
    Selects[t][i].arms[j].kind = "send" /\ Selects[t][i].arms[j].chan = c

(* A channel(0) on which plain sends are made has one thread that offers:  *)
(* with two, a sender whose value was taken can find the value of another  *)
(* in the slot and take it for its own (AllReportsAreTrue of Channel).     *)
OneOfferer ==
  \A c \in Chans : Rendezvous(c) =>
    \A t \in Senders[c], u \in Threads : u \in Senders[c] \/ OffersOn(u, c) => u = t

(* The values of c from the first that was taken to the last on offer.     *)
Trail(c) == taken[c] \o Line(c)
OnTrail(c, v) == v \in RangeOf(Trail(c))
Once(q) == \A i, j \in DOMAIN q : q[i] = q[j] => i = j

(* The values a thread has under way: of its send, or of its select's arms.*)
Owned(t) ==
  (IF op[t].kind = "send" THEN {op[t].val} ELSE {})
    \cup (IF Selecting(t) THEN Offered(sel[t]) ELSE {})

OfferOf(t, c, v) ==
  op[t].kind = "send" /\ op[t].held /\ op[t].chan = c /\ op[t].val = v

Settled(c, v) == outcome[v] = "ok" \/ \E t \in Threads : OfferOf(t, c, v)

OwnersApart ==
  \A t \in Threads : \A v \in Owned(t) :
    v \in Values /\ outcome[v] = "sending" /\ \A u \in Threads : v \in Owned(u) => u = t

(* A value is on one trail, once, and only if its send or arm succeeded or *)
(* is a plain send that waits to be told so; and success leaves a trail.   *)
Placed ==
  /\ \A c \in Chans : Once(Trail(c))
  /\ \A c, d \in Chans, v \in Values : OnTrail(c, v) /\ OnTrail(d, v) => c = d
  /\ \A c \in Chans, v \in Values : OnTrail(c, v) => Settled(c, v)
  /\ \A v \in Values : outcome[v] = "ok" => \E c \in Chans : OnTrail(c, v)

(* An offered value is in the slot or was taken from it.                   *)
Fits(c, v) ==
  IF chan[c].slot = NoValue THEN v \in RangeOf(taken[c]) ELSE chan[c].slot = v

OffersFit ==
  \A t \in Threads, c \in Chans, v \in Values : OfferOf(t, c, v) => Fits(c, v)

(* Sends and selects are the ones the program may run.                     *)
PlainSends == \A t \in Threads : op[t].kind = "send" => t \in Senders[op[t].chan]

ArmsOwn ==
  \A t \in Threads : sel[t].pc # "idle" =>
    \E i \in DOMAIN Selects[t] : sel[t].arms = Selects[t][i].arms

OneArmInv == OwnersApart /\ Placed /\ OffersFit /\ PlainSends /\ ArmsOwn

----------------------------------------------------------------------------
(* Trails as sequences.                                                    *)

LEMMA TrailType ==
  ASSUME TypeInv, KindsApart, NEW c \in Chans
  PROVE  /\ taken[c] \in Seq(Values) /\ Line(c) \in Seq(Values) /\ Trail(c) \in Seq(Values)
         /\ RangeOf(Trail(c)) \subseteq Values
<1>1. taken[c] \in Seq(Values) /\ Line(c) \in Seq(Values)
  BY LineOf DEF TypeInv, TypeOK
<1>2. Trail(c) \in Seq(Values)
  BY <1>1 DEF Trail
<1> QED  BY <1>1, <1>2 DEF RangeOf

LEMMA RangeOfBoth ==
  ASSUME NEW s \in Seq(Values), NEW r \in Seq(Values)
  PROVE  RangeOf(s \o r) = RangeOf(s) \cup RangeOf(r)
<1>1. /\ Len(s) \in Nat /\ Len(r) \in Nat /\ Len(s \o r) = Len(s) + Len(r)
      /\ s \o r \in Seq(Values)
  OBVIOUS
<1>2. ASSUME NEW i \in DOMAIN s PROVE s[i] \in RangeOf(s \o r)
  <2>1. i \in DOMAIN (s \o r) /\ (s \o r)[i] = s[i]
    BY <1>1
  <2> QED  BY <2>1, Zenon DEF RangeOf
<1>3. ASSUME NEW i \in DOMAIN r PROVE r[i] \in RangeOf(s \o r)
  <2>1. i \in 1 .. Len(r) /\ Len(s) + i \in 1 .. Len(s) + Len(r)
    BY <1>1
  <2>2. Len(s) + i \in DOMAIN (s \o r) /\ (s \o r)[Len(s) + i] = r[i]
    BY <1>1, <2>1
  <2> QED  BY <2>2, Zenon DEF RangeOf
<1>4. RangeOf(s) \cup RangeOf(r) \subseteq RangeOf(s \o r)
  BY <1>2, <1>3 DEF RangeOf
<1> QED  BY <1>4, RangeOfConcat

LEMMA OnceApart ==
  ASSUME NEW s \in Seq(Values), NEW r \in Seq(Values), Once(s \o r)
  PROVE  Once(s) /\ Once(r) /\ RangeOf(s) \cap RangeOf(r) = {}
<1>1. /\ Len(s) \in Nat /\ Len(r) \in Nat /\ Len(s \o r) = Len(s) + Len(r)
      /\ DOMAIN s = 1 .. Len(s) /\ DOMAIN r = 1 .. Len(r)
      /\ DOMAIN (s \o r) = 1 .. Len(s) + Len(r)
      /\ \A i \in 1 .. Len(s) : (s \o r)[i] = s[i]
      /\ \A i \in 1 .. Len(r) : (s \o r)[Len(s) + i] = r[i]
  OBVIOUS
<1>2. ASSUME NEW i \in 1 .. Len(s), NEW j \in 1 .. Len(s), s[i] = s[j] PROVE i = j
  <2>1. i \in DOMAIN (s \o r) /\ j \in DOMAIN (s \o r)
    BY <1>1
  <2> QED  BY <1>1, <1>2, <2>1 DEF Once
<1>3. ASSUME NEW i \in 1 .. Len(r), NEW j \in 1 .. Len(r), r[i] = r[j] PROVE i = j
  <2>1. Len(s) + i \in DOMAIN (s \o r) /\ Len(s) + j \in DOMAIN (s \o r)
    BY <1>1
  <2>2. (s \o r)[Len(s) + i] = (s \o r)[Len(s) + j]
    BY <1>1, <1>3
  <2>3. Len(s) + i = Len(s) + j
    BY <2>1, <2>2 DEF Once
  <2> QED  BY <1>1, <2>3
<1>4. ASSUME NEW i \in 1 .. Len(s), NEW j \in 1 .. Len(r), s[i] = r[j] PROVE FALSE
  <2>1. i \in DOMAIN (s \o r) /\ Len(s) + j \in DOMAIN (s \o r)
    BY <1>1
  <2>2. (s \o r)[i] = (s \o r)[Len(s) + j]
    BY <1>1, <1>4
  <2>3. i = Len(s) + j
    BY <2>1, <2>2 DEF Once
  <2> QED  BY <1>1, <2>3
<1> QED  BY <1>1, <1>2, <1>3, <1>4 DEF Once, RangeOf

LEMMA OnceAppended ==
  ASSUME NEW q \in Seq(Values), NEW v \in Values
  PROVE  Once(Append(q, v)) <=> Once(q) /\ v \notin RangeOf(q)
<1>1. /\ Len(q) \in Nat /\ DOMAIN q = 1 .. Len(q)
      /\ DOMAIN Append(q, v) = 1 .. Len(q) + 1
      /\ \A i \in 1 .. Len(q) : Append(q, v)[i] = q[i]
      /\ Append(q, v)[Len(q) + 1] = v
  OBVIOUS
<1>2. /\ 1 .. Len(q) + 1 = (1 .. Len(q)) \cup {Len(q) + 1}
      /\ Len(q) + 1 \notin 1 .. Len(q)
  BY <1>1
<1>3. PICK n, D, a : /\ n = Len(q) + 1 /\ D = 1 .. Len(q) /\ a = Append(q, v)
  OBVIOUS
<1>4. /\ DOMAIN q = D /\ DOMAIN a = D \cup {n} /\ n \notin D
      /\ \A i \in D : a[i] = q[i]
      /\ a[n] = v
  BY <1>1, <1>2, <1>3
<1>5. Once(a) <=> Once(q) /\ v \notin RangeOf(q)
  BY <1>4, Zenon DEF Once, RangeOf
<1> QED  BY <1>3, <1>5

(* The places of v in q.                                                   *)
Places(q, v) == {i \in DOMAIN q : q[i] = v}

LEMMA PlacesOnce ==
  ASSUME NEW q, NEW v, Once(q)
  PROVE  Cardinality(Places(q, v)) = IF v \in RangeOf(q) THEN 1 ELSE 0
<1>1. CASE v \in RangeOf(q)
  <2>1. PICK i \in DOMAIN q : q[i] = v
    BY <1>1 DEF RangeOf
  <2>2. Places(q, v) = {i}
    BY <2>1 DEF Places, Once
  <2> QED  BY <1>1, <2>2, FS_Singleton
<1>2. CASE v \notin RangeOf(q)
  <2>1. Places(q, v) = {}
    BY <1>2 DEF Places, RangeOf
  <2> QED  BY <1>2, <2>1, FS_EmptySet
<1> QED  BY <1>1, <1>2

LEMMA OccursOnce ==
  ASSUME TypeInv, KindsApart, Placed, NEW c \in Chans, NEW v \in Values
  PROVE  Occurrences(c, v) = IF OnTrail(c, v) THEN 1 ELSE 0
<1>1. /\ taken[c] \in Seq(Values) /\ Line(c) \in Seq(Values) /\ Once(taken[c] \o Line(c))
      /\ chan[c].queue \in Seq(Values) /\ chan[c].slot \in Values \cup {NoValue}
      /\ NoValue \notin Values
  BY TrailType, ChannelAssumption DEF TypeInv, TypeOK, ChannelState, Placed, Trail
<1>2. /\ Once(taken[c]) /\ Once(Line(c)) /\ RangeOf(taken[c]) \cap RangeOf(Line(c)) = {}
      /\ OnTrail(c, v) <=> v \in RangeOf(taken[c]) \cup RangeOf(Line(c))
  BY <1>1, OnceApart, RangeOfBoth DEF OnTrail, Trail
<1>3. Cardinality(Places(taken[c], v)) = IF v \in RangeOf(taken[c]) THEN 1 ELSE 0
  BY <1>2, PlacesOnce
<1>4. /\ Once(chan[c].queue)
      /\ v \in RangeOf(Line(c)) <=> (v \in RangeOf(chan[c].queue) \/ chan[c].slot = v)
      /\ ~(v \in RangeOf(chan[c].queue) /\ chan[c].slot = v)
  <2>1. CASE chan[c].slot = NoValue
    BY <1>1, <1>2, <2>1 DEF Line
  <2>2. CASE chan[c].slot # NoValue
    <3>1. chan[c].queue = <<>> /\ Line(c) = <<chan[c].slot>>
      BY <1>1, <2>2 DEF KindsApart, Line
    <3>2. RangeOf(<<>>) = {} /\ Once(<<>>)
      BY DEF RangeOf, Once
    <3>3. RangeOf(<<chan[c].slot>>) = {chan[c].slot}
      BY DEF RangeOf
    <3> QED  BY <3>1, <3>2, <3>3
  <2> QED  BY <2>1, <2>2
<1>5. Cardinality(Places(chan[c].queue, v)) = IF v \in RangeOf(chan[c].queue) THEN 1 ELSE 0
  BY <1>4, PlacesOnce
<1>6. Occurrences(c, v) = Cardinality(Places(taken[c], v))
                            + Cardinality(Places(chan[c].queue, v))
                            + (IF chan[c].slot = v THEN 1 ELSE 0)
  BY DEF Occurrences, Places
<1> QED  BY <1>2, <1>3, <1>4, <1>5, <1>6

LEMMA OneArmFollows ==
  ASSUME TypeInv, KindsApart, OneArmInv
  PROVE  OneArmTakesEffect
<1> SUFFICES ASSUME NEW v \in Values
             PROVE  LET copies == {c \in Chans : Occurrences(c, v) > 0} IN
                    /\ outcome[v] \in {"unsent", "closed", "cancelled"} => copies = {}
                    /\ outcome[v] = "ok" => Cardinality(copies) = 1
                    /\ \A c \in copies : Occurrences(c, v) = 1
  BY DEF OneArmTakesEffect
<1> DEFINE copies == {c \in Chans : Occurrences(c, v) > 0}
<1>1. Placed /\ OwnersApart
  BY DEF OneArmInv
<1>2. \A c \in Chans : Occurrences(c, v) = IF OnTrail(c, v) THEN 1 ELSE 0
  BY <1>1, OccursOnce
<1>3. copies = {c \in Chans : OnTrail(c, v)} /\ \A c \in copies : Occurrences(c, v) = 1
  BY <1>2
<1>4. ASSUME outcome[v] \in {"unsent", "closed", "cancelled"}, NEW c \in Chans, OnTrail(c, v)
      PROVE  FALSE
  <2>1. Settled(c, v)
    BY <1>1, <1>4 DEF Placed
  <2>2. PICK t \in Threads : OfferOf(t, c, v)
    BY <1>4, <2>1 DEF Settled
  <2>3. v \in Owned(t)
    BY <2>2 DEF OfferOf, Owned
  <2> QED  BY <1>1, <1>4, <2>3 DEF OwnersApart
<1>5. ASSUME outcome[v] = "ok" PROVE Cardinality(copies) = 1
  <2>1. PICK c \in Chans : OnTrail(c, v)
    BY <1>1, <1>5 DEF Placed
  <2>2. copies = {c}
    BY <1>1, <1>3, <2>1 DEF Placed
  <2> QED  BY <2>2, FS_Singleton
<1> QED  BY <1>3, <1>4, <1>5

----------------------------------------------------------------------------
(* What a step does to the trails and to the offers.                       *)

KeptTrail(c) ==
  /\ Trail(c)' = Trail(c)
  /\ \A v \in Values : Rendezvous(c) /\ Fits(c, v) => Fits(c, v)'

LEMMA QuietTrails ==
  ASSUME NEW c \in Chans, chan'[c].queue = chan[c].queue, chan'[c].slot = chan[c].slot,
         taken'[c] = taken[c]
  PROVE  KeptTrail(c)
BY DEF KeptTrail, Trail, Line, Fits

(* A value that is taken goes from the line to the values taken.           *)
LEMMA TakenTrails ==
  ASSUME TypeInv, KindsApart, NEW c \in Chans, OnlyChannel(c), Taken(c), NEW d \in Chans
  PROVE  KeptTrail(d)
<1>1. taken \in [Chans -> Seq(Values)]
  BY DEF TypeInv, TypeOK
<1>2. CASE d # c
  BY <1>1, <1>2, QuietTrails DEF OnlyChannel, Taken
<1>3. CASE d = c
  <2>1. /\ taken[c] \in Seq(Values) /\ Line(c) \in Seq(Values) /\ Line(c) # <<>>
        /\ NextValue(c) = Head(Line(c)) /\ NoValue \notin Values
        /\ chan[c].queue \in Seq(Values) /\ chan[c].slot \in Values \cup {NoValue}
    BY TrailType, LineOf, ChannelAssumption DEF Taken, TypeInv, TypeOK, ChannelState
  <2>2. taken'[c] = Append(taken[c], NextValue(c))
    BY <1>1 DEF Taken
  <2>3. CASE Rendezvous(c)
    <3>1. PICK w \in Values : w = chan[c].slot /\ chan[c].queue = <<>>
      BY <2>1, <2>3 DEF HasValue, Taken, KindsApart
    <3>2. chan'[c].queue = <<>> /\ chan'[c].slot = NoValue /\ NextValue(c) = w
      BY <2>1, <3>1 DEF Taken, WithoutNext, NextValue, TypeInv, TypeOK, ChannelState
    <3>3. Line(c) = <<w>> /\ Line(c)' = <<>>
      BY <2>1, <3>1, <3>2 DEF Line
    <3>4. Trail(c)' = Trail(c)
      <4>1. Trail(c) = taken[c] \o <<w>> /\ Trail(c)' = Append(taken[c], w) \o <<>>
        BY <2>2, <3>2, <3>3 DEF Trail
      <4>2. taken[c] \o <<w>> = Append(taken[c], w) /\ Append(taken[c], w) \o <<>> = Append(taken[c], w)
        BY <2>1
      <4> QED  BY <4>1, <4>2
    <3>5. RangeOf(taken'[c]) = RangeOf(taken[c]) \cup {w}
      BY <2>1, <2>2, <3>2, RangeOfAppend
    <3>6. \A v \in Values : Fits(c, v) => Fits(c, v)'
      BY <2>1, <3>1, <3>2, <3>5 DEF Fits
    <3> QED  BY <1>3, <3>4, <3>6 DEF KeptTrail
  <2>4. CASE ~Rendezvous(c)
    <3>1. chan[c].slot = NoValue /\ chan[c].queue # <<>>
      BY <2>4 DEF HasValue, Taken, KindsApart
    <3>2. chan'[c].queue = Tail(chan[c].queue) /\ chan'[c].slot = NoValue
      BY <3>1 DEF Taken, WithoutNext, TypeInv, TypeOK, ChannelState
    <3>3. Line(c) = chan[c].queue /\ Line(c)' = Tail(Line(c))
      BY <3>1, <3>2 DEF Line
    <3>4. taken[c] \o Line(c) = Append(taken[c], Head(Line(c))) \o Tail(Line(c))
      BY <2>1, HeadAndTail
    <3> QED  BY <1>3, <2>1, <2>2, <2>4, <3>3, <3>4 DEF KeptTrail, Trail
  <2> QED  BY <2>3, <2>4
<1> QED  BY <1>2, <1>3

LEMMA JoinedTrails ==
  ASSUME TypeInv, KindsApart, NEW c \in Chans, NEW v \in Values, OnlyChannel(c), JoinedBy(c, v)
  PROVE  /\ Trail(c)' = Append(Trail(c), v)
         /\ \A d \in Chans \ {c} : Trail(d)' = Trail(d) /\ \A w : Fits(d, w)' <=> Fits(d, w)
         /\ Rendezvous(c) => Fits(c, v)'
<1>1. /\ taken[c] \in Seq(Values) /\ Line(c) \in Seq(Values) /\ NoValue \notin Values
      /\ chan[c].queue \in Seq(Values)
  BY TrailType, ChannelAssumption DEF TypeInv, TypeOK, ChannelState
<1>2. Line(c)' = Append(Line(c), v)
  <2>1. CASE Rendezvous(c)
    <3>1. chan[c].queue = <<>> /\ chan[c].slot = NoValue
      BY <2>1, ChannelAssumption DEF JoinedBy, CanSend, KindsApart, Rendezvous
    <3>2. Line(c) = <<>> /\ Line(c)' = <<v>>
      BY <1>1, <2>1, <3>1 DEF JoinedBy, Line
    <3> QED  BY <3>2
  <2>2. CASE ~Rendezvous(c)
    BY <1>1, <2>2 DEF JoinedBy, Line, KindsApart
  <2> QED  BY <2>1, <2>2
<1>3. Trail(c)' = Append(Trail(c), v)
  <2>1. Append(taken[c] \o Line(c), v) = taken[c] \o Append(Line(c), v)
    BY <1>1, AppendAfter
  <2> QED  BY <1>2, <2>1 DEF Trail, JoinedBy
<1>4. \A d \in Chans \ {c} : Trail(d)' = Trail(d) /\ \A w : Fits(d, w)' <=> Fits(d, w)
  BY DEF OnlyChannel, JoinedBy, Trail, Line, Fits
<1>5. Rendezvous(c) => Fits(c, v)'
  BY <1>1 DEF JoinedBy, Fits
<1> QED  BY <1>3, <1>4, <1>5

LEMMA WithdrawnTrails ==
  ASSUME TypeInv, KindsApart, NEW c \in Chans, NEW v \in Values, chan[c].slot = v,
         OnlyChannel(c), Withdrawn(c)
  PROVE  /\ Trail(c) = Append(Trail(c)', v) /\ Trail(c)' \in Seq(Values)
         /\ \A d \in Chans \ {c} : Trail(d)' = Trail(d) /\ \A w : Fits(d, w)' <=> Fits(d, w)
<1>1. taken[c] \in Seq(Values) /\ NoValue \notin Values /\ chan[c].queue = <<>>
  BY ChannelAssumption DEF TypeInv, TypeOK, KindsApart, Withdrawn
<1>2. Line(c) = <<v>> /\ Line(c)' = <<>> /\ taken' = taken
  BY <1>1 DEF Line, Withdrawn
<1>3. Trail(c) = taken[c] \o <<v>> /\ Trail(c)' = taken[c] \o <<>>
  BY <1>2 DEF Trail
<1>4. taken[c] \o <<v>> = Append(taken[c], v) /\ taken[c] \o <<>> = taken[c]
  BY <1>1
<1>5. \A d \in Chans \ {c} : Trail(d)' = Trail(d) /\ \A w : Fits(d, w)' <=> Fits(d, w)
  BY DEF OnlyChannel, Withdrawn, Trail, Line, Fits
<1> QED  BY <1>1, <1>3, <1>4, <1>5

----------------------------------------------------------------------------
(* The places of values when a step keeps, lengthens or shortens a trail.  *)

LEMMA PlacedSame ==
  ASSUME Placed, \A c \in Chans : Trail(c)' = Trail(c),
         \A c \in Chans, v \in Values : OnTrail(c, v) => Settled(c, v)',
         \A v \in Values : outcome'[v] = "ok" => \E c \in Chans : OnTrail(c, v)
  PROVE  Placed'
<1>1. \A c \in Chans : \A v : OnTrail(c, v)' <=> OnTrail(c, v)
  BY DEF OnTrail
<1>2. \A c \in Chans : Once(Trail(c))'
  BY DEF Placed, Once
<1> QED  BY <1>1, <1>2 DEF Placed

LEMMA PlacedJoins ==
  ASSUME Placed, NEW c \in Chans, NEW v \in Values, Trail(c) \in Seq(Values),
         Trail(c)' = Append(Trail(c), v), \A d \in Chans \ {c} : Trail(d)' = Trail(d),
         \A d \in Chans : ~OnTrail(d, v), Settled(c, v)',
         \A d \in Chans, w \in Values : OnTrail(d, w) => Settled(d, w)',
         \A w \in Values : outcome'[w] = "ok" => w = v \/ \E d \in Chans : OnTrail(d, w)
  PROVE  Placed'
<1>1. \A w : OnTrail(c, w)' <=> OnTrail(c, w) \/ w = v
  <2>1. RangeOf(Trail(c)') = RangeOf(Trail(c)) \cup {v}
    BY RangeOfAppend
  <2> QED  BY <2>1 DEF OnTrail
<1>2. \A d \in Chans \ {c} : \A w : OnTrail(d, w)' <=> OnTrail(d, w)
  BY DEF OnTrail
<1>3. \A d \in Chans : Once(Trail(d)')
  <2>1. Once(Trail(c)')
    <3>1. Once(Trail(c)) /\ v \notin RangeOf(Trail(c))
      BY DEF Placed, OnTrail
    <3> QED  BY <3>1, OnceAppended
  <2>2. \A d \in Chans \ {c} : Once(Trail(d)')
    BY DEF Placed
  <2> QED  BY <2>1, <2>2
<1>4. \A d \in Chans : Once(Trail(d))'
  BY <1>3 DEF Once
<1>5. \A d, e \in Chans, w \in Values : OnTrail(d, w)' /\ OnTrail(e, w)' => d = e
  BY <1>1, <1>2 DEF Placed
<1>6. \A d \in Chans, w \in Values : OnTrail(d, w)' => Settled(d, w)'
  BY <1>1, <1>2
<1>7. \A w \in Values : outcome'[w] = "ok" => \E d \in Chans : OnTrail(d, w)'
  BY <1>1, <1>2
<1> QED  BY <1>4, <1>5, <1>6, <1>7 DEF Placed

LEMMA PlacedLeaves ==
  ASSUME Placed, NEW c \in Chans, NEW v \in Values, Trail(c)' \in Seq(Values),
         Trail(c) = Append(Trail(c)', v), \A d \in Chans \ {c} : Trail(d)' = Trail(d),
         \A d \in Chans, w \in Values : OnTrail(d, w) /\ w # v => Settled(d, w)',
         \A w \in Values : outcome'[w] = "ok" => w # v /\ \E d \in Chans : OnTrail(d, w)
  PROVE  Placed'
<1>1. PICK q \in Seq(Values) : q = Trail(c)' /\ Trail(c) = Append(q, v)
  OBVIOUS
<1>2. Once(q) /\ v \notin RangeOf(q) /\ RangeOf(Trail(c)) = RangeOf(q) \cup {v}
  BY <1>1, OnceAppended, RangeOfAppend, ZenonT(30) DEF Placed
<1>3. \A w : OnTrail(c, w)' <=> OnTrail(c, w) /\ w # v
  BY <1>1, <1>2 DEF OnTrail
<1>4. \A d \in Chans \ {c} : \A w : OnTrail(d, w)' <=> OnTrail(d, w)
  BY DEF OnTrail
<1>5. OnTrail(c, v)
  BY <1>2 DEF OnTrail
<1>6. \A d \in Chans : Once(Trail(d)')
  BY <1>1, <1>2 DEF Placed
<1>7. \A d \in Chans : Once(Trail(d))'
  BY <1>6 DEF Once
<1>8. \A d, e \in Chans, w \in Values : OnTrail(d, w)' /\ OnTrail(e, w)' => d = e
  BY <1>3, <1>4 DEF Placed
<1>9. \A d \in Chans, w \in Values : OnTrail(d, w)' => Settled(d, w)'
  BY <1>3, <1>4, <1>5 DEF Placed
<1>10. \A w \in Values : outcome'[w] = "ok" => \E d \in Chans : OnTrail(d, w)'
  BY <1>3, <1>4
<1> QED  BY <1>7, <1>8, <1>9, <1>10 DEF Placed

----------------------------------------------------------------------------
(* Who owns which value.                                                   *)

(* Thread t acts: it may give its values a fate and take up unsent ones.   *)
Acts(t) ==
  /\ \A u \in Threads \ {t} : op'[u] = op[u] /\ sel'[u] = sel[u]
  /\ \A v \in Owned(t)' : /\ v \in Values /\ outcome'[v] = "sending"
                          /\ v \in Owned(t) \/ outcome[v] = "unsent"
  /\ \A v \in Values : outcome'[v] = outcome[v] \/ v \in Owned(t) \/ outcome[v] = "unsent"

LEMMA OthersOwn ==
  ASSUME NEW t \in Threads, Acts(t), NEW u \in Threads, u # t
  PROVE  Owned(u)' = Owned(u) /\ \A c, v : OfferOf(u, c, v)' <=> OfferOf(u, c, v)
BY DEF Acts, Owned, Selecting, Offered, OfferOf

LEMMA ActsKeepOwners ==
  ASSUME OwnersApart, NEW t \in Threads, Acts(t)
  PROVE  OwnersApart'
<1> SUFFICES ASSUME NEW u \in Threads, NEW v \in Owned(u)'
             PROVE  /\ v \in Values /\ outcome'[v] = "sending"
                    /\ \A x \in Threads : v \in Owned(x)' => x = u
  BY DEF OwnersApart
<1>1. \A x \in Threads \ {t} : Owned(x)' = Owned(x)
  BY OthersOwn
<1>2. \A x \in Threads : \A w \in Owned(x) :
        w \in Values /\ outcome[w] = "sending" /\ \A y \in Threads : w \in Owned(y) => y = x
  BY DEF OwnersApart
<1>3. \A w \in Owned(t)' : w \in Values /\ outcome'[w] = "sending"
                           /\ (w \in Owned(t) \/ outcome[w] = "unsent")
  BY DEF Acts
<1>4. CASE u = t
  <2>1. ASSUME NEW x \in Threads, v \in Owned(x)', x # t PROVE FALSE
    <3>1. v \in Owned(x) /\ outcome[v] = "sending"
      BY <1>1, <1>2, <2>1
    <3> QED  BY <1>2, <1>3, <1>4, <2>1, <3>1
  <2> QED  BY <1>3, <1>4, <2>1
<1>5. CASE u # t
  <2>1. v \in Owned(u) /\ v \in Values /\ outcome[v] = "sending" /\ v \notin Owned(t)
    BY <1>1, <1>2, <1>5
  <2>2. outcome'[v] = "sending"
    BY <2>1 DEF Acts
  <2>3. v \notin Owned(t)'
    BY <1>3, <2>1
  <2> QED  BY <1>1, <1>2, <1>5, <2>1, <2>2, <2>3
<1> QED  BY <1>4, <1>5

(* What other threads, or earlier steps, settled stays settled.            *)
LEMMA SettledStays ==
  ASSUME OwnersApart, NEW t \in Threads, Acts(t), NEW c \in Chans, NEW v \in Values,
         Settled(c, v), OfferOf(t, c, v) => Settled(c, v)'
  PROVE  Settled(c, v)'
<1>1. CASE outcome[v] = "ok"
  <2>1. v \notin Owned(t) /\ outcome[v] # "unsent"
    BY <1>1 DEF OwnersApart
  <2> QED  BY <1>1, <2>1 DEF Acts, Settled
<1>2. ASSUME NEW u \in Threads, OfferOf(u, c, v) PROVE Settled(c, v)'
  <2>1. CASE u = t
    BY <1>2, <2>1
  <2>2. CASE u # t
    <3>1. OfferOf(u, c, v)'
      BY <1>2, <2>2, OthersOwn
    <3> QED  BY <3>1 DEF Settled
  <2> QED  BY <2>1, <2>2
<1> QED  BY <1>1, <1>2 DEF Settled

(* A value under way that is not on offer is in no channel.                *)
LEMMA OwnedNowhere ==
  ASSUME OwnersApart, Placed, NEW t \in Threads, NEW v \in Owned(t), NEW c \in Chans,
         ~OfferOf(t, c, v)
  PROVE  ~OnTrail(c, v)
<1> SUFFICES ASSUME OnTrail(c, v) PROVE FALSE
  OBVIOUS
<1>1. /\ v \in Values /\ outcome[v] = "sending"
      /\ \A u \in Threads : v \in Owned(u) => u = t
  BY DEF OwnersApart
<1>2. Settled(c, v)
  BY <1>1 DEF Placed
<1>3. PICK u \in Threads : OfferOf(u, c, v)
  BY <1>1, <1>2 DEF Settled
<1>4. v \in Owned(u)
  BY <1>3 DEF OfferOf, Owned
<1> QED  BY <1>1, <1>3, <1>4

(* Nobody else has an offer on a channel(0) that t offers on.              *)
LEMMA OnlyOfferer ==
  ASSUME OneOfferer, KindsApart, PlainSends, NEW t \in Threads, NEW u \in Threads,
         NEW c \in Chans, NEW v, OfferOf(u, c, v), t \in Senders[c] \/ OffersOn(t, c)
  PROVE  t = u
<1>1. u \in Senders[c] /\ Rendezvous(c)
  BY DEF OfferOf, PlainSends, KindsApart
<1> QED  BY <1>1 DEF OneOfferer

----------------------------------------------------------------------------
(* What keeps the invariant.                                               *)

(* A step that gives no value a fate and takes up none.                    *)
LEMMA AloneOneArm ==
  ASSUME KindsApart, OneArmInv, ArmsOwn', outcome' = outcome,
         \A u \in Threads : /\ SendSame(u)
                            /\ Selecting(u)' <=> Selecting(u)
                            /\ Selecting(u) => sel'[u].arms = sel[u].arms,
         \A c \in Chans : KeptTrail(c)
  PROVE  OneArmInv'
<1>1. \A u \in Threads : Owned(u)' = Owned(u)
  BY DEF SendSame, Owned, Offered
<1>2. \A u \in Threads : \A c, v : OfferOf(u, c, v)' <=> OfferOf(u, c, v)
  BY DEF SendSame, OfferOf
<1>3. OwnersApart'
  BY <1>1 DEF OneArmInv, OwnersApart
<1>4. Placed'
  <2>1. \A c \in Chans, v \in Values : Settled(c, v)' <=> Settled(c, v)
    BY <1>2 DEF Settled
  <2> QED  BY <2>1, PlacedSame DEF OneArmInv, Placed, KeptTrail
<1>5. OffersFit'
  <2> SUFFICES ASSUME NEW u \in Threads, NEW c \in Chans, NEW v \in Values, OfferOf(u, c, v)'
               PROVE  Fits(c, v)'
    BY DEF OffersFit
  <2>1. OfferOf(u, c, v)
    BY <1>2
  <2>2. Fits(c, v) /\ Rendezvous(c)
    BY <2>1 DEF OneArmInv, OffersFit, OfferOf, KindsApart
  <2> QED  BY <2>2 DEF KeptTrail
<1>6. PlainSends'
  BY DEF OneArmInv, PlainSends, SendSame
<1> QED  BY <1>3, <1>4, <1>5, <1>6 DEF OneArmInv

(* A step of t that moves no value but decides about its own.              *)
LEMMA DecidesOneArm ==
  ASSUME KindsApart, OneArmInv, ArmsOwn', PlainSends', NEW t \in Threads, Acts(t),
         \A c \in Chans : KeptTrail(c),
         \A c \in Chans, v \in Values : /\ OfferOf(t, c, v)' => OfferOf(t, c, v)
                                        /\ OfferOf(t, c, v) => Settled(c, v)',
         \A v \in Values : outcome'[v] = "ok" =>
           outcome[v] = "ok" \/ \E c \in Chans : OnTrail(c, v)
  PROVE  OneArmInv'
<1>1. OwnersApart'
  BY ActsKeepOwners DEF OneArmInv
<1>2. Placed'
  <2>1. \A c \in Chans, v \in Values : OnTrail(c, v) => Settled(c, v)'
    BY SettledStays DEF OneArmInv, Placed
  <2>2. \A v \in Values : outcome'[v] = "ok" => \E c \in Chans : OnTrail(c, v)
    BY DEF OneArmInv, Placed
  <2> QED  BY <2>1, <2>2, PlacedSame DEF OneArmInv, KeptTrail
<1>3. OffersFit'
  <2> SUFFICES ASSUME NEW u \in Threads, NEW c \in Chans, NEW v \in Values, OfferOf(u, c, v)'
               PROVE  Fits(c, v)'
    BY DEF OffersFit
  <2>1. OfferOf(u, c, v)
    BY OthersOwn
  <2>2. Fits(c, v) /\ Rendezvous(c)
    BY <2>1 DEF OneArmInv, OffersFit, OfferOf, KindsApart
  <2> QED  BY <2>2 DEF KeptTrail
<1> QED  BY <1>1, <1>2, <1>3 DEF OneArmInv

(* A step of t that puts its value v into c, as an offer or for good.      *)
LEMMA JoinsOneArm ==
  ASSUME TypeInv, KindsApart, OneArmInv, OneOfferer, ArmsOwn', PlainSends',
         NEW t \in Threads, Acts(t), NEW c \in Chans, NEW v \in Values, v \in Owned(t),
         OnlyChannel(c), JoinedBy(c, v), t \in Senders[c] \/ OffersOn(t, c),
         Settled(c, v)',
         \A d \in Chans, w \in Values : /\ ~OfferOf(t, d, w)
                                        /\ OfferOf(t, d, w)' => d = c /\ w = v /\ Rendezvous(c),
         \A w \in Values : outcome'[w] = "ok" => outcome[w] = "ok" \/ w = v
  PROVE  OneArmInv'
<1>0. OwnersApart /\ Placed /\ OffersFit /\ PlainSends
  BY DEF OneArmInv
<1>1. OwnersApart'
  BY <1>0, ActsKeepOwners
<1>2. /\ Trail(c)' = Append(Trail(c), v) /\ Trail(c) \in Seq(Values)
      /\ \A d \in Chans \ {c} : Trail(d)' = Trail(d) /\ \A w : Fits(d, w)' <=> Fits(d, w)
      /\ Rendezvous(c) => Fits(c, v)'
  BY JoinedTrails, TrailType
<1>3. Placed'
  <2>1. \A d \in Chans : ~OnTrail(d, v)
    BY <1>0, OwnedNowhere
  <2>2. \A d \in Chans, w \in Values : OnTrail(d, w) => Settled(d, w)'
    BY <1>0, SettledStays DEF Placed
  <2>3. \A w \in Values : outcome'[w] = "ok" => w = v \/ \E d \in Chans : OnTrail(d, w)
    BY <1>0 DEF Placed
  <2> QED  BY <1>0, <1>2, <2>1, <2>2, <2>3, PlacedJoins
<1>4. OffersFit'
  <2> SUFFICES ASSUME NEW u \in Threads, NEW d \in Chans, NEW w \in Values, OfferOf(u, d, w)'
               PROVE  Fits(d, w)'
    BY DEF OffersFit
  <2>1. CASE u = t
    BY <1>2, <2>1
  <2>2. CASE u # t
    <3>1. OfferOf(u, d, w)
      BY <2>2, OthersOwn
    <3>2. d # c
      BY <1>0, <2>2, <3>1, OnlyOfferer
    <3> QED  BY <1>0, <1>2, <3>1, <3>2 DEF OffersFit
  <2> QED  BY <2>1, <2>2
<1> QED  BY <1>1, <1>3, <1>4 DEF OneArmInv

----------------------------------------------------------------------------
(* Plain sends and recvs.                                                  *)

LEMMA SendOwns ==
  ASSUME SelectInv, NEW t \in Threads, op[t].kind = "send"
  PROVE  Owned(t) = {op[t].val} /\ sel[t].pc \in {"idle", "body"}
<1>1. sel[t].pc \in {"idle", "body"}
  BY SelectFields DEF ShapeOf, SelectInv, TypeInv, OperationShape
<1> QED  BY <1>1 DEF Owned, Selecting, Waiting

(* A send of t that returns: what it reports is its value's fate.          *)
LEMMA ReturnActs ==
  ASSUME SelectInv, OneArmInv, sel' = sel, NEW t \in Threads,
         SendHandedOff(t) \/ SendGivesUp(t) \/ SendBuffers(t)
  PROVE  \E c \in Chans, v \in Values, r \in {"ok", "closed", "cancelled"} :
           /\ op[t].kind = "send" /\ op[t].chan = c /\ op[t].val = v
           /\ t \in Senders[c] /\ Owned(t) = {v} /\ outcome[v] = "sending"
           /\ Acts(t) /\ PlainSends' /\ ArmsOwn'
           /\ \A w \in Values : outcome'[w] = IF w = v THEN r ELSE outcome[w]
           /\ \A d, w : ~OfferOf(t, d, w)'
<1>1. /\ op \in [Threads -> Operation] /\ outcome \in [Values -> Outcomes]
      /\ TypeInv
  BY DEF SelectInv, TypeInv, TypeOK
<1>2. PICK c \in Chans, v \in Values : op[t].kind = "send" /\ op[t].chan = c /\ op[t].val = v
  BY <1>1 DEF SendHandedOff, SendGivesUp, SendBuffers, SendContinues, Looks, TypeInv, OperationShape
<1>3. Owned(t) = {v} /\ sel[t].pc \in {"idle", "body"}
  BY <1>2, SendOwns
<1>4. outcome[v] = "sending" /\ t \in Senders[c]
  BY <1>2, <1>3 DEF OneArmInv, OwnersApart, PlainSends
<1>5. op' = [op EXCEPT ![t] = NoOperation]
  BY DEF SendHandedOff, SendGivesUp, SendBuffers, Leave
<1>6. PICK r \in {"ok", "closed", "cancelled"} : outcome' = [outcome EXCEPT ![v] = r]
  BY <1>2 DEF SendHandedOff, SendGivesUp, SendBuffers, SendReports
<1>7. op'[t].kind = "none" /\ \A u \in Threads \ {t} : op'[u] = op[u]
  BY <1>1, <1>5 DEF NoOperation
<1>8. Owned(t)' = {}
  BY <1>3, <1>7 DEF Owned, Selecting, Waiting
<1>9. \A w \in Values : outcome'[w] = IF w = v THEN r ELSE outcome[w]
  BY <1>1, <1>6
<1>10. Acts(t)
  BY <1>3, <1>7, <1>8, <1>9 DEF Acts
<1>11. PlainSends' /\ ArmsOwn'
  BY <1>7 DEF OneArmInv, PlainSends, ArmsOwn
<1>12. \A d, w : ~OfferOf(t, d, w)'
  BY <1>7 DEF OfferOf
<1> QED  BY <1>2, <1>3, <1>4, <1>9, <1>10, <1>11, <1>12

LEMMA HandedOffOneArm ==
  ASSUME SelectInv, KindsApart, OneArmInv, sel' = sel, NEW t \in Threads, SendHandedOff(t)
  PROVE  OneArmInv'
<1>1. PICK c \in Chans, v \in Values, r \in {"ok", "closed", "cancelled"} :
           /\ op[t].kind = "send" /\ op[t].chan = c /\ op[t].val = v
           /\ t \in Senders[c] /\ Owned(t) = {v} /\ outcome[v] = "sending"
           /\ Acts(t) /\ PlainSends' /\ ArmsOwn'
           /\ \A w \in Values : outcome'[w] = IF w = v THEN r ELSE outcome[w]
           /\ \A d, w : ~OfferOf(t, d, w)'
  BY ReturnActs
<1>2. chan \in [Chans -> ChannelState]
  BY DEF SelectInv, TypeInv, TypeOK
<1>3. outcome'[v] = "ok"
  BY <1>1 DEF SendHandedOff, SendReports, SelectInv, TypeInv, TypeOK
<1>4. \A d \in Chans : KeptTrail(d)
  <2>1. chan' = [chan EXCEPT ![c].listeners = @ \ {t}] /\ taken' = taken
    BY <1>1 DEF SendHandedOff
  <2>2. \A d \in Chans : chan'[d].queue = chan[d].queue /\ chan'[d].slot = chan[d].slot
    BY <1>2, <2>1 DEF ChannelState
  <2> QED  BY <2>1, <2>2, QuietTrails
<1>5. OfferOf(t, c, v) /\ chan[c].slot = NoValue
  BY <1>1 DEF SendHandedOff, OfferOf
<1>6. OnTrail(c, v)
  <2>1. v \in RangeOf(taken[c])
    BY <1>5 DEF OneArmInv, OffersFit, Fits
  <2>2. RangeOf(taken[c] \o Line(c)) = RangeOf(taken[c]) \cup RangeOf(Line(c))
    BY TrailType, RangeOfBoth DEF SelectInv
  <2> QED  BY <2>1, <2>2 DEF OnTrail, Trail
<1>7. \A d \in Chans, w \in Values : OfferOf(t, d, w) => Settled(d, w)'
  BY <1>1, <1>3 DEF OfferOf, Settled
<1>8. \A w \in Values : outcome'[w] = "ok" => outcome[w] = "ok" \/ \E d \in Chans : OnTrail(d, w)
  BY <1>1, <1>6
<1> QED  BY <1>1, <1>4, <1>7, <1>8, DecidesOneArm

LEMMA GivesUpOneArm ==
  ASSUME SelectInv, KindsApart, OneArmInv, OneOfferer, sel' = sel, NEW t \in Threads,
         SendGivesUp(t)
  PROVE  OneArmInv'
<1>1. PICK c \in Chans, v \in Values, r \in {"ok", "closed", "cancelled"} :
           /\ op[t].kind = "send" /\ op[t].chan = c /\ op[t].val = v
           /\ t \in Senders[c] /\ Owned(t) = {v} /\ outcome[v] = "sending"
           /\ Acts(t) /\ PlainSends' /\ ArmsOwn'
           /\ \A w \in Values : outcome'[w] = IF w = v THEN r ELSE outcome[w]
           /\ \A d, w : ~OfferOf(t, d, w)'
  BY ReturnActs
<1>2. /\ chan \in [Chans -> ChannelState] /\ TypeInv /\ taken' = taken
      /\ OwnersApart /\ Placed /\ OffersFit /\ PlainSends /\ NoValue \notin Values
  BY ChannelAssumption DEF SelectInv, TypeInv, TypeOK, SendGivesUp, OneArmInv
<1>3. outcome'[v] \in {"closed", "cancelled"}
  BY <1>1 DEF SendGivesUp, SendReports, SelectInv, TypeInv, TypeOK
<1>4. CASE ~op[t].held
  <2>1. \A d \in Chans : KeptTrail(d)
    <3>1. chan' = [chan EXCEPT ![c].listeners = @ \ {t}]
      BY <1>1, <1>4 DEF SendGivesUp
    <3>2. \A d \in Chans : chan'[d].queue = chan[d].queue /\ chan'[d].slot = chan[d].slot
      BY <1>2, <3>1 DEF ChannelState
    <3> QED  BY <1>2, <3>2, QuietTrails
  <2>2. \A d, w : ~OfferOf(t, d, w)
    BY <1>4 DEF OfferOf
  <2> QED  BY <1>1, <1>3, <2>1, <2>2, DecidesOneArm
<1>5. CASE op[t].held
  <2>1. OfferOf(t, c, v) /\ chan[c].slot # NoValue /\ Rendezvous(c)
    BY <1>1, <1>5 DEF SendGivesUp, OfferOf, KindsApart
  <2>2. chan[c].slot = v
    BY <1>2, <2>1 DEF OffersFit, Fits
  <2>3. OnlyChannel(c) /\ Withdrawn(c)
    <3>1. chan' = [chan EXCEPT ![c].slot = NoValue, ![c].listeners = @ \ {t}]
      BY <1>1, <1>5 DEF SendGivesUp
    <3>2. /\ chan'[c].slot = NoValue /\ chan'[c].queue = chan[c].queue
          /\ chan'[c].closed = chan[c].closed
      BY <1>2, <3>1, SMT DEF ChannelState
    <3>3. OnlyChannel(c)
      BY <1>2, <3>1 DEF OnlyChannel
    <3> QED  BY <2>1, <3>2, <3>3 DEF SendGivesUp, Withdrawn
  <2>4. /\ Trail(c) = Append(Trail(c)', v) /\ Trail(c)' \in Seq(Values)
        /\ \A d \in Chans \ {c} : Trail(d)' = Trail(d) /\ \A w : Fits(d, w)' <=> Fits(d, w)
    BY <1>2, <2>2, <2>3, WithdrawnTrails
  <2>5. Placed'
    <3>1. ASSUME NEW d \in Chans, NEW w \in Values, OnTrail(d, w), w # v PROVE Settled(d, w)'
      <4>1. Settled(d, w) /\ ~OfferOf(t, d, w)
        BY <1>1, <1>2, <3>1 DEF Placed, OfferOf
      <4> QED  BY <1>1, <1>2, <4>1, SettledStays
    <3>2. \A w \in Values : outcome'[w] = "ok" => w # v /\ \E d \in Chans : OnTrail(d, w)
      BY <1>1, <1>2, <1>3 DEF Placed
    <3> QED  BY <1>2, <2>4, <3>1, <3>2, PlacedLeaves
  <2>6. OffersFit'
    <3> SUFFICES ASSUME NEW u \in Threads, NEW d \in Chans, NEW w \in Values, OfferOf(u, d, w)'
                 PROVE  Fits(d, w)'
      BY DEF OffersFit
    <3>1. u # t /\ OfferOf(u, d, w)
      BY <1>1, OthersOwn
    <3>2. d # c
      BY <1>1, <1>2, <3>1, OnlyOfferer
    <3> QED  BY <1>2, <2>4, <3>1, <3>2 DEF OffersFit
  <2> QED  BY <1>1, <1>2, <2>5, <2>6, ActsKeepOwners DEF OneArmInv
<1> QED  BY <1>4, <1>5

LEMMA BuffersOneArm ==
  ASSUME SelectInv, KindsApart, OneArmInv, OneOfferer, sel' = sel, NEW t \in Threads,
         SendBuffers(t)
  PROVE  OneArmInv'
<1>1. PICK c \in Chans, v \in Values, r \in {"ok", "closed", "cancelled"} :
           /\ op[t].kind = "send" /\ op[t].chan = c /\ op[t].val = v
           /\ t \in Senders[c] /\ Owned(t) = {v} /\ outcome[v] = "sending"
           /\ Acts(t) /\ PlainSends' /\ ArmsOwn'
           /\ \A w \in Values : outcome'[w] = IF w = v THEN r ELSE outcome[w]
           /\ \A d, w : ~OfferOf(t, d, w)'
  BY ReturnActs
<1>2. chan \in [Chans -> ChannelState] /\ TypeInv
  BY DEF SelectInv, TypeInv, TypeOK
<1>3. outcome'[v] = "ok"
  BY <1>1 DEF SendBuffers, SendReports, SelectInv, TypeInv, TypeOK
<1>4. ~Rendezvous(c) /\ \A d, w : ~OfferOf(t, d, w)
  BY <1>1 DEF SendBuffers, OfferOf, KindsApart
<1>5. OnlyChannel(c) /\ JoinedBy(c, v)
  <2>1. chan' = [chan EXCEPT ![c].queue = Append(@, v), ![c].listeners = @ \ {t}]
    BY <1>1 DEF SendBuffers
  <2>2. /\ chan'[c].slot = chan[c].slot /\ chan'[c].queue = Append(chan[c].queue, v)
        /\ chan'[c].closed = chan[c].closed
    BY <1>2, <2>1, SMT DEF ChannelState
  <2>3. OnlyChannel(c)
    BY <1>2, <2>1 DEF OnlyChannel
  <2> QED  BY <1>1, <1>4, <2>2, <2>3 DEF SendBuffers, SendContinues, JoinedBy
<1>6. Settled(c, v)'
  BY <1>3 DEF Settled
<1> QED  BY <1>1, <1>2, <1>4, <1>5, <1>6, JoinsOneArm

LEMMA OffersOneArm ==
  ASSUME SelectInv, KindsApart, OneArmInv, OneOfferer, sel' = sel, NEW t \in Threads,
         SendOffers(t)
  PROVE  OneArmInv'
<1>1. PICK c \in Chans, v \in Values :
        /\ op[t].kind = "send" /\ op[t].chan = c /\ op[t].val = v /\ ~op[t].held
        /\ Rendezvous(c) /\ t \in Senders[c] /\ CanSend(c) /\ ~chan[c].closed
  BY DEF SendOffers, SendContinues, Looks, SelectInv, TypeInv, OperationShape, OneArmInv, PlainSends
<1>2. /\ op \in [Threads -> Operation] /\ op[t] \in Operation
      /\ chan \in [Chans -> ChannelState] /\ TypeInv
  BY DEF SelectInv, TypeInv, TypeOK
<1>3. /\ op' = [op EXCEPT ![t].held = TRUE] /\ chan' = [chan EXCEPT ![c].slot = v]
      /\ outcome' = outcome /\ UNCHANGED <<taken, sawClosed>>
  BY <1>1 DEF SendOffers
<1>4. /\ op'[t].kind = "send" /\ op'[t].chan = c /\ op'[t].val = v /\ op'[t].held
      /\ \A u \in Threads \ {t} : op'[u] = op[u]
  BY <1>1, <1>2, <1>3 DEF Operation
<1>5. /\ Owned(t) = {v} /\ Owned(t)' = {v} /\ outcome[v] = "sending"
  <2>1. Owned(t) = {v} /\ sel[t].pc \in {"idle", "body"}
    BY <1>1, SendOwns
  <2>2. Owned(t)' = {v}
    BY <1>4, <2>1 DEF Owned, Selecting, Waiting
  <2> QED  BY <2>1, <2>2 DEF OneArmInv, OwnersApart
<1>6. Acts(t)
  BY <1>3, <1>4, <1>5 DEF Acts
<1>7. PlainSends' /\ ArmsOwn'
  BY <1>1, <1>4 DEF OneArmInv, PlainSends, ArmsOwn
<1>8. OnlyChannel(c) /\ JoinedBy(c, v)
  <2>1. /\ chan'[c].slot = v /\ chan'[c].queue = chan[c].queue
        /\ chan'[c].closed = chan[c].closed
    BY <1>2, <1>3, SMT DEF ChannelState
  <2>2. OnlyChannel(c)
    BY <1>2, <1>3 DEF OnlyChannel
  <2> QED  BY <1>1, <1>3, <2>1, <2>2 DEF JoinedBy
<1>9. Settled(c, v)'
  BY <1>4 DEF Settled, OfferOf
<1>10. \A d \in Chans, w \in Values : /\ ~OfferOf(t, d, w)
                                      /\ OfferOf(t, d, w)' => d = c /\ w = v /\ Rendezvous(c)
  BY <1>1, <1>4 DEF OfferOf
<1> QED  BY <1>1, <1>2, <1>3, <1>5, <1>6, <1>7, <1>8, <1>9, <1>10, JoinsOneArm

LEMMA SendOneArm ==
  ASSUME SelectInv, KindsApart, OneArmInv, sel' = sel,
         NEW c \in Chans, NEW t \in Senders[c], NEW v \in Values, NEW k \in Tokens \cup {NoToken},
         MayCall(t), Send(t, c, v, k)
  PROVE  OneArmInv'
<1>1. /\ t \in Threads /\ op[t].kind = "none" /\ op \in [Threads -> Operation]
      /\ outcome \in [Values -> Outcomes] /\ outcome[v] = "unsent"
  BY ChannelAssumption DEF Send, SelectInv, TypeInv, TypeOK, OperationShape
<1>2. sel[t].pc \in {"idle", "body"} /\ sel'[t].pc \in {"idle", "body"}
  BY DEF MayCall
<1>3. Owned(t) = {}
  BY <1>1, <1>2 DEF Owned, Selecting, Waiting
<1>4. \/ op' = op /\ outcome' = [outcome EXCEPT ![v] = "cancelled"]
      \/ /\ outcome' = [outcome EXCEPT ![v] = "sending"]
         /\ op' = [op EXCEPT ![t] = [kind |-> "send", pc |-> "look", chan |-> c,
                                     val |-> v, tok |-> k, held |-> FALSE]]
  BY DEF Send
<1>5. /\ \A u \in Threads \ {t} : op'[u] = op[u]
      /\ \/ op'[t] = op[t] /\ outcome'[v] = "cancelled"
         \/ /\ op'[t].kind = "send" /\ op'[t].chan = c /\ op'[t].val = v /\ ~op'[t].held
            /\ outcome'[v] = "sending"
      /\ \A w \in Values : w # v => outcome'[w] = outcome[w]
  BY <1>1, <1>4
<1>6. Owned(t)' \subseteq {v} /\ (v \in Owned(t)' => outcome'[v] = "sending")
  BY <1>1, <1>2, <1>5 DEF Owned, Selecting, Waiting
<1>7. Acts(t)
  BY <1>1, <1>5, <1>6 DEF Acts
<1>8. PlainSends' /\ ArmsOwn'
  BY <1>1, <1>5 DEF OneArmInv, PlainSends, ArmsOwn
<1>9. \A d \in Chans : KeptTrail(d)
  BY QuietTrails DEF Send
<1>10. \A d, w : ~OfferOf(t, d, w) /\ ~OfferOf(t, d, w)'
  BY <1>1, <1>5 DEF OfferOf
<1>11. \A w \in Values : outcome'[w] = "ok" => outcome[w] = "ok"
  BY <1>5
<1> QED  BY <1>1, <1>7, <1>8, <1>9, <1>10, <1>11, DecidesOneArm

LEMMA PlainOneArm ==
  ASSUME SelectInv, KindsApart, OneArmInv, OneOfferer, ChannelNext
  PROVE  OneArmInv'
<1>0. TypeInv /\ sel' = sel
  BY DEF SelectInv, ChannelNext, selVars
<1>1. ASSUME ValuesAlone PROVE OneArmInv'
  <2>1. \A c \in Chans : KeptTrail(c)
    BY <1>1, QuietTrails DEF ValuesAlone, ContentsKept
  <2>2. ArmsOwn'
    BY <1>0 DEF OneArmInv, ArmsOwn
  <2>3. \A u \in Threads : /\ SendSame(u)
                           /\ Selecting(u)' <=> Selecting(u)
                           /\ Selecting(u) => sel'[u].arms = sel[u].arms
    BY <1>0, <1>1 DEF ValuesAlone, Selecting
  <2> QED  BY <1>1, <2>1, <2>2, <2>3, AloneOneArm DEF ValuesAlone
<1>2. ASSUME NEW t \in Threads, RecvTakes(t) PROVE OneArmInv'
  <2>1. PICK c \in Chans : /\ c = op[t].chan /\ op[t].kind = "recv"
                           /\ OnlyChannel(c) /\ Taken(c)
    <3>1. op[t].kind = "recv" /\ op[t].chan \in Chans
      BY <1>0, <1>2 DEF RecvTakes, Looks, TypeInv, OperationShape
    <3>2. chan \in [Chans -> ChannelState]
      BY <1>0 DEF TypeInv, TypeOK
    <3> QED  BY <1>2, <3>1, <3>2 DEF RecvTakes, Taken, OnlyChannel, WithoutNext, ChannelState
  <2>2. \A d \in Chans : KeptTrail(d)
    BY <1>0, <2>1, TakenTrails
  <2>3. op' = [op EXCEPT ![t] = NoOperation] /\ outcome' = outcome
    BY <1>2 DEF RecvTakes, Leave
  <2>4. \A u \in Threads : SendSame(u)
    BY <1>0, <2>1, <2>3 DEF SendSame, NoOperation, TypeInv, TypeOK
  <2>5. ArmsOwn'
    BY <1>0 DEF OneArmInv, ArmsOwn
  <2>6. \A u \in Threads : /\ Selecting(u)' <=> Selecting(u)
                           /\ Selecting(u) => sel'[u].arms = sel[u].arms
    BY <1>0 DEF Selecting
  <2> QED  BY <2>2, <2>3, <2>4, <2>5, <2>6, AloneOneArm
<1>3. ASSUME NEW c \in Chans, NEW t \in Senders[c], NEW v \in Values,
             NEW k \in Tokens \cup {NoToken}, MayCall(t), Send(t, c, v, k)
      PROVE  OneArmInv'
  BY <1>0, <1>3, SendOneArm
<1>4. CASE \/ \E c \in Chans : \E t \in Receivers[c], k \in Tokens \cup {NoToken} : Recv(t, c, k)
           \/ \E c \in Chans : Close(c)
           \/ \E k \in Tokens : Cancel(k) \/ CancelNotifies(k)
  BY <1>0, <1>1, <1>4, AloneCalls
<1>5. ASSUME NEW t \in Threads, Step(t) PROVE OneArmInv'
  <2>1. CASE \/ SendBlocks(t) \/ WaitStep(t)
             \/ RecvGivesUp(t) \/ RecvAnnounces(t) \/ RecvBlocks(t)
    BY <1>0, <1>1, <2>1, AloneSends
  <2>2. CASE SendHandedOff(t)
    BY <1>0, <2>2, HandedOffOneArm
  <2>3. CASE SendGivesUp(t)
    BY <1>0, <2>3, GivesUpOneArm
  <2>4. CASE SendBuffers(t)
    BY <1>0, <2>4, BuffersOneArm
  <2>5. CASE SendOffers(t)
    BY <1>0, <2>5, OffersOneArm
  <2> QED  BY <1>2, <1>5, <2>1, <2>2, <2>3, <2>4, <2>5 DEF Step, SendStep, RecvStep
<1> QED  BY <1>3, <1>4, <1>5 DEF ChannelNext, ChannelCall

----------------------------------------------------------------------------
(* The steps of a select.                                                  *)

LEMMA SelectOwns ==
  ASSUME SelectInv, NEW t \in Threads, Selecting(t)
  PROVE  Owned(t) = Offered(sel[t]) /\ op[t].kind = "none" /\ \A c, v : ~OfferOf(t, c, v)
<1>1. op[t].kind = "none"
  BY SelectFields DEF ShapeOf, Selecting, Waiting, SelectInv, TypeInv, OperationShape
<1> QED  BY <1>1 DEF Owned, OfferOf

(* What a step of the select of t leaves alone.                            *)
LEMMA SelectMovesOne ==
  ASSUME SelectInv, OneArmInv, NEW t \in Threads, EntersSelect(t) \/ BodyEnds(t) \/ SelectStep(t)
  PROVE  /\ op' = op /\ sel' \in [Threads -> SelectState] /\ PlainSends'
         /\ \A u \in Threads \ {t} : sel'[u] = sel[u]
         /\ \A u \in Threads : SendSame(u)
<1>1. op' = op /\ sel' \in [Threads -> SelectState]
  BY EntersKeeps, PollKeeps, PauseKeeps, MakesKeeps, DropsKeeps DEF SelectStep, Keeps, SelectTypes
<1>2. PICK r : sel' = [sel EXCEPT ![t] = r]
  BY SelTouchesOne
<1>3. \A u \in Threads \ {t} : sel'[u] = sel[u]
  BY <1>2 DEF SelectInv, SelectTypes
<1> QED  BY <1>1, <1>3 DEF OneArmInv, PlainSends, SendSame

(* A step in which the select of t neither ends nor begins.                *)
LEMMA PauseOneArm ==
  ASSUME SelectInv, KindsApart, OneArmInv, NEW t \in Threads,
         \/ RecvArmMisses(t) \/ SendArmIsLive(t) \/ SendArmMisses(t)
         \/ BeginsWait(t) \/ MakesGuard(t) \/ ReadsGeneration(t)
         \/ FallsAsleep(t) \/ WakesUp(t) \/ DropsGuard(t) \/ StartsOver(t) \/ BodyEnds(t)
  PROVE  OneArmInv'
<1>0. /\ op' = op /\ \A u \in Threads \ {t} : sel'[u] = sel[u]
      /\ \A u \in Threads : SendSame(u)
  BY SelectMovesOne DEF SelectStep
<1>1. PICK s \in SelectState :
        s = sel[t] /\ ShapeOf(s, op[t].pc) /\ s.over \in BOOLEAN /\ sel \in [Threads -> SelectState]
  BY SelectFields DEF SelectInv, SelectTypes
<1>2. /\ Selecting(t)' <=> Selecting(t)
      /\ sel'[t].pc # "idle" => sel[t].pc # "idle" /\ sel'[t].arms = sel[t].arms
      /\ Selecting(t) => sel'[t].arms = sel[t].arms
  <2>1. CASE RecvArmMisses(t) \/ SendArmMisses(t) \/ SendArmIsLive(t)
    <3>1. \/ sel'[t] = [s EXCEPT !.offset = s.offset + 1, !.pc = "poll"]
          \/ sel'[t] = [s EXCEPT !.pc = "try"]
      BY <1>1, <2>1 DEF RecvArmMisses, SendArmMisses, SendArmIsLive, Misses
    <3>2. s.pc \in {"poll", "try"}
      BY <1>1, <2>1 DEF RecvArmMisses, SendArmMisses, SendArmIsLive, Polls
    <3> QED  BY <1>1, <3>1, <3>2 DEF SelectState, Selecting, Waiting
  <2>2. CASE BeginsWait(t) \/ ReadsGeneration(t) \/ FallsAsleep(t) \/ WakesUp(t)
    <3>1. \/ \E n : sel'[t] = [s EXCEPT !.pc = "guard", !.next = n]
          \/ sel'[t] = [s EXCEPT !.pc = "poll", !.offset = 0, !.second = TRUE]
          \/ \E n : sel'[t] = [s EXCEPT !.pc = "asleep", !.start = n]
          \/ sel'[t] = [s EXCEPT !.pc = "unguard"]
      BY <1>1, <2>2 DEF BeginsWait, ReadsGeneration, FallsAsleep, WakesUp
    <3>2. s.pc \in {"poll", "guard", "asleep"}
      BY <1>1, <2>2 DEF BeginsWait, PolledAll, ReadsGeneration, FallsAsleep, WakesUp
    <3> QED  BY <1>1, <3>1, <3>2 DEF SelectState, Selecting, Waiting
  <2>3. CASE MakesGuard(t)
    <3>1. \/ \E n, h : sel'[t] = [s EXCEPT !.next = n, !.held = h]
          \/ \E n : sel'[t] = [s EXCEPT !.next = n]
      <4>1. CASE Guarded(t, sel[t].next)
        <5>1. sel'[t] = [s EXCEPT !.next = s.next + 1, !.held = s.held \cup {s.next}]
          BY <1>1, <2>3, <4>1 DEF MakesGuard
        <5> QED  BY <5>1
      <4>2. CASE ~Guarded(t, sel[t].next)
        <5>1. sel'[t] = [s EXCEPT !.next = s.next + 1]
          BY <1>1, <2>3, <4>2 DEF MakesGuard
        <5> QED  BY <5>1
      <4> QED  BY <4>1, <4>2
    <3>2. s.pc = "guard"
      BY <1>1, <2>3 DEF MakesGuard
    <3> QED  BY <1>1, <3>1, <3>2 DEF SelectState, Selecting, Waiting
  <2>4. CASE DropsGuard(t)
    <3>1. \E h : sel'[t] = [s EXCEPT !.held = h]
      BY <1>1, <2>4 DEF DropsGuard
    <3> QED  BY <1>1, <3>1 DEF SelectState, Selecting, Waiting
  <2>5. CASE StartsOver(t)
    <3>1. CASE s.over
      <4>1. sel'[t] = NoSelect
        BY <1>1, <2>5, <3>1 DEF StartsOver
      <4> QED  BY <1>1, <3>1, <4>1 DEF NoSelect, Selecting, Waiting
    <3>2. CASE ~s.over
      <4>1. sel'[t] = [s EXCEPT !.pc = "poll", !.offset = 0, !.second = FALSE] /\ s.pc = "unguard"
        BY <1>1, <2>5, <3>2 DEF StartsOver
      <4> QED  BY <1>1, <3>2, <4>1 DEF SelectState, Selecting, Waiting
    <3> QED  BY <1>1, <3>1, <3>2
  <2>6. CASE BodyEnds(t)
    <3>1. sel'[t] = [s EXCEPT !.pc = "unguard", !.over = TRUE] /\ s.pc = "body"
      BY <1>1, <2>6 DEF BodyEnds
    <3> QED  BY <1>1, <3>1 DEF SelectState, Selecting, Waiting
  <2> QED  BY <2>1, <2>2, <2>3, <2>4, <2>5, <2>6
<1>3. ArmsOwn'
  BY <1>0, <1>2 DEF OneArmInv, ArmsOwn
<1>4. \A u \in Threads : /\ SendSame(u)
                         /\ Selecting(u)' <=> Selecting(u)
                         /\ Selecting(u) => sel'[u].arms = sel[u].arms
  BY <1>0, <1>2 DEF Selecting
<1>5. UNCHANGED <<chan, taken, outcome>>
  BY DEF RecvArmMisses, SendArmIsLive, SendArmMisses, BeginsWait, MakesGuard, ReadsGeneration,
     FallsAsleep, WakesUp, DropsGuard, StartsOver, BodyEnds, Misses, vars
<1>6. \A c \in Chans : KeptTrail(c)
  BY <1>5, QuietTrails
<1> QED  BY <1>3, <1>4, <1>5, <1>6, AloneOneArm

(* The select of t begins: its values are under way.                       *)
LEMMA EntersOneArm ==
  ASSUME SelectInv, KindsApart, OneArmInv, NEW t \in Threads, EntersSelect(t)
  PROVE  OneArmInv'
<1>0. /\ op' = op /\ \A u \in Threads \ {t} : sel'[u] = sel[u]
      /\ PlainSends'
  BY SelectMovesOne
<1>1. /\ sel \in [Threads -> SelectState] /\ sel' \in [Threads -> SelectState]
      /\ outcome \in [Values -> Outcomes] /\ op[t].kind = "none" /\ sel[t].pc = "idle"
  BY SelectMovesOne
     DEF SelectInv, SelectTypes, TypeInv, TypeOK, OperationShape, EntersSelect
<1>2. PICK d : d = Selects[t][turn[t]] /\ turn[t] \in DOMAIN Selects[t]
  BY DEF EntersSelect
<1>3. sel'[t].arms = d.arms /\ sel'[t].pc = "poll"
  <2>1. \E n : sel'[t] = [NoSelect EXCEPT !.pc = "poll", !.arms = d.arms, !.default = d.default,
                                          !.start = n]
    BY <1>1, <1>2 DEF EntersSelect
  <2> QED  BY <2>1 DEF NoSelect
<1>4. Offered(sel'[t]) = Offered(d) /\ Offered(d) \subseteq Values
  <2>1. Offered(sel'[t]) = Offered(d)
    BY <1>3 DEF Offered
  <2>2. sel'[t].arms \in Seq(Arms)
    BY <1>1 DEF SelectState
  <2>3. ASSUME NEW i \in DOMAIN sel'[t].arms, sel'[t].arms[i].val # NoValue
        PROVE  sel'[t].arms[i].val \in Values
    <3>1. sel'[t].arms[i] \in Arms
      BY <2>2
    <3> QED  BY <2>3, <3>1 DEF Arms, SendArm, RecvArm
  <2>4. Offered(sel'[t]) \subseteq Values
    BY <2>3 DEF Offered
  <2> QED  BY <2>1, <2>4
<1>5. /\ \A v \in Offered(d) : outcome[v] = "unsent"
      /\ \A v \in Values : outcome'[v] = IF v \in Offered(d) THEN "sending" ELSE outcome[v]
  BY <1>2 DEF EntersSelect
<1>6. Owned(t)' \subseteq Offered(d)
  <2>1. Owned(t)' \subseteq Offered(sel'[t])
    BY <1>0, <1>1 DEF Owned, Offered
  <2> QED  BY <1>4, <2>1
<1>7. Acts(t)
  BY <1>0, <1>4, <1>5, <1>6 DEF Acts
<1>8. ArmsOwn'
  BY <1>0, <1>2, <1>3 DEF OneArmInv, ArmsOwn
<1>9. \A c \in Chans : KeptTrail(c)
  <2>1. Quiet
    BY PauseEffect
  <2> QED  BY <2>1, QuietTrails DEF Quiet, SameContents
<1>10. \A c, v : ~OfferOf(t, c, v) /\ ~OfferOf(t, c, v)'
  BY <1>0, <1>1 DEF OfferOf
<1>11. \A v \in Values : outcome'[v] = "ok" => outcome[v] = "ok"
  BY <1>5
<1> QED  BY <1>0, <1>7, <1>8, <1>9, <1>10, <1>11, DecidesOneArm

(* The select of t is decided: its values have their fates.                *)
LEMMA DecisionActs ==
  ASSUME SelectInv, OneArmInv, NEW t \in Threads, Selecting(t), EntersSelect(t) \/ SelectStep(t),
         sel'[t] = NoSelect \/ sel'[t] = [sel[t] EXCEPT !.pc = "body"],
         \A v \in Values : v \notin Offered(sel[t]) => outcome'[v] = outcome[v]
  PROVE  /\ Acts(t) /\ PlainSends' /\ ArmsOwn'
         /\ \A c, v : ~OfferOf(t, c, v) /\ ~OfferOf(t, c, v)'
<1>0. /\ op' = op /\ \A u \in Threads \ {t} : sel'[u] = sel[u]
      /\ PlainSends'
  BY SelectMovesOne
<1>1. /\ Owned(t) = Offered(sel[t]) /\ op[t].kind = "none"
      /\ \A c, v : ~OfferOf(t, c, v)
  BY SelectOwns
<1>2. /\ sel'[t].pc \in {"idle", "body"}
      /\ sel'[t].pc = "body" => sel'[t].arms = sel[t].arms
  BY SelectFields DEF NoSelect, SelectState
<1>3. Owned(t)' = {}
  BY <1>0, <1>1, <1>2 DEF Owned, Selecting, Waiting
<1>4. Acts(t)
  BY <1>0, <1>1, <1>3 DEF Acts
<1>5. ArmsOwn'
  BY <1>0, <1>2 DEF OneArmInv, ArmsOwn, Selecting, Waiting
<1>6. \A c, v : ~OfferOf(t, c, v)'
  BY <1>0, <1>1 DEF OfferOf
<1> QED  BY <1>0, <1>1, <1>4, <1>5, <1>6

(* The values of a select whose arm won with `result`.                     *)
LEMMA WinActs ==
  ASSUME SelectInv, OneArmInv, NEW t \in Threads, Selecting(t), SelectStep(t),
         NEW state, NEW owners, Wins(t, state, owners), NEW r, Results(t, r)
  PROVE  /\ Acts(t) /\ PlainSends' /\ ArmsOwn'
         /\ \A c, v : ~OfferOf(t, c, v) /\ ~OfferOf(t, c, v)'
         /\ \A v \in Values : outcome'[v] = "ok" =>
              outcome[v] = "ok" \/ (v = Polled(t).val /\ r = "ok")
         /\ Polled(t).val \in Values => Polled(t).val \in Owned(t) /\ outcome'[Polled(t).val] = r
<1>1. sel'[t] = NoSelect \/ sel'[t] = [sel[t] EXCEPT !.pc = "body"]
  BY DEF Wins, SelectInv, SelectTypes
<1>2. /\ ArmIndex(t) \in DOMAIN sel[t].arms /\ NoValue \notin Values
      /\ Polled(t).val \in Values => Polled(t).val \in Offered(sel[t])
  <2>1. ArmIndex(t) \in DOMAIN sel[t].arms
    BY PolledArm DEF Selecting, Waiting
  <2> QED  BY <2>1, ChannelAssumption DEF Polled, Offered
<1>3. \A v \in Values :
        outcome'[v] = IF v = Polled(t).val THEN r
                      ELSE IF v \in Offered(sel[t]) THEN "unsent" ELSE outcome[v]
  BY DEF Results
<1>4. \A v \in Values : v \notin Offered(sel[t]) => outcome'[v] = outcome[v]
  BY <1>2, <1>3
<1>5. Owned(t) = Offered(sel[t])
  BY SelectOwns
<1>6. /\ Acts(t) /\ PlainSends' /\ ArmsOwn'
      /\ \A c, v : ~OfferOf(t, c, v) /\ ~OfferOf(t, c, v)'
  BY <1>1, <1>4, DecisionActs
<1>7. \A v \in Values : outcome'[v] = "ok" => outcome[v] = "ok" \/ (v = Polled(t).val /\ r = "ok")
  BY <1>3
<1>8. Polled(t).val \in Values => Polled(t).val \in Owned(t) /\ outcome'[Polled(t).val] = r
  BY <1>2, <1>3, <1>5
<1> QED  BY <1>6, <1>7, <1>8

(* A receive arm wins, or a send arm is refused, or the default is taken.  *)
LEMMA RestOneArm ==
  ASSUME SelectInv, KindsApart, OneArmInv, NEW t \in Threads,
         \/ RecvArmTakes(t) \/ RecvArmFails(t) \/ SendArmIsCancelled(t) \/ SendArmIsClosed(t)
         \/ TakesDefault(t)
  PROVE  OneArmInv'
<1>0. Selecting(t) /\ SelectStep(t)
  BY SelectFields DEF RecvArmTakes, RecvArmFails, SendArmIsCancelled, SendArmIsClosed, TakesDefault,
     PolledAll, Polls, Selecting, Waiting, ShapeOf, SelectStep
<1>1. \A c \in Chans : KeptTrail(c)
  <2>1. CASE RecvArmTakes(t)
    <3>1. PICK c \in Chans : OnlyChannel(c) /\ Taken(c)
      BY <2>1, TakesEffect
    <3> QED  BY <3>1, TakenTrails DEF SelectInv
  <2>2. CASE RecvArmFails(t) \/ SendArmIsCancelled(t) \/ SendArmIsClosed(t)
    <3>1. SameContents /\ taken' = taken
      BY <2>2, RefusalEffect
    <3> QED  BY <3>1, QuietTrails DEF SameContents
  <2>3. CASE TakesDefault(t)
    <3>1. Quiet
      BY <2>3, PauseEffect
    <3> QED  BY <3>1, QuietTrails DEF Quiet, SameContents
  <2> QED  BY <2>1, <2>2, <2>3
<1>2. /\ Acts(t) /\ PlainSends' /\ ArmsOwn'
      /\ \A c, v : ~OfferOf(t, c, v) /\ ~OfferOf(t, c, v)'
      /\ \A v \in Values : outcome'[v] = "ok" => outcome[v] = "ok"
  <2>1. CASE RecvArmTakes(t) \/ RecvArmFails(t)
    <3>1. PICK state, owners : Wins(t, state, owners) /\ Results(t, "ok")
      BY <2>1 DEF RecvArmTakes, RecvArmFails
    <3>2. Polled(t).val \notin Values
      <4>1. Polled(t) \in Arms /\ Polled(t).kind = "recv"
        BY <2>1, PolledArm DEF RecvArmTakes, RecvArmFails, Polls
      <4> QED  BY <4>1, ChannelAssumption DEF Arms, SendArm, RecvArm
    <3> QED  BY <1>0, <3>1, <3>2, WinActs
  <2>2. CASE SendArmIsCancelled(t)
    <3>1. Wins(t, chan, {}) /\ Results(t, "cancelled")
      BY <2>2 DEF SendArmIsCancelled
    <3> QED  BY <1>0, <3>1, WinActs
  <2>3. CASE SendArmIsClosed(t)
    <3>1. Wins(t, chan, {}) /\ Results(t, "closed")
      BY <2>3 DEF SendArmIsClosed
    <3> QED  BY <1>0, <3>1, WinActs
  <2>4. CASE TakesDefault(t)
    <3>1. sel'[t] = NoSelect
      BY <2>4 DEF TakesDefault, SelectInv, SelectTypes
    <3>2. \A v \in Values : outcome'[v] = IF v \in Offered(sel[t]) THEN "unsent" ELSE outcome[v]
      BY <2>4 DEF TakesDefault
    <3> QED  BY <1>0, <3>1, <3>2, DecisionActs
  <2> QED  BY <2>1, <2>2, <2>3, <2>4
<1> QED  BY <1>1, <1>2, DecidesOneArm

(* A send arm wins: its value joins its channel, its siblings' do not.     *)
LEMMA SendsOneArm ==
  ASSUME SelectInv, KindsApart, OneArmInv, OneOfferer, NEW t \in Threads, SendArmSends(t)
  PROVE  OneArmInv'
<1>0. Selecting(t) /\ SelectStep(t) /\ TypeInv
  BY SelectFields DEF SendArmSends, Selecting, Waiting, ShapeOf, SelectStep, SelectInv
<1>1. PICK c \in Chans, v \in Values :
        c = Polled(t).chan /\ v = Polled(t).val /\ OnlyChannel(c) /\ JoinedBy(c, v)
  BY SendsEffect
<1>2. PICK state, owners : Wins(t, state, owners) /\ Results(t, "ok")
  BY DEF SendArmSends
<1>3. /\ Acts(t) /\ PlainSends' /\ ArmsOwn'
      /\ \A d, w : ~OfferOf(t, d, w) /\ ~OfferOf(t, d, w)'
      /\ \A w \in Values : outcome'[w] = "ok" => outcome[w] = "ok" \/ w = v
      /\ v \in Owned(t) /\ outcome'[v] = "ok"
  BY <1>0, <1>1, <1>2, WinActs
<1>4. OffersOn(t, c)
  <2>1. /\ ArmIndex(t) \in DOMAIN sel[t].arms /\ Polled(t).kind = "send" /\ sel[t].pc # "idle"
    BY <1>0, PolledArm, SelectFields DEF Selecting, Waiting, SendArmSends, ShapeOf
  <2>2. PICK i \in DOMAIN Selects[t] : sel[t].arms = Selects[t][i].arms
    BY <2>1 DEF OneArmInv, ArmsOwn
  <2> QED  BY <1>1, <2>1, <2>2 DEF OffersOn, Polled
<1>5. Settled(c, v)'
  BY <1>3 DEF Settled
<1> QED  BY <1>0, <1>1, <1>3, <1>4, <1>5, JoinsOneArm

----------------------------------------------------------------------------
LEMMA OneArmInit == SelectInit => OneArmInv
<1> SUFFICES ASSUME SelectInit PROVE OneArmInv
  OBVIOUS
<1>1. \A t \in Threads : op[t].kind = "none" /\ sel[t].pc = "idle" /\ Owned(t) = {}
  BY DEF SelectInit, Init, NoOperation, NoSelect, Owned, Selecting, Waiting
<1>2. OwnersApart /\ OffersFit /\ PlainSends /\ ArmsOwn
  BY <1>1 DEF OwnersApart, OffersFit, OfferOf, PlainSends, ArmsOwn
<1>3. \A c \in Chans : Trail(c) = <<>>
  BY DEF SelectInit, Init, EmptyChannel, Trail, Line
<1>4. Placed
  <2>1. \A c \in Chans : Once(Trail(c)) /\ \A v : ~OnTrail(c, v)
    BY <1>3 DEF Once, OnTrail, RangeOf
  <2>2. \A v \in Values : outcome[v] # "ok"
    BY DEF SelectInit, Init
  <2> QED  BY <2>1, <2>2 DEF Placed
<1> QED  BY <1>2, <1>4 DEF OneArmInv

LEMMA OneArmStep ==
  ASSUME SelectInv, KindsApart, OneArmInv, OneOfferer, [SelectNext]_allVars
  PROVE  OneArmInv'
<1>1. CASE ChannelNext
  BY <1>1, PlainOneArm
<1>2. ASSUME NEW t \in Threads, EntersSelect(t) \/ BodyEnds(t) \/ SelectStep(t)
      PROVE  OneArmInv'
  BY <1>2, EntersOneArm, PauseOneArm, RestOneArm, SendsOneArm DEF SelectStep
<1>3. CASE UNCHANGED allVars
  <2>1. UNCHANGED <<op, sel, chan, taken, outcome>>
    BY <1>3 DEF allVars, vars, selVars
  <2>2. \A c \in Chans : KeptTrail(c)
    BY <2>1, QuietTrails
  <2>3. \A u \in Threads : /\ SendSame(u)
                           /\ Selecting(u)' <=> Selecting(u)
                           /\ Selecting(u) => sel'[u].arms = sel[u].arms
    BY <2>1 DEF SendSame, Selecting
  <2>4. ArmsOwn'
    BY <2>1 DEF OneArmInv, ArmsOwn
  <2> QED  BY <2>1, <2>2, <2>3, <2>4, AloneOneArm
<1> QED  BY <1>1, <1>2, <1>3 DEF SelectNext

(* One arm of a select takes effect and no more, on any channels and with  *)
(* any other sends, receives, closes and cancels between its polls: what a *)
(* losing or refused arm offered is nowhere, what the winning arm sent is  *)
(* in its channel or was taken from it, once.  Plain sends on a channel(0) *)
(* are to come from one thread, the only one whose selects offer there.    *)
THEOREM OneArmWins ==
  ASSUME OneOfferer
  PROVE  SelectSpec => []OneArmTakesEffect
<1>1. SelectInit => OneArmInv
  BY OneArmInit
<1>2. SelectInv /\ PromiseInv /\ OneArmInv /\ [SelectNext]_allVars => OneArmInv'
  BY OneArmStep DEF PromiseInv
<1>3. SelectInv /\ PromiseInv /\ OneArmInv => OneArmTakesEffect
  BY OneArmFollows DEF SelectInv, PromiseInv
<1> QED  BY <1>1, <1>2, <1>3, SelectInvariant, SelectsPromiseInvariant, PTL DEF SelectSpec
=============================================================================
