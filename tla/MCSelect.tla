------------------------------ MODULE MCSelect ------------------------------
(* Small instances of Select for TLC: which selects each thread runs, on a *)
(* channel(0) c0 and a channel(1) c1.                                      *)
EXTENDS Select, TLC

CONSTANTS t1, t2, t3, c0, c1, v1, v2, k1

SmallCapacity == [c \in Chans |-> IF c = c1 THEN 1 ELSE 0]
Nobody == [c \in Chans |-> {}]
ReceiverOfC0 == [c \in Chans |-> IF c = c0 THEN {t1} ELSE {}]
SenderOfC0 == [c \in Chans |-> IF c = c0 THEN {t2} ELSE {}]

Select1(arms) == [arms |-> arms, default |-> FALSE]
OrElse(arms) == [arms |-> arms, default |-> TRUE]

OneThread(selects) == [t \in Threads |-> IF t = t1 THEN selects ELSE <<>>]
Pair(first, second) == [t \in Threads |->
  CASE t = t1 -> first [] t = t2 -> second [] OTHER -> <<>>]

(* t1 receives from both channels, from c0 in two of its arms; t2 sends to *)
(* both, and in another select both sends to and receives from one, with a *)
(* default.                                                                *)
BothEnds ==
  Pair(<<Select1(<<RecvArm(c0, k1), RecvArm(c1, NoToken), RecvArm(c0, NoToken)>>)>>,
       <<Select1(<<SendArm(c0, v1, k1), SendArm(c1, v2, NoToken)>>),
         OrElse(<<SendArm(c0, v2, NoToken), RecvArm(c0, NoToken)>>)>>)

(* Where a thread's arm counter wraps: selects have up to three arms.      *)
Wraps == [t \in Threads |->
  LET HasOf(n) == \E i \in DOMAIN Selects[t] : Len(Selects[t][i].arms) = n
  IN (IF HasOf(2) THEN 2 ELSE 1) * (IF HasOf(3) THEN 3 ELSE 1)]

(* t1 receives from both channels, t2 sends on the first.                  *)
Phantom ==
  Pair(<<Select1(<<RecvArm(c0, NoToken), RecvArm(c1, NoToken)>>)>>,
       <<Select1(<<SendArm(c0, v1, NoToken)>>)>>)

(* Two selects wait for the same channel(0) and nothing else.              *)
TwoReceivers ==
  Pair(<<Select1(<<RecvArm(c0, NoToken)>>)>>, <<Select1(<<RecvArm(c0, NoToken)>>)>>)

(* Two selects in a loop.                                                  *)
TwoSelects ==
  OneThread(<<Select1(<<RecvArm(c0, NoToken), RecvArm(c1, NoToken)>>),
              Select1(<<RecvArm(c1, NoToken), RecvArm(c0, NoToken)>>)>>)
=============================================================================
