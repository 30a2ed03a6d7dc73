----------------------------- MODULE MCChannel -----------------------------
(* Small instances of Channel: a channel(0), a channel(1) and a channel()  *)
(* that two threads send on and two receive from, one doing both, and a    *)
(* channel(0) with a single sender.                                        *)
EXTENDS Channel, TLC

CONSTANTS t1, t2, t3, c0, c1, cu, s0, v1, v2, v3, k1

SmallCapacity ==
  [c \in Chans |-> CASE c = c1 -> 1 [] c = cu -> Unbounded [] OTHER -> 0]
TwoSenders == [c \in Chans |-> IF c = s0 THEN {t1} ELSE {t1, t2}]
TwoReceivers == [c \in Chans |-> {t2, t3}]
LastReceiver == [c \in Chans |-> {t3}]
FirstReceiver == [c \in Chans |-> {t1}]
NoSender == [c \in Chans |-> {}]

(* The channels have no state in common, so a program that uses one at a   *)
(* time meets all they can do: whichever it touches first stays the only   *)
(* one.  Only calls are cut short by this, never a step of a call.         *)
Touched(c) ==
  \/ chan[c] # EmptyChannel
  \/ taken[c] # <<>>
  \/ \E t \in Threads : op[t].chan = c
OneChannelInUse == \A c, d \in Chans : Touched(c) /\ Touched(d) => c = d

SmallNext == Next /\ OneChannelInUse'
SmallSpec == Init /\ [][SmallNext]_vars /\ Fairness
============================================================================
