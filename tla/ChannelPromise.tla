--------------------------- MODULE ChannelPromise ---------------------------
(***************************************************************************)
(* What the channels promise a program (compiler/gof-compiler/src/         *)
(* interpreter.rs, ChannelHandle): a line of values of bounded length for  *)
(* each channel.  There are no threads, locks, signals or loops here:      *)
(* Channel has them, and is shown to keep this promise.                    *)
(***************************************************************************)
EXTENDS Naturals, Sequences

CONSTANTS
  Chans, Values,
  Capacity,     (* Capacity[c]: argument of channel(n), or Unbounded       *)
  Unbounded

VARIABLES
  line,         (* line[c]: the values on offer, the first to go first     *)
  closed,       (* closed[c]                                               *)
  taken,        (* taken[c]: the values receivers took, in order           *)
  sawClosed     (* sawClosed[c]: a receiver was told that c is closed      *)

vars == <<line, closed, taken, sawClosed>>

Init ==
  /\ line = [c \in Chans |-> <<>>]
  /\ closed = [c \in Chans |-> FALSE]
  /\ taken = [c \in Chans |-> <<>>]
  /\ sawClosed = [c \in Chans |-> FALSE]

(* channel(0) has room for the value of one sender that waits.             *)
HasRoom(c) ==
  \/ Capacity[c] = Unbounded
  \/ Capacity[c] = 0 /\ line[c] = <<>>
  \/ Capacity[c] \in Nat \ {0} /\ Len(line[c]) < Capacity[c]

(* A value joins the line of an open channel with room for it.             *)
Offer(c) ==
  /\ ~closed[c] /\ HasRoom(c)
  /\ \E v \in Values : line' = [line EXCEPT ![c] = Append(@, v)]
  /\ UNCHANGED <<closed, taken, sawClosed>>

(* channel(0) only: a sender that gives up takes the value back.           *)
Withdraw(c) ==
  /\ Capacity[c] = 0
  /\ line' = [line EXCEPT ![c] = <<>>]
  /\ UNCHANGED <<closed, taken, sawClosed>>

(* A receiver takes the first value, of a closed channel too.              *)
Take(c) ==
  /\ line[c] # <<>>
  /\ taken' = [taken EXCEPT ![c] = Append(@, Head(line[c]))]
  /\ line' = [line EXCEPT ![c] = Tail(@)]
  /\ UNCHANGED <<closed, sawClosed>>

Close(c) ==
  /\ closed' = [closed EXCEPT ![c] = TRUE]
  /\ UNCHANGED <<line, taken, sawClosed>>

(* A receiver is told of the close only once the line is empty.            *)
ReportClosed(c) ==
  /\ closed[c] /\ line[c] = <<>>
  /\ sawClosed' = [sawClosed EXCEPT ![c] = TRUE]
  /\ UNCHANGED <<line, closed, taken>>

Next == \E c \in Chans :
          Offer(c) \/ Withdraw(c) \/ Take(c) \/ Close(c) \/ ReportClosed(c)

Spec == Init /\ [][Next]_vars

============================================================================
