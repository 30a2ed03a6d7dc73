---------------------------- MODULE JoinedSockets ---------------------------
(* The two halves of a stream's life: a name is connected to               *)
(* (part = "connect"), and the streams of a connection are used.  They     *)
(* share no step: a behaviour is of the one or of the other.               *)
EXTENDS Streams

CONSTANTS Addresses, Deadlines, Cancels, Never, NoToken, Patience, Horizon
VARIABLES part, list, deadline, cancelAt, now, slice, next, refused, missed, at, res
connectVars == <<list, deadline, cancelAt, now, slice, next, refused, missed, at, res>>

C == INSTANCE Connect
ASSUME SocketsAssumption == C!ConnectAssumption

SocketsInit ==
  \/ part = "connect" /\ Init /\ C!Init
  \/ /\ part = "streams" /\ Init
     /\ list = <<>> /\ deadline = Never /\ cancelAt = NoToken /\ now = 0 /\ slice = 0
     /\ next = 1 /\ refused = FALSE /\ missed = FALSE /\ at = "start" /\ res = "none"
Using == part = "streams" /\ UNCHANGED <<part, connectVars>>
Connecting == part = "connect" /\ UNCHANGED <<part, vars>>
SocketsNext == (Using /\ Next) \/ (Connecting /\ C!Next)
SocketsSpec ==
  /\ SocketsInit /\ [][SocketsNext]_<<part, vars, connectVars>>
  /\ WF_vars(Using /\ Expire) /\ (\A t \in Tasks : WF_vars(Using /\ Step(t)))
  /\ WF_connectVars(Connecting /\ C!Next)

(* See Connect.                                                            *)
GivesUpRightly == part = "connect" => C!GivesUpRightly
TimeoutIsHonoured == part = "connect" => C!TimeoutIsHonoured

(* Every call that has something to end it ends: a connect, a call with a  *)
(* deadline, and any call once the other end has closed (see Streams and   *)
(* Connect for each).                                                      *)
CallsEnd ==
  /\ part = "streams" => DeadlineEnds /\ HangUpEnds
  /\ part = "connect" => C!ConnectEnds
=============================================================================
