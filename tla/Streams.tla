------------------------------ MODULE Streams ------------------------------
(***************************************************************************)
(* Blocking streams (compiler/gof-compiler/src/interpreter.rs): the two    *)
(* ends of one TCP connection, a listener and a file, each a handle behind *)
(* a mutex that every view of it shares.  with_deadline and with_cancel    *)
(* make views: the same handle, with a deadline or a token of its own.     *)
(*                                                                         *)
(* Tasks call the operations of the views; the kernel moves bytes and      *)
(* connections, and time passes.                                           *)
(***************************************************************************)
EXTENDS Naturals, Sequences, FiniteSets, SequencesExt

CONSTANTS
  Tasks,        (* the tasks that call the streams                         *)
  Menu,         (* Menu[t]: the calls task t may make                      *)
  MaxCalls,     (* MaxCalls[t]: how many it makes                          *)
  Room          (* how many bytes of one direction the kernel buffers      *)

Ends == {"left", "right"}
Handles == Ends \cup {"listener", "file"}
Other == [left |-> "right", right |-> "left"]

(* What a StreamControl holds: nothing, a deadline, a token, or both.      *)
AllControls == SUBSET {"deadline", "token"}

Reads == {"read", "read_exact", "read_all"}
Writes == {"write", "write_all"}
Loops == {"read_exact", "read_all", "write_all"}
Others == {"flush", "close", "address", "accept"}

Applies(op, h) ==
  CASE h = "listener" -> op \in {"accept", "close", "address"}
    [] h = "file"     -> op \in Reads \cup Writes \cup {"flush", "close"}
    [] OTHER          -> op # "accept"

(* What a task asks for: an operation of a handle, through a view with the *)
(* control ctl; size bytes of it, where it moves bytes.                    *)
Requests == {r \in [op: Reads \cup Writes \cup Others, on: Handles,
                     ctl: AllControls, size: 0..2] :
               /\ Applies(r.op, r.on)
               /\ r.size > 0 <=> r.op \in {"read", "read_exact"} \cup Writes}

ASSUME StreamsAssumption ==
  /\ Menu \in [Tasks -> SUBSET Requests]
  /\ MaxCalls \in [Tasks -> Nat] /\ Room \in Nat \ {0}
  /\ "none" \notin Tasks

VARIABLES
  open,         (* open[h]: the Option under the mutex is Some             *)
  holder,       (* holder[h]: the task that holds h's mutex, or "none"     *)
  timed,        (* timed[h]: the socket's read or write timeout is set     *)
  expired,      (* the deadline has passed                                 *)
  cancelled,    (* the token is cancelled                                  *)
  sent,         (* sent[e]: the bytes ever put on the way to end e         *)
  taken,        (* taken[e]: how many of them end e has read               *)
  reset,        (* reset[e]: the connection was reset by the other end     *)
  backlog,      (* connections that wait to be accepted                    *)
  call,         (* call[t]: the call task t is in                          *)
  calls,        (* calls[t]: how many it has made                          *)
  (* History.                                                              *)
  kept,         (* kept[e]: the bytes that successful reads returned       *)
  lost          (* lost[e]: those a failing read had collected             *)

vars == <<open, holder, timed, expired, cancelled, sent, taken, reset,
          backlog, call, calls, kept, lost>>
worldVars == <<sent, taken, reset, backlog, kept, lost>>

(* A call: what it does, on which handle, under which control, how many    *)
(* bytes it asks for, the places of those it moved, where it is, and, when *)
(* it is over, its result.                                                 *)
Idle == [op |-> "none", on |-> "file", ctl |-> {}, size |-> 0, got |-> <<>>,
         at |-> "idle", res |-> "none"]

Init ==
  /\ open = [h \in Handles |-> TRUE]
  /\ holder = [h \in Handles |-> "none"]
  /\ timed = [h \in Handles |-> FALSE]
  /\ expired = FALSE /\ cancelled = FALSE
  /\ sent = [e \in Ends |-> <<>>]
  /\ taken = [e \in Ends |-> 0]
  /\ reset = [e \in Ends |-> FALSE]
  /\ backlog = 0
  /\ call = [t \in Tasks |-> Idle]
  /\ calls = [t \in Tasks |-> 0]
  /\ kept = [e \in Ends |-> {}]
  /\ lost = [e \in Ends |-> {}]

----------------------------------------------------------------------------
(* Controls                                                                *)

Is(c, word) == word \in c.ctl
Stopped(c) == Is(c, "token") /\ cancelled
TimedOut(c) == Is(c, "deadline") /\ expired

(* control_wait_slice: the token is looked at first.                       *)
Refusal(c) == IF Stopped(c) THEN "cancelled"
              ELSE IF TimedOut(c) THEN "timeout" ELSE "none"

(* ... and otherwise the wait is cut into slices if there is a control.    *)
Sliced(c) == c.ctl # {}

Waiting(e) == Len(sent[e]) - taken[e]
Places(k, n) == [i \in 1..n |-> k + i]
NextPlaces(e, n) == Places(taken[e], n)

----------------------------------------------------------------------------
(* Calls                                                                   *)

Over(c, res) == [c EXCEPT !.at = "over", !.res = res]

(* A file's control is looked at once, before its mutex is asked for.      *)
Begin(t) ==
  /\ call[t].at \in {"idle", "over"} /\ calls[t] < MaxCalls[t]
  /\ \E r \in Menu[t] :
       LET c == [op |-> r.op, on |-> r.on, ctl |-> r.ctl, size |-> r.size,
                 got |-> <<>>, at |-> "lock", res |-> "none"]
       IN call' = [call EXCEPT ![t] =
            IF r.on = "file" /\ r.op # "close" /\ Refusal(c) # "none"
            THEN Over(c, Refusal(c)) ELSE c]
  /\ calls' = [calls EXCEPT ![t] = @ + 1]
  /\ UNCHANGED <<open, holder, timed, expired, cancelled, worldVars>>

(* Mutant: a task that finds the mutex held goes on.                       *)
LockAnyway(t) ==
  LET c == call[t]
      brief == c.on = "file" \/ c.op \in {"flush", "address"}
  IN /\ c.at = "lock" /\ c.op # "close"
     /\ \/ /\ ~open[c.on]
           /\ call' = [call EXCEPT ![t] = Over(c, "closed")]
           /\ UNCHANGED holder
        \/ /\ open[c.on] /\ brief
           /\ call' = [call EXCEPT ![t] = Over(c, "ok")]
           /\ UNCHANGED holder
        \/ /\ open[c.on] /\ ~brief
           /\ call' = [call EXCEPT ![t].at = "arm"]
           /\ holder' = [holder EXCEPT ![c.on] = t]
     /\ lost' = IF open[c.on] \/ c.op \notin Reads \/ c.on \notin Ends
                THEN lost
                ELSE [lost EXCEPT ![c.on] = @ \cup ToSet(c.got)]
     /\ UNCHANGED <<open, timed, expired, cancelled, sent, taken, reset,
                    backlog, calls, kept>>

(* A call of one step under the mutex is over when it lets go of it; the   *)
(* others keep it while they block.                                        *)
Lock(t) ==
  LET c == call[t]
      brief == c.on = "file" \/ c.op \in {"flush", "address"}
  IN /\ c.at = "lock" /\ holder[c.on] = "none" /\ c.op # "close"
     /\ \/ /\ ~open[c.on]
           /\ call' = [call EXCEPT ![t] = Over(c, "closed")]
           /\ UNCHANGED holder
        \/ /\ open[c.on] /\ brief
           /\ call' = [call EXCEPT ![t] = Over(c, "ok")]
           /\ UNCHANGED holder
        \/ /\ open[c.on] /\ ~brief
           /\ call' = [call EXCEPT ![t].at = "arm"]
           /\ holder' = [holder EXCEPT ![c.on] = t]
     /\ lost' = IF open[c.on] \/ c.op \notin Reads \/ c.on \notin Ends
                THEN lost
                ELSE [lost EXCEPT ![c.on] = @ \cup ToSet(c.got)]
     /\ UNCHANGED <<open, timed, expired, cancelled, sent, taken, reset,
                    backlog, calls, kept>>

(* close_file_stream, close_duplex_stream, close_tcp_listener: what was    *)
(* not read is gone, and its sender is told by a reset.                    *)
Close(t) ==
  LET c == call[t]
  IN /\ c.at = "lock" /\ c.op = "close" /\ holder[c.on] = "none"
     /\ call' = [call EXCEPT ![t] =
          Over(c, IF open[c.on] THEN "ok" ELSE "closed")]
     /\ open' = [open EXCEPT ![c.on] = FALSE]
     /\ reset' = IF c.on \in Ends /\ open[c.on] /\ Waiting(c.on) > 0
                 THEN [reset EXCEPT ![Other[c.on]] = TRUE] ELSE reset
     /\ UNCHANGED <<holder, timed, expired, cancelled, sent, taken, backlog,
                    calls, kept, lost>>

(* The call is over and lets go of the mutex.                              *)
End(t, c, res) ==
  /\ call' = [call EXCEPT ![t] = Over(c, res)]
  /\ holder' = [holder EXCEPT ![c.on] = "none"]
  /\ lost' = IF c.op \in Reads /\ res # "ok"
             THEN [lost EXCEPT ![c.on] = @ \cup ToSet(c.got)] ELSE lost
  /\ kept' = IF c.op \in Reads /\ res = "ok"
             THEN [kept EXCEPT ![c.on] = @ \cup ToSet(c.got)] ELSE kept

(* apply_tcp_stream_timeout; for a listener, the tests of its loop.        *)
Arm(t) ==
  LET c == call[t]
  IN /\ c.at = "arm"
     /\ \/ /\ Refusal(c) # "none"
           /\ End(t, c, Refusal(c))
           /\ UNCHANGED timed
        \/ /\ Refusal(c) = "none"
           /\ call' = [call EXCEPT ![t].at = "call"]
           /\ timed' = [timed EXCEPT ![c.on] = Sliced(c)]
           /\ UNCHANGED <<holder, lost, kept>>
     /\ UNCHANGED <<open, expired, cancelled, sent, taken, reset, backlog,
                    calls>>

----------------------------------------------------------------------------
(* What the kernel answers                                                 *)

(* A call that loops goes on without the mutex until it has all it asked   *)
(* for; read_all goes on until the other end has closed.                   *)
Enough(c) == IF c.op = "read_all" THEN FALSE
             ELSE c.op \notin Loops \/ Len(c.got) >= c.size

Moved(t, c) ==
  IF Enough(c) THEN End(t, c, "ok")
  ELSE /\ call' = [call EXCEPT ![t] = [c EXCEPT !.at = "lock"]]
       /\ holder' = [holder EXCEPT ![c.on] = "none"]
       /\ UNCHANGED <<lost, kept>>

Asks(c) == IF c.op = "read_all" THEN Room ELSE c.size - Len(c.got)

(* Mutant: every round of read_exact and read_all fills the buffer from    *)
(* its start.                                                              *)
ReadOverwrites(t) ==
  LET c == call[t]
  IN /\ c.at = "call" /\ c.op \in Reads
     /\ Waiting(c.on) > 0 /\ ~reset[c.on]
     /\ taken' = [taken EXCEPT ![c.on] = @ + 1]
     /\ Moved(t, [c EXCEPT !.got = NextPlaces(c.on, 1)])
     /\ UNCHANGED <<open, timed, expired, cancelled, sent, reset, backlog,
                    calls>>

Read(t) ==
  LET c == call[t]
  IN /\ c.at = "call" /\ c.op \in Reads
     /\ Waiting(c.on) > 0 /\ ~reset[c.on]
     /\ \E n \in 1..Waiting(c.on) :
          /\ n <= Asks(c)
          /\ taken' = [taken EXCEPT ![c.on] = @ + n]
          /\ Moved(t, [c EXCEPT !.got = @ \o NextPlaces(c.on, n)])
     /\ UNCHANGED <<open, timed, expired, cancelled, sent, reset, backlog,
                    calls>>

(* The other end closed: an empty read, an error for read_exact, the end   *)
(* of read_all.                                                            *)
ReadNothing(t) ==
  LET c == call[t]
  IN /\ c.at = "call" /\ c.op \in Reads
     /\ ~open[Other[c.on]] /\ Waiting(c.on) = 0 /\ ~reset[c.on]
     /\ End(t, c, IF c.op = "read_exact" THEN "closed" ELSE "ok")
     /\ UNCHANGED <<open, timed, expired, cancelled, sent, taken, reset,
                    backlog, calls>>

(* What is written to an end that is closed goes nowhere, and may come     *)
(* back as a reset.                                                        *)
Write(t) ==
  LET c == call[t]
      to == Other[c.on]
  IN /\ c.at = "call" /\ c.op \in Writes
     /\ ~reset[c.on] /\ Waiting(to) < Room
     /\ \E n \in 1..(Room - Waiting(to)) :
          /\ n <= Asks(c)
          /\ sent' = [sent EXCEPT ![to] = @ \o [i \in 1..n |-> t]]
          /\ Moved(t, [c EXCEPT !.got = @ \o Places(Len(sent[to]), n)])
     /\ \/ UNCHANGED reset
        \/ ~open[to] /\ reset' = [reset EXCEPT ![c.on] = TRUE]
     /\ UNCHANGED <<open, timed, expired, cancelled, taken, backlog, calls>>

Broken(t) ==
  LET c == call[t]
  IN /\ c.at = "call" /\ c.on \in Ends
     /\ \/ c.op \in Reads /\ reset[c.on]
        \/ c.op \in Writes /\ (reset[c.on] \/ ~open[Other[c.on]])
     /\ End(t, c, "broken")
     /\ UNCHANGED <<open, timed, expired, cancelled, sent, taken, reset,
                    backlog, calls>>

(* The slice is over and there is nothing to read, or no room: a socket    *)
(* without a timeout goes on blocking instead.                             *)
Nothing(c) ==
  \/ c.op \in Reads /\ Waiting(c.on) = 0 /\ open[Other[c.on]]
                    /\ ~reset[c.on]
  \/ c.op \in Writes /\ Waiting(Other[c.on]) >= Room /\ open[Other[c.on]]
                     /\ ~reset[c.on]

(* Mutant: the call goes on to the next slice without a look at its        *)
(* control.                                                                *)
SliceRepeats(t) ==
  LET c == call[t]
  IN /\ c.at = "call" /\ c.on \in Ends /\ Nothing(c) /\ timed[c.on]
     /\ UNCHANGED vars

SliceEnds(t) ==
  LET c == call[t]
  IN /\ c.at = "call" /\ c.on \in Ends /\ Nothing(c) /\ timed[c.on]
     /\ IF Refusal(c) # "none" THEN End(t, c, Refusal(c))
        ELSE /\ call' = [call EXCEPT ![t].at = "arm"]
             /\ UNCHANGED <<holder, lost, kept>>
     /\ UNCHANGED <<open, timed, expired, cancelled, sent, taken, reset,
                    backlog, calls>>

(* listener_accept_value: the listener never blocks, the loop sleeps a     *)
(* slice, whatever the control, and tests it again.                        *)
Accept(t) ==
  LET c == call[t]
  IN /\ c.at = "call" /\ c.op = "accept"
     /\ \/ /\ backlog > 0
           /\ backlog' = backlog - 1
           /\ End(t, c, "ok")
        \/ /\ backlog = 0
           /\ IF Refusal(c) # "none" THEN End(t, c, Refusal(c))
              ELSE /\ call' = [call EXCEPT ![t].at = "arm"]
                   /\ UNCHANGED <<holder, lost, kept>>
           /\ UNCHANGED backlog
     /\ UNCHANGED <<open, timed, expired, cancelled, sent, taken, reset,
                    calls>>

----------------------------------------------------------------------------
(* The world                                                               *)

Expire == /\ ~expired /\ expired' = TRUE
          /\ UNCHANGED <<open, holder, timed, cancelled, worldVars, call,
                         calls>>

Cancel == /\ ~cancelled /\ cancelled' = TRUE
          /\ UNCHANGED <<open, holder, timed, expired, worldVars, call,
                         calls>>

(* A client connects: one at a time is enough to be accepted or missed.    *)
Arrive == /\ open["listener"] /\ backlog = 0
          /\ \E t \in Tasks : \E r \in Menu[t] : r.op = "accept"
          /\ backlog' = 1
          /\ UNCHANGED <<open, holder, timed, expired, cancelled, sent, taken,
                         reset, kept, lost, call, calls>>

Step(t) == \/ Lock(t) \/ Close(t) \/ Arm(t)
           \/ Read(t) \/ ReadNothing(t) \/ Write(t) \/ Broken(t)
           \/ SliceEnds(t) \/ Accept(t)

Next == \/ \E t \in Tasks : Begin(t) \/ Step(t)
        \/ Expire \/ Cancel \/ Arrive

(* Threads run, slices end and time passes; a program need not cancel, and *)
(* nobody has to connect.                                                  *)
Fairness == WF_vars(Expire) /\ \A t \in Tasks : WF_vars(Step(t))

Spec == Init /\ [][Next]_vars /\ Fairness

----------------------------------------------------------------------------
(* Properties                                                              *)

CallStates == {"idle", "lock", "arm", "call", "over"}
Outcomes == {"none", "ok", "closed", "broken", "cancelled", "timeout"}
Call == [op: Reads \cup Writes \cup Others \cup {"none"}, on: Handles,
         ctl: AllControls, size: 0..2, got: Seq(Nat), at: CallStates,
         res: Outcomes]

(* Type correctness.                                                       *)
TypeOK ==
  /\ open \in [Handles -> BOOLEAN]
  /\ holder \in [Handles -> Tasks \cup {"none"}]
  /\ timed \in [Handles -> BOOLEAN]
  /\ expired \in BOOLEAN /\ cancelled \in BOOLEAN
  /\ sent \in [Ends -> Seq(Tasks)]
  /\ taken \in [Ends -> Nat]
  /\ reset \in [Ends -> BOOLEAN]
  /\ backlog \in {0, 1}
  /\ call \in [Tasks -> Call]
  /\ calls \in [Tasks -> Nat]
  /\ kept \in [Ends -> SUBSET Nat]
  /\ lost \in [Ends -> SUBSET Nat]

Holds(t) == call[t].at \in {"arm", "call"}
Done(t) == call[t].at \in {"idle", "over"}
Collects(t, e) == /\ call[t].op \in Reads /\ call[t].on = e
                  /\ ~Done(t)
InHand(e) == UNION {ToSet(call[t].got) : t \in {x \in Tasks : Collects(x, e)}}

(* Every byte an end has taken from the kernel is in exactly one place: in *)
(* the result of a read that succeeded, in the hands of one read that      *)
(* still collects, or gone with a read that failed half way; concurrent    *)
(* reads of one end never get the same byte, and each gets its bytes in    *)
(* the order they were sent.                                               *)
BytesAreConserved ==
  \A e \in Ends :
    /\ 1..taken[e] = kept[e] \cup lost[e] \cup InHand(e)
    /\ kept[e] \cap lost[e] = {}
    /\ InHand(e) \cap (kept[e] \cup lost[e]) = {}
    /\ \A t, u \in Tasks :
         /\ Collects(t, e) =>
              \A i, j \in 1..Len(call[t].got) :
                i < j => call[t].got[i] < call[t].got[j]
         /\ Collects(t, e) /\ Collects(u, e) /\ t # u =>
              ToSet(call[t].got) \cap ToSet(call[u].got) = {}

(* A call ends the way it says: cancelled or timed out only by a token or  *)
(* a deadline of its own view, whatever other views of the handle carry;   *)
(* read_exact and write_all succeed only with all they asked for, and what *)
(* a write reports is what it put on the way.  While a call blocks, it     *)
(* alone holds the mutex and the socket's timeout is the one it set.       *)
OutcomesAreHonest ==
  /\ \A t \in Tasks : LET c == call[t] IN
       /\ c.res = "cancelled" => Stopped(c)
       /\ c.res = "timeout" => TimedOut(c)
       /\ c.res = "ok" /\ c.on \in Ends /\ c.op \in {"read_exact", "write_all"}
            => Len(c.got) = c.size
       /\ c.op \in Writes => \A i \in 1..Len(c.got) :
                                sent[Other[c.on]][c.got[i]] = t
       /\ Holds(t) => holder[c.on] = t
       /\ c.at = "call" => timed[c.on] = Sliced(c)

(* The only thing that keeps a call with a deadline from ending: another   *)
(* call, without a deadline, that blocks on the same handle for ever.      *)
Stuck(t) ==
  /\ call[t].at = "lock"
  /\ holder[call[t].on] # "none"
  /\ "deadline" \notin call[holder[call[t].on]].ctl

(* A call of a view with a deadline ends, unless its handle's mutex is     *)
(* held for good by a call without one: the deadline is not looked at      *)
(* while it waits for the mutex.                                           *)
DeadlineEnds ==
  \A t \in Tasks :
    (~Done(t) /\ "deadline" \in call[t].ctl) ~> (Done(t) \/ []Stuck(t))

(* When the other end has closed, every call on this end comes to its end, *)
(* with or without a control, however many tasks wait for the mutex.       *)
HungUp(t) == call[t].on \in Ends /\ ~open[Other[call[t].on]]

HangUpEnds == \A t \in Tasks : (~Done(t) /\ HungUp(t)) ~> Done(t)

============================================================================
