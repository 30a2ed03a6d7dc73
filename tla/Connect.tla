------------------------------ MODULE Connect ------------------------------
(***************************************************************************)
(* connect_tcp and connect_tcp_with_control (connect_tcp_value and         *)
(* connect_to_socket_addresses, compiler/gof-compiler/src/interpreter.rs): *)
(* the addresses a name resolves to are tried one after the other.  With a *)
(* token every attempt gets one slice of 25 ms and the list is gone        *)
(* through again and again; without one each gets all the time that is     *)
(* left.  Time is counted in slices.                                       *)
(***************************************************************************)
EXTENDS Naturals, Sequences

CONSTANTS
  Addresses,    (* the lists a name may resolve to: see Peers              *)
  Deadlines,    (* the deadlines in use; Never for none                    *)
  Cancels,      (* when the token is cancelled; NoToken for no token       *)
  Never, NoToken,
  Patience,     (* how long the system waits in a connect without limit    *)
  Horizon       (* the clock stops there                                   *)

(* A peer answers or refuses after some time, or is silent.                *)
Peers == [how: {"answers", "refuses", "silent"}, after: Nat]

(* What is assumed of the constants.                                       *)
ConnectAssumption ==
  /\ \A l \in Addresses : l \in Seq(Peers)
  /\ Never \in Nat /\ NoToken \in Nat
  /\ Deadlines \subseteq 0..Never
  /\ Cancels \subseteq 0..NoToken /\ NoToken > Never
  /\ Patience \in Nat \ {0}
  /\ Horizon \in Nat /\ Horizon <= Never

VARIABLES
  list,         (* the addresses                                           *)
  deadline, cancelAt,   (* the control                                     *)
  now,
  slice,        (* the time the attempts of this round get                 *)
  next,         (* the address to try                                      *)
  refused,      (* last_non_timeout, last_error: an address refused        *)
  missed,       (* saw_timeout                                             *)
  at,           (* "start", "round", "try" or "over"                       *)
  res

vars == <<list, deadline, cancelAt, now, slice, next, refused, missed, at,
          res>>
control == <<list, deadline, cancelAt>>

HasToken == cancelAt # NoToken
HasDeadline == deadline # Never
Cancelled == HasToken /\ now >= cancelAt
Expired == HasDeadline /\ now >= deadline
Least(a, b) == IF a < b THEN a ELSE b
Remaining == deadline - now

Init ==
  /\ list \in Addresses
  /\ deadline \in Deadlines /\ cancelAt \in Cancels
  /\ now = 0 /\ slice = 0 /\ next = 1
  /\ refused = FALSE /\ missed = FALSE
  /\ at = "start" /\ res = "none"

GiveUp(r) == /\ at' = "over" /\ res' = r
             /\ UNCHANGED <<control, now, slice, next, refused, missed>>

(* The token is looked at before the name is resolved, the deadline is not. *)
Start ==
  /\ at = "start"
  /\ IF Cancelled THEN GiveUp("cancelled")
     ELSE IF list = <<>> THEN GiveUp("dns")
     ELSE /\ at' = IF HasToken THEN "round" ELSE "try"
          /\ UNCHANGED <<control, now, slice, next, refused, missed, res>>

(* control_wait_slice, once for all the addresses of a round.              *)
Round ==
  /\ at = "round"
  /\ IF Cancelled THEN GiveUp("cancelled")
     ELSE IF Expired THEN GiveUp("timeout")
     ELSE /\ slice' = IF HasDeadline THEN Least(1, Remaining) ELSE 1
          /\ next' = 1 /\ refused' = FALSE /\ missed' = FALSE
          /\ at' = "try"
          /\ UNCHANGED <<control, now, res>>

(* Mutant: every address gets the whole timeout.                           *)
FullLimit == IF HasToken THEN slice
             ELSE IF HasDeadline THEN deadline ELSE Patience

(* The time an attempt gets.                                               *)
Limit == IF HasToken THEN slice
         ELSE IF HasDeadline THEN Remaining ELSE Patience

InTime(p) == p.how # "silent" /\ p.after <= Limit

(* connect_timeout: the peer answers in time, refuses in time, or neither. *)
Attempt ==
  LET p == list[next]
      spent == IF InTime(p) THEN p.after ELSE Limit
  IN /\ now' = Least(now + spent, Horizon)
     /\ IF InTime(p) /\ p.how = "answers"
        THEN at' = "over" /\ res' = "ok" /\ UNCHANGED <<next, refused, missed>>
        ELSE /\ next' = next + 1
             /\ refused' = IF InTime(p) THEN TRUE
                           ELSE IF HasToken THEN refused ELSE FALSE
             /\ missed' = (missed \/ ~InTime(p))
             /\ UNCHANGED <<at, res>>
     /\ UNCHANGED <<control, slice>>

Try ==
  /\ at = "try"
  /\ IF next <= Len(list)
     THEN IF ~HasToken /\ Expired THEN GiveUp("timeout") ELSE Attempt
     ELSE IF refused THEN GiveUp("refused")
     ELSE IF HasToken /\ missed
          THEN /\ at' = "round"
               /\ UNCHANGED <<control, now, slice, next, refused, missed, res>>
     ELSE GiveUp("timeout")

Next == Start \/ Round \/ Try

Spec == Init /\ [][Next]_vars /\ WF_vars(Next)

----------------------------------------------------------------------------
(* Properties                                                              *)

(* Type correctness.                                                       *)
TypeOK ==
  /\ list \in Addresses /\ deadline \in Deadlines /\ cancelAt \in Cancels
  /\ now \in 0..Horizon /\ slice \in {0, 1} /\ next \in 1..(Len(list) + 1)
  /\ refused \in BOOLEAN /\ missed \in BOOLEAN
  /\ at \in {"start", "round", "try", "over"}
  /\ res \in {"none", "ok", "cancelled", "timeout", "refused", "dns"}

(* A connect gives up for a reason it was given: cancelled only by its     *)
(* token, timed out only at its deadline or after the system's patience;   *)
(* it is never late by more than the attempts of one round, not at all     *)
(* without a token; and without a token it only fails if no peer answers   *)
(* in the time that was left for it.                                       *)
GivesUpRightly ==
  at = "over" =>
    /\ res = "cancelled" => Cancelled
    /\ res = "timeout" /\ HasToken => Expired
    /\ HasDeadline => now <= deadline + (IF HasToken /\ list # <<>> THEN Len(list) - 1 ELSE 0)
    /\ HasToken /\ cancelAt > 0 => now < cancelAt + Len(list)
    /\ ~HasToken /\ ~HasDeadline /\ res # "ok"
         => \A i \in 1..Len(list) :
              ~(list[i].how = "answers" /\ list[i].after <= Patience)
    /\ ~HasToken /\ Len(list) = 1 /\ list[1].how = "answers"
         /\ 0 < deadline /\ list[1].after <= Least(deadline, Patience)
         => res = "ok"

(* A connect with a deadline, with a token that is cancelled, or without a *)
(* token ends.                                                             *)
ConnectEnds == (~HasToken \/ HasDeadline \/ cancelAt < Never) ~> (at = "over")

(* The timeout is applied to the whole of the connection's set-up: a lone  *)
(* peer that answers within it is reached.                                 *)
TimeoutIsHonoured ==
  at = "over" /\ Len(list) = 1 /\ HasDeadline /\ cancelAt >= deadline
    /\ list[1].how = "answers" /\ list[1].after < deadline
    => res = "ok"

============================================================================
