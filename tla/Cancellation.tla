---------------------------- MODULE Cancellation ----------------------------
(***************************************************************************)
(* Cancellation tokens and wait signals (interpreter.rs), the two things   *)
(* every blocking operation of gof is built from.                          *)
(*                                                                         *)
(* A WaitSignal is a generation under a mutex with a condition variable: a *)
(* thread reads the generation, and wait_for_change sleeps until it        *)
(* differs.  All that matters of the generation is whether it moved since  *)
(* it was last read, so signal[t] says that of the one signal of t's       *)
(* operation.  A token is an atomic flag and a mutex around weak           *)
(* references to the signals to notify; a reference is dead as soon as the *)
(* operation that owns the signal has returned.                            *)
(***************************************************************************)
EXTENDS Naturals

CONSTANTS
  Threads,      (* threads of the program: main and the spawned tasks      *)
  Tokens,       (* the cancellation tokens the program created             *)
  NoToken

VARIABLES
  token,        (* CancellationState of each token                         *)
  signal        (* signal[t]: t's WaitSignal generation moved since read   *)

(* `notifying` is true between cancel's swap of the flag and its walk over *)
(* the waiters.                                                            *)
CancellationState ==
  [cancelled : BOOLEAN, notifying : BOOLEAN, waiters : SUBSET Threads]

FreshToken == [cancelled |-> FALSE, notifying |-> FALSE, waiters |-> {}]

IsCancelled(k) == k \in Tokens /\ token[k].cancelled

(* notify_registered_wait_signals: the live signals of `owners` move on.   *)
Notify(owners) == signal' = [u \in Threads |-> signal[u] \/ u \in owners]

(* The operation of t returns and its signal with it.                      *)
DropSignal(t) == signal' = [signal EXCEPT ![t] = FALSE]

(* The generation is read: only later notifications count.                 *)
ReadGeneration(t) == signal' = [signal EXCEPT ![t] = FALSE]

(* register_waiter, and the death of the registered signal.                *)
Watch(t, k) ==
  token' = [j \in Tokens |->
              [token[j] EXCEPT !.waiters = IF j = k THEN @ \cup {t} ELSE @]]

Forget(t, k) ==
  token' = [j \in Tokens |->
              [token[j] EXCEPT !.waiters = IF j = k THEN @ \ {t} ELSE @]]

(* cancel(k), or the timer thread of timeout_token and cancel_after: the   *)
(* swap of the flag (a second cancel sees it set and returns) ...          *)
RaiseFlag(k) ==
  /\ ~token[k].cancelled
  /\ token' = [token EXCEPT ![k].cancelled = TRUE, ![k].notifying = TRUE]
  /\ UNCHANGED signal

(* ... and then, under the token's own mutex, the notifications.           *)
NotifyWatchers(k) ==
  /\ token[k].notifying
  /\ token' = [token EXCEPT ![k].notifying = FALSE]
  /\ Notify(token[k].waiters)
=============================================================================
