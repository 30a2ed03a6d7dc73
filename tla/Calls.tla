------------------------------- MODULE Calls -------------------------------
(***************************************************************************)
(* One call of a builtin or of the standard library bridge, from the       *)
(* source to its end: the checker looks at the types and literals of its   *)
(* arguments, and if it accepts them the evaluator computes them one after *)
(* the other and performs the call. The checker's table and the            *)
(* evaluator's are two files of the code.                                  *)
(***************************************************************************)
EXTENDS CallTables

CONSTANTS
  Menu,       \* for each name, the argument lists a program may write
  Sample(_)   \* values of an argument: those of its type, or its literal

VARIABLES
  call,   \* the name and the arguments as written
  at,     \* "written", "accepted", "refused", "over"
  vals,   \* the values of the arguments so far
  out     \* how the call ended

vars == <<call, at, vals, out>>

Init ==
  /\ \E f \in DOMAIN Menu : \E a \in Menu[f] : call = [f |-> f, args |-> a]
  /\ at = "written" /\ vals = <<>> /\ out = Stops

Check ==
  /\ at = "written"
  /\ at' = IF Accepts(call.f, call.args) THEN "accepted" ELSE "refused"
  /\ UNCHANGED <<call, vals, out>>

(* The tests of the evaluator run programs no checker has seen: a refused  *)
(* call can be run as well.                                                *)
Ready == at \in {"accepted", "refused"}

Argument ==
  /\ Ready /\ Len(vals) < Len(call.args)
  /\ \E v \in Sample(call.args[Len(vals) + 1]) : vals' = Append(vals, v)
  /\ UNCHANGED <<call, at, out>>

Run ==
  /\ Ready /\ Len(vals) = Len(call.args)
  /\ \E o \in Perform(call.f, vals) : out' = o
  /\ at' = "over"
  /\ UNCHANGED <<call, vals>>

Next == Check \/ Argument \/ Run
Spec == Init /\ [][Next]_vars

----------------------------------------------------------------------------
SettledArguments == \A i \in 1..Len(call.args) : Settled(call.args[i].ty)
Accepted == Accepts(call.f, call.args)
HasValue == at = "over" /\ out[1] = "value"

(* An accepted call whose argument types the checker knows is never        *)
(* refused by the evaluator; and what an accepted call returns is of the   *)
(* type the checker gave it, also where an argument's type is unknown and  *)
(* it is the evaluator that looks. (append and insert keep the type of a   *)
(* list or dict whatever an unknown value brings in.)                      *)
CallsAreSound ==
  at = "over" /\ Accepted =>
    /\ SettledArguments => out # Wrong
    /\ HasValue /\ (SettledArguments \/ call.f \notin {"append", "insert"}) =>
         Inhabits(out[2], BuiltinType(call.f, call.args))

(* What the checker refuses only for a literal (a negative duration, size  *)
(* or capacity, a step of zero, an empty separator) the evaluator stops    *)
(* too when the same value arrives by another way.                         *)
Erased == [i \in 1..Len(call.args) |-> Arg(call.args[i].ty)]
LiteralsAreNotSpecial ==
  HasValue /\ ~Accepted /\ Accepts(call.f, Erased) => out[2] = FailedValue

(* The arithmetic progression that the arguments of range ask for.         *)
Number_(i) == vals[i][2]
Asked ==
  LET from == IF Len(vals) = 1 THEN 0 ELSE Number_(1)
      to == IF Len(vals) = 1 THEN Number_(1) ELSE Number_(2)
      step == IF Len(vals) < 3 THEN 1 ELSE Number_(3)
      size == IF (step > 0 /\ from >= to) \/ (step < 0 /\ from <= to) THEN 0
              ELSE IF step > 0 THEN ((to - from - 1) \div step) + 1
              ELSE ((from - to - 1) \div (-step)) + 1
  IN [from |-> from, step |-> step, size |-> size]
RangeEnds == at = "over" /\ call.f = "range" /\ Accepted /\ out \notin {Stops, Wrong}
IsExact ==
  out = Returns(ListValue([i \in 1..Asked.size |-> IntValue(Asked.from + (i - 1) * Asked.step)]))

(* Where all the numbers fit, the one behind the last element included,    *)
(* range is that progression: nothing panics, wraps or goes on for ever.   *)
RangeIsExact == RangeEnds /\ Asked.from + Asked.size * Asked.step \in Ints => IsExact

(* It is that progression always, since its elements fit.  The code fails  *)
(* this: it adds the step once more before it looks whether it is done.    *)
RangeFitsItsElements == RangeEnds => IsExact
=============================================================================
