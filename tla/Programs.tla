------------------------------ MODULE Programs ------------------------------
(***************************************************************************)
(* A program from its source to its end: its return types are inferred     *)
(* and it is checked (Inference), and an accepted program is run. The      *)
(* checker and the evaluator are parameters, for Checker and Evaluator.    *)
(***************************************************************************)
EXTENDS CallEvaluator, Syntax, Inference

CONSTANTS
  Sample(_),   \* values of a parameter's type
  EndsOf(_, _, _, _),  \* EvalFunction: the ways a run of a function can end
  Fuel         \* how many nested calls, and rounds of a loop, a run follows

VARIABLES
  start,   \* the function that was run
  end      \* how it ended

vars == <<inferenceVars, start, end>>

Init == InferInit /\ start = "" /\ end = Stops

(* Any function may be the one that is run: main, a test or a fixture.     *)
RECURSIVE Choices(_)
Choices(types) ==
  IF types = <<>> THEN {<<>>}
  ELSE {<<v>> \o rest : v \in Sample(Head(types)), rest \in Choices(Tail(types))}
Run ==
  /\ RunProgram
  /\ \E f \in Functions :
       /\ start' = f
       /\ \E vals \in Choices(ParamTypes(prog[f])) :
            \E o \in EndsOf(prog, f, vals, Fuel) : end' = o

Next == ((InferRound \/ CheckProgram) /\ UNCHANGED <<start, end>>) \/ Run
Spec == Init /\ [][Next]_vars

----------------------------------------------------------------------------
(* What has to hold of a program for the checker to know all its types.    *)

(* Every way through the statements ends in a return.                      *)
RECURSIVE Returning(_)
Returning(body) ==
  \E i \in 1..Len(body) :
    LET s == body[i]
    IN CASE s[1] = "Return" -> TRUE
         [] s[1] = "If" -> Returning(s[3]) /\ Returning(s[4])
         [] s[1] \in {"Match", "Select"} ->
              LET arms == s[Len(s)] IN \A j \in 1..Len(arms) : Returning(arms[j].body)
         [] OTHER -> FALSE
(* It returns on every path, or on none.                                   *)
Ends(f) == Returning(prog[f].body) \/ Checked(f).returns = <<>>
(* A return with a ? in it returns a Result of its own as well.            *)
Plain(f) ==
  LET rs == Checked(f).returns
  IN \A i \in 1..Len(rs) :
       rs[i].err # NoType =>
         rs[i].ty[1] = "Result" /\ Merge(rs[i].ty[3], rs[i].err) # NoType
Knows(f) ==
  Checked(f).sure /\ Settled(sigs[f]) /\ sigs[f] = Checked(f).ty

(* An accepted program whose types the checker knows, in which every       *)
(* function returns on all paths or on none and no return takes its own ?  *)
(* for the wrapping, never stops because a value is of the wrong kind or a *)
(* name is not bound, and each function returns a value of its type.       *)
Sound ==
  /\ end \notin {Wrong, Misnamed}
  /\ end[1] = "value" => Inhabits(end[2], sigs[start])
TypesAreKept ==
  stage = "over" => Sound \/ \E f \in Functions : ~(Knows(f) /\ Ends(f) /\ Plain(f))

(* Names are settled before a run, whatever is known of the types: a bound *)
(* name is never missing, bound twice in a scope or assigned to where it   *)
(* is immutable. (A match on a value of unknown type binds its names only  *)
(* when it runs, so it is left out.)                                       *)
NamesResolve ==
  stage = "over" /\ end = Misnamed => \E f \in Functions : ~Checked(f).seen

(* A function with a declared return type returns a value of that type.    *)
AnnotationsHold ==
  stage = "over" /\ end[1] = "value" /\ prog[start].ret # NoType =>
    Inhabits(end[2], prog[start].ret) \/ \E f \in Functions : ~Knows(f)
=============================================================================
