----------------------------- MODULE Inference -----------------------------
(***************************************************************************)
(* The inference of return types: the checker looks at every function in   *)
(* rounds, each with the types of the round before, and then checks the    *)
(* program with what it has. What it finds of one function is a parameter. *)
(***************************************************************************)
EXTENDS Naturals, FiniteSets

CONSTANTS
  Written,         \* programs: a function for each name
  Undeclared,      \* stands for the type of a function declared without one
  NotYet,          \* the type such a function has until it is inferred
  Finds(_, _, _),  \* lower_function: of a program, with types, a function
  Callees(_, _)    \* the functions of a program that the body of one calls
ASSUME InferenceAssumption == \A p \in Written : IsFiniteSet(DOMAIN p)

VARIABLES
  prog,    \* the program
  sigs,    \* the return type each function is taken to have
  round,   \* rounds of inference so far
  stage    \* "inferring", "inferred", "accepted", "refused", "over"

inferenceVars == <<prog, sigs, round, stage>>

Functions == DOMAIN prog
Checked(name) == Finds(prog, sigs, name)

InferInit ==
  /\ prog \in Written
  /\ sigs = [f \in Functions |-> IF prog[f].ret = Undeclared THEN NotYet ELSE prog[f].ret]
  /\ round = 0 /\ stage = "inferring"

(* Mutant of InferRound: two rounds are taken to be enough.                *)
InferTwice ==
  /\ stage = "inferring"
  /\ sigs' = [f \in Functions |-> Checked(f).ty]
  /\ round' = round + 1
  /\ stage' = IF sigs' = sigs \/ round = 1 THEN "inferred" ELSE stage
  /\ UNCHANGED prog

(* A round checks every function with the types of the round before, and   *)
(* one that changes no type is the last. So is the one after as many as    *)
(* there are functions. What a round finds wrong is not reported.          *)
InferRound ==
  /\ stage = "inferring"
  /\ sigs' = [f \in Functions |-> Checked(f).ty]
  /\ round' = round + 1
  /\ stage' = IF sigs' = sigs \/ round = Cardinality(Functions) THEN "inferred" ELSE stage
  /\ UNCHANGED prog

CheckProgram ==
  /\ stage = "inferred"
  /\ stage' = IF \A f \in Functions : Checked(f).ok THEN "accepted" ELSE "refused"
  /\ UNCHANGED <<prog, sigs, round>>

(* What an accepted program does has no influence on its types.            *)
RunProgram ==
  /\ stage = "accepted"
  /\ stage' = "over"
  /\ UNCHANGED <<prog, sigs, round>>

InferNext == InferRound \/ CheckProgram \/ RunProgram
InferSpec == InferInit /\ [][InferNext]_inferenceVars

----------------------------------------------------------------------------
(* The functions without a declared type call each other in no circle: a   *)
(* number for each, such that each calls only those with smaller ones.     *)
Untyped(p) == {f \in DOMAIN p : p[f].ret = Undeclared}
Orders(p) ==
  LET calls == {c \in Untyped(p) \X Untyped(p) : c[2] \in Callees(p, c[1])}
  IN {rank \in [DOMAIN p -> 0 .. Cardinality(DOMAIN p) - 1] :
        \A c \in calls : rank[c[2]] < rank[c[1]]}

(* When the rounds end the types are those the functions have by them:     *)
(* another round would change none. (Functions that call each other in a   *)
(* circle can go on for ever, and are cut short.)                          *)
Stable == \A f \in Functions : Checked(f).ty = sigs[f]
InferenceSettles == stage = "inferred" /\ Orders(prog) # {} => Stable
InferenceIsStable == stage = "inferred" => Stable

----------------------------------------------------------------------------
(* What a checker has to be like for that, with a set of types: it leaves  *)
(* a declared type as it is, and the type it finds of a function depends   *)
(* on the types of those it calls and on no other.                         *)
OfCallees(p, s, f) == [g \in DOMAIN p |-> IF g \in Callees(p, f) THEN s[g] ELSE NotYet]
LooksAtCallees(programs, types) ==
  \A p \in programs : \A f \in DOMAIN p, s \in [DOMAIN p -> types] :
    /\ p[f].ret # Undeclared => Finds(p, s, f).ty = p[f].ret
    /\ Finds(p, s, f).ty = Finds(p, OfCallees(p, s, f), f).ty
(* And it finds one of the types.                                          *)
FindsTypes(types) ==
  /\ NotYet \in types
  /\ \A p \in Written : \A f \in DOMAIN p :
       /\ p[f].ret # Undeclared => p[f].ret \in types
       /\ \A s \in [DOMAIN p -> types] : Finds(p, s, f).ty \in types
=============================================================================
