------------------------------ MODULE MCWatch ------------------------------
(* Instances of Watch for TLC: an edit turns old into new and back.  Where *)
(* both the lockfile and the dependency's source can be edited, a behaviour *)
(* edits one of them only: after edits of both the loop may rest on an     *)
(* outdated run, as the variant WatchDependency of README.md shows.        *)
EXTENDS Watch

Flip == [x \in Contents |-> IF x = "old" THEN "new" ELSE "old"]

VARIABLE edited

EitherInit ==
  /\ Init
  /\ edited \in IF {"lock", "depSource"} \subseteq Editable
                  THEN {Editable \ {"lock"}, Editable \ {"depSource"}} ELSE {Editable}

EitherNext ==
  /\ (\E f \in edited : Edit(f)) \/ HandlerRaises \/ HandlerSends \/ Loop
  /\ UNCHANGED edited

EitherSpec ==
  /\ EitherInit /\ [][EitherNext]_<<vars, edited>>
  /\ WF_vars(Loop) /\ WF_vars(HandlerSends)
=============================================================================
