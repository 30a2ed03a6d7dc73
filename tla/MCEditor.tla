------------------------------ MODULE MCEditor ------------------------------
(* Instances of Editor.  Two documents share the first events; the later   *)
(* ones find the other one closed again, with the text it had at first.    *)
EXTENDS Editor, TLC

CONSTANTS d1, d2, Shared

DeepNext ==
  /\ Next
  /\ events' > Shared => \A d \in Documents \ {d1} : generations'[d] = 0 /\ text'[d] = 1

DeepSpec == Init /\ [][DeepNext]_vars /\ Fairness
=============================================================================
