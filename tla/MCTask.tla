------------------------------- MODULE MCTask -------------------------------
(* Main and two tasks, one of them with a RuntimeError result, for TLC.    *)
EXTENDS Task, TLC

CONSTANTS main, t1, t2, k1

(* main joins both tasks and t1 joins t2, so t2 is joined twice and its    *)
(* failure can pass through t1.                                            *)
Chain == {<<main, t1>>, <<main, t2>>, <<t1, t2>>}
OneOfEach == [k \in Tasks |-> IF k = t1 THEN "result" ELSE "direct"]
=============================================================================
