------------------------------ MODULE MCTests -------------------------------
(* One instance for the fixtures of a test file, and for what a test and   *)
(* its tasks get from a TestContext.                                       *)
EXTENDS JoinedTests, TLC

CONSTANTS server, client, user, session, u

(* One variable has a value from the start, the others have none ("unset"  *)
(* and "garbled" are Unset and Garbled of TestContext).                    *)
OneIsSet == [v \in Variables |-> IF v = u THEN "a" ELSE "unset"]

(* The same, with a value that is not Unicode.                             *)
OneIsGarbled == [OneIsSet EXCEPT ![u] = "garbled"]

(* The tasks of a test are interchangeable.                                *)
TasksAlike == Permutations(Tasks)

(* Only the first test starts tasks; the later ones find what it left.     *)
FewTasks == \A a \in C!Threads : a[1][2] > 1 /\ a[2] # Body => thread'[a].step.at = "unborn"
SmallNext == (OnFixtures /\ Next) \/ (OnContext /\ C!Next /\ FewTasks)
SmallSpec == TestsInit /\ [][SmallNext]_<<part, vars, contextVars>>

(* A file with two module fixtures, one of them made from the other, and   *)
(* two test fixtures, one made from the other and from a module fixture.   *)
Scopes == [f \in Names |-> IF f \in {server, client} THEN "module" ELSE "test"]

Graph ==
  [x \in Names \cup 1 .. Tests |->
     CASE x = client -> <<server>>
       [] x = session -> <<client, TestContext, user>>
       [] x = 1 -> <<user, session, TestContext>>
       [] x = 2 -> <<client, user>>
       [] x = 3 -> <<session, server>>
       [] OTHER -> <<>>]

(* The reports that tear the file down, and the one that does not.         *)
Thorough == {<<"human", TRUE>>, <<"human", FALSE>>, <<"machine", FALSE>>}
MachineFailFast == {<<"machine", TRUE>>}
=============================================================================
