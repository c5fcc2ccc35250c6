-------------------------- MODULE MCAutomationRuns --------------------------
(* AutomationRuns for TLC. *)
EXTENDS AutomationRuns, TLC

CONSTANTS u1, u2, d1, d2, t1, t2

\* Two daemons of one user, who has the tasks.
OneUser == [d \in Daemons |-> u1]
OneUsersTasks == [t \in Tasks |-> u1]

\* A second user with a daemon of its own and no task.
UserEach == [d \in Daemons |-> IF d = d1 THEN u1 ELSE u2]

Symmetry == Permutations(Daemons) \cup Permutations(Tasks)
=============================================================================
