-------------------------- MODULE MCTaskLifecycle --------------------------
(* Small instances of TaskLifecycle. *)
EXTENDS TaskLifecycle, TLC

CONSTANTS s1, s2, a1, a2, a3, r1, r2, t1, t2, st1, st2

NoSubtasks == [t \in Tasks |-> {}]
TwoSubtasks == [t \in Tasks |-> {st1, st2}]
OneWithSubtasks == [t \in Tasks |-> IF t = t1 THEN {st1, st2} ELSE {}]

Symmetry == Permutations(Servers) \cup Permutations(Sessions) \cup Permutations(Requests)
=============================================================================
