---------------------------- MODULE MCTaskLifecycle ----------------------------
(* Two tasks, the second waiting for the first. *)
EXTENDS TaskLifecycle, TLC

CONSTANTS t1, t2
MCDependsOn == [t \in Tasks |-> IF t = t2 THEN {t1} ELSE {}]

\* A repeated plan of the second task names the first again, or nothing.
MCReplans == [t \in Tasks |-> IF t = t2 THEN {{}, {t1}} ELSE {{}}]
================================================================================
