----------------------------- MODULE MCGovernor -----------------------------
(* Instances of Governor for TLC. *)
EXTENDS Governor, TLC

CONSTANTS tokens, cost

MCLimits == [g \in Gauges |-> IF g = tokens THEN 1 ELSE 0]
Symmetric == Permutations(Workers) \cup Permutations(Callers)

=============================================================================
