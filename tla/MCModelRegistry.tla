-------------------------- MODULE MCModelRegistry --------------------------
(* Instances of ModelRegistry.  Two clients, a model of interest and       *)
(* another one; a unit of time is modelQuotaExceededWindow.                *)
EXTENDS ModelRegistry, TLC

CONSTANTS c1, c2, m1, m2, p1, p2

List(n1, n2) == [m \in Model |-> IF m = m1 THEN n1 ELSE n2]
Lists == {List(0, 0), List(1, 0), List(2, 0), List(0, 1)}
ServedOrNot == {List(0, 0), List(1, 0)}
Alike == Permutations({c1, c2}) \cup Permutations({p1, p2})
=============================================================================
