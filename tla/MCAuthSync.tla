----------------------------- MODULE MCAuthSync -----------------------------
(* Instances of AuthSync: two goroutines, and a credential with two models *)
(* that nothing tells apart.                                               *)
EXTENDS AuthSync, TLC

CONSTANTS p1, p2, m1, m2

Alike == Permutations({p1, p2}) \cup Permutations({m1, m2})
=============================================================================
