--------------------------- MODULE MCAutoRefresh ---------------------------
(* An instance of AutoRefresh: a credential timed by the lead of its      *)
(* provider, whose tokens are due after one unit and expire after two.     *)
EXTENDS AutoRefresh

OneUnit == [a \in Auth |-> 1]
NoInterval == [a \in Auth |-> 0]
FreshToken == [a \in Auth |-> {2}]
=============================================================================
