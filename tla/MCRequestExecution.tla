------------------------ MODULE MCRequestExecution ------------------------
(* Instances of RequestExecution.  One unit of time is thirty seconds in   *)
(* the default configuration: the transient cooldown is two of them and    *)
(* the longest wait one.                                                   *)
EXTENDS RequestExecution

CONSTANTS a1, a2, r1, r2, m1, m2, u1, u2

(* Both requests ask for m1: a1 is a pool of two upstream models, a2       *)
(* serves m1 itself.  r2 streams.  a1 is prepared by the first request     *)
(* that gets its lock, while the other's results come in.                  *)
PoolRoute == [r \in Request |-> m1]
PoolOfTwo == [a \in Auth |-> [x \in Model |->
    IF x # m1 THEN <<>> ELSE IF a = a1 THEN <<u1, u2>> ELSE <<m1>>]]
NoneOnly == {NoRetryAfter}
WithRetryAfter == {NoRetryAfter, 1, 2}
Equal == [a \in Auth |-> 0]
FirstPreferred == [a \in Auth |-> IF a = a1 THEN 1 ELSE 0]
FirstRetriesOnce == [a \in Auth |-> IF a = a1 THEN 1 ELSE 0]
FirstRetries == [a \in Auth |-> IF a = a1 THEN 2 ELSE 0]

(* a1 serves m1 under an alias, which turns the requests to the legacy     *)
(* pick.                                                                   *)
Aliased == [a \in Auth |-> [x \in Model |->
    CASE x = m1 -> IF a = a1 THEN <<u1>> ELSE <<m1>>
      [] OTHER  -> <<>>]]
=============================================================================
