----------------------- MODULE MCAuthSchedulerRotation -----------------------
(* Instances of AuthSchedulerRotation for TLC. *)
EXTENDS AuthSchedulerRotation, TLC

CONSTANTS codex, gemini, m1

Free == [disabled |-> FALSE, unavailable |-> FALSE, exceeded |-> FALSE,
         nextRetryAfter |-> 0, nextRecoverAt |-> 0]

Ready(p, parent, ws) ==
    [provider |-> p, priority |-> 0, parent |-> parent, websocket |-> ws,
     models |-> {m1}, disabled |-> FALSE, statusDisabled |-> FALSE,
     states |-> [m \in Model |-> Free]]

Until(t, s) ==
    [s EXCEPT !.states = [m \in Model |-> [Free EXCEPT !.unavailable = TRUE, !.nextRetryAfter = t]]]

(* Plain, websocket and virtual credentials of one provider, and plain     *)
(* ones of another that are blocked until the clock ticks.                 *)
RotatedSnapshots ==
    {Ready(codex, NoParent, FALSE), Ready(codex, NoParent, TRUE), Ready(codex, 1, FALSE),
     Ready(codex, 2, FALSE), Until(2, Ready(gemini, NoParent, FALSE))}

(* What was answered influences nothing. *)
WithoutAnswer == <<now, auths, providers, authProviders, strategy, shards, mixedCursors, waited, waitedMixed>>

OneOrder == {<<codex, gemini>>}
=============================================================================
