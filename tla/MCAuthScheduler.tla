--------------------------- MODULE MCAuthScheduler ---------------------------
(* An instance of AuthScheduler for TLC: two providers that share mixed    *)
(* requests, and credentials that move between them.                       *)
EXTENDS AuthScheduler, TLC

CONSTANTS codex, gemini, m1, any

Free == [disabled |-> FALSE, unavailable |-> FALSE, exceeded |-> FALSE,
         nextRetryAfter |-> 0, nextRecoverAt |-> 0]
Quota(t, u) == [Free EXCEPT !.unavailable = TRUE, !.exceeded = TRUE,
                            !.nextRetryAfter = t, !.nextRecoverAt = u]
Failed(t) == [Free EXCEPT !.unavailable = TRUE, !.nextRetryAfter = t]

Plain(p, pr, st) ==
    [provider |-> p, priority |-> pr, parent |-> NoParent, websocket |-> FALSE,
     models |-> {m1}, disabled |-> FALSE, statusDisabled |-> FALSE,
     states |-> [m \in Model |-> st]]

(* Priorities, a websocket, both orders of the two recovery times, a       *)
(* failure without quota, a credential without the model, a disabled one.  *)
ManySnapshots ==
    {[Plain(codex, 0, Quota(2, 3)) EXCEPT !.websocket = TRUE],
     Plain(codex, 1, Free),
     Plain(codex, 0, Quota(3, 2)),
     Plain(gemini, 0, Failed(2)),
     [Plain(gemini, 0, Free) EXCEPT !.models = {}],
     [Plain(gemini, 1, Free) EXCEPT !.disabled = TRUE]}

OneOrder == {<<codex, gemini>>}
=============================================================================
