----------------------------- MODULE AuthResult -----------------------------
(***************************************************************************)
(* What an execution result does to a credential: the part of              *)
(* Manager.MarkResult that runs under the manager's lock, and the          *)
(* functions it calls (sdk/cliproxy/auth/conductor.go), with               *)
(* isAuthBlockedForModel of selector.go, which reads what they leave.      *)
(*                                                                         *)
(* Times are integers on a scale the using module chooses; ZeroTime is     *)
(* Go's zero time.Time, before every moment a module uses.  A status       *)
(* message carries no more than the error and is left out.                 *)
(***************************************************************************)
EXTENDS Integers, FiniteSetsExt

CONSTANTS Model,           \* the models results are recorded under
          UnauthorizedCool, MissingCool, TransientCool, \* cooldowns, by cause
          QuotaBackoffBase, QuotaBackoffMax

ASSUME CooldownsArePositive ==
    /\ {UnauthorizedCool, MissingCool, TransientCool} \subseteq Nat \ {0}
    /\ {QuotaBackoffBase, QuotaBackoffMax} \subseteq Nat \ {0}
    /\ QuotaBackoffBase <= QuotaBackoffMax

ZeroTime == -1
NoRetryAfter == -1   \* a result that carries no Retry-After

(* Failures, told apart as MarkResult and isRequestInvalidError do:        *)
(* "unauthorized" is 401, "payment" 402 or 403, "quota" 429, "transient"   *)
(* 408, 500, 502, 503 or 504, "unknown" a 500 whose body says UNKNOWN,     *)
(* "missing" 404, "requestMissing" a 404 for an item of the request,       *)
(* "unsupported" a 400 or 422 that says the model is not supported,        *)
(* "invalid" any other 422 or a 400 that blames the request, and "other"   *)
(* the rest, errors without a status among them.                           *)
Failure == {"unauthorized", "payment", "quota", "transient", "unknown",
            "missing", "requestMissing", "unsupported", "invalid", "other"}

NoQuota == [exceeded |-> FALSE, nextRecoverAt |-> ZeroTime, backoffLevel |-> 0]
CleanState == [status |-> "active", unavailable |-> FALSE, nextRetryAfter |-> ZeroTime,
               lastError |-> "none", quota |-> NoQuota]
(* A credential as Register stores it. *)
FreshAuth == [disabled |-> FALSE, status |-> "active", unavailable |-> FALSE,
              nextRetryAfter |-> ZeroTime, lastError |-> "none", quota |-> NoQuota,
              coolingDisabled |-> FALSE, states |-> <<>>]

TimeValue == Nat \cup {ZeroTime}
Quota == [exceeded: BOOLEAN, nextRecoverAt: TimeValue, backoffLevel: Nat]
ModelState == [status: {"active", "error"}, unavailable: BOOLEAN,
               nextRetryAfter: TimeValue, lastError: Failure \cup {"none"}, quota: Quota]
AuthTyped(auth) ==
    /\ auth.status \in {"active", "error", "disabled"}
    /\ {auth.disabled, auth.unavailable, auth.coolingDisabled} \subseteq BOOLEAN
    /\ auth.nextRetryAfter \in TimeValue
    /\ auth.lastError \in Failure \cup {"none"}
    /\ auth.quota \in Quota
    /\ DOMAIN auth.states \subseteq Model
    /\ auth.states \in [DOMAIN auth.states -> ModelState]
-----------------------------------------------------------------------------
(* isAuthBlockedForModel, for a model and for the credential as a whole.   *)
ModelBlocked(auth, m, t) ==
    /\ m \in DOMAIN auth.states
    /\ auth.states[m].unavailable
    /\ auth.states[m].nextRetryAfter > t
AuthDisabled(auth) == auth.disabled \/ auth.status = "disabled"
BlockedForModel(auth, m, t) == AuthDisabled(auth) \/ ModelBlocked(auth, m, t)
BlockedAsWhole(auth, t) ==
    AuthDisabled(auth) \/ (auth.unavailable /\ auth.nextRetryAfter > t)

(* The time isAuthBlockedForModel reports with a model that is blocked,    *)
(* and whether it reports a cooldown.                                      *)
BlockedUntil(state, t) ==
    IF state.quota.nextRecoverAt > t THEN state.quota.nextRecoverAt
    ELSE state.nextRetryAfter

-----------------------------------------------------------------------------
(* nextQuotaCooldown: the cooldown at a backoff level, and the next level. *)
Backoff(level) == Max({QuotaBackoffBase * 2^level, QuotaBackoffBase})
QuotaCooldown(level) == Min({Backoff(level), QuotaBackoffMax})
NextBackoffLevel(level) == IF Backoff(level) >= QuotaBackoffMax THEN level ELSE level + 1

(* ensureModelState *)
StateOf(auth, m) == IF m \in DOMAIN auth.states THEN auth.states[m] ELSE CleanState
WithState(auth, m, state) ==
    [auth EXCEPT !.states = [n \in DOMAIN @ \cup {m} |-> IF n = m THEN state ELSE @[n]]]

(* hasModelError *)
HasModelError(auth, t) ==
    \E m \in DOMAIN auth.states :
        LET s == auth.states[m]
        IN  \/ s.lastError # "none"
            \/ /\ s.status = "error" /\ s.unavailable
               /\ s.nextRetryAfter = ZeroTime \/ s.nextRetryAfter > t

(* The states whose retry time has come are made available again as        *)
(* updateAggregatedAvailability passes over them.                          *)
Released(states, t) ==
    [m \in DOMAIN states |->
        IF states[m].unavailable /\ states[m].nextRetryAfter \in 0 .. t
        THEN [states[m] EXCEPT !.unavailable = FALSE, !.nextRetryAfter = ZeroTime]
        ELSE states[m]]

AggregateQuota(states) ==
    LET exceeded == {m \in DOMAIN states : states[m].quota.exceeded}
        recovers == {states[m].quota.nextRecoverAt : m \in exceeded} \ {ZeroTime}
    IN  IF exceeded = {} THEN NoQuota
        ELSE [exceeded |-> TRUE,
              nextRecoverAt |-> IF recovers = {} THEN ZeroTime ELSE Min(recovers),
              backoffLevel |-> Max({states[m].quota.backoffLevel : m \in exceeded})]

(* Mutant: one blocked model is enough to make the credential unavailable. *)
UpdateAggregatedAvailability_Any(auth, t) ==
    LET blocked == {m \in DOMAIN auth.states : ModelBlocked(auth, m, t)}
        whole   == blocked # {}
    IN  [auth EXCEPT !.states = Released(@, t), !.quota = AggregateQuota(auth.states),
                     !.unavailable = whole,
                     !.nextRetryAfter = IF whole THEN Min({auth.states[m].nextRetryAfter : m \in blocked})
                                        ELSE ZeroTime]

(* updateAggregatedAvailability (and clearAggregatedAvailability): the     *)
(* credential is unavailable when every model it has a state for is.       *)
UpdateAggregatedAvailability(auth, t) ==
    LET blocked == {m \in DOMAIN auth.states : ModelBlocked(auth, m, t)}
        whole   == DOMAIN auth.states # {} /\ blocked = DOMAIN auth.states
    IN  [auth EXCEPT !.states = Released(@, t), !.quota = AggregateQuota(auth.states),
                     !.unavailable = whole,
                     !.nextRetryAfter = IF whole THEN Min({auth.states[m].nextRetryAfter : m \in blocked})
                                        ELSE ZeroTime]

ClearErrorUnlessModelError(auth, t) ==
    IF HasModelError(auth, t) THEN auth
    ELSE [auth EXCEPT !.lastError = "none", !.status = "active"]

(* Mutant: a success vouches for every model of the credential. *)
RecordSuccess_AllModels(auth, m, t) ==
    ClearErrorUnlessModelError(
        UpdateAggregatedAvailability(
            [auth EXCEPT !.states = [n \in DOMAIN @ \cup {m} |-> CleanState]], t), t)

(* MarkResult of a success under model m: resetModelState, then the        *)
(* aggregate, then the credential's own error.                             *)
RecordSuccess(auth, m, t) ==
    ClearErrorUnlessModelError(
        UpdateAggregatedAvailability(WithState(auth, m, CleanState), t), t)

(* The cooldown a failure other than a quota earns; 0 is none. *)
CooldownOf(kind) ==
    CASE kind \in {"unauthorized", "payment"} -> UnauthorizedCool
      [] kind = "missing"                     -> MissingCool
      [] kind \in {"transient", "unknown"}    -> TransientCool
      [] OTHER                                -> 0

QuotaState(auth, state, retryAfter, t) ==
    LET level == state.quota.backoffLevel
    IN  IF auth.coolingDisabled
        THEN [exceeded |-> TRUE, nextRecoverAt |-> ZeroTime, backoffLevel |-> level]
        ELSE IF retryAfter # NoRetryAfter
        THEN [exceeded |-> TRUE, nextRecoverAt |-> t + retryAfter, backoffLevel |-> level]
        ELSE [exceeded |-> TRUE, nextRecoverAt |-> t + QuotaCooldown(level),
              backoffLevel |-> NextBackoffLevel(level)]

(* The state of a model after a failure. *)
FailedState(auth, state, kind, retryAfter, t) ==
    LET failed == [state EXCEPT !.unavailable = TRUE, !.status = "error", !.lastError = kind]
        quota  == QuotaState(auth, state, retryAfter, t)
    IN  IF kind = "quota"
        THEN [failed EXCEPT !.quota = quota, !.nextRetryAfter = quota.nextRecoverAt]
        ELSE IF kind = "unsupported"
        THEN [failed EXCEPT !.nextRetryAfter = t + MissingCool]
        ELSE IF auth.coolingDisabled \/ CooldownOf(kind) = 0
        THEN [failed EXCEPT !.nextRetryAfter = ZeroTime]
        ELSE [failed EXCEPT !.nextRetryAfter = t + CooldownOf(kind)]

(* MarkResult of a failure under model m.  A 404 for an item of the        *)
(* request says nothing of the credential.                                 *)
RecordFailure(auth, m, kind, retryAfter, t) ==
    IF kind = "requestMissing" THEN auth
    ELSE UpdateAggregatedAvailability(
             [WithState(auth, m, FailedState(auth, StateOf(auth, m), kind, retryAfter, t))
                EXCEPT !.lastError = kind, !.status = "error"], t)

(* Mutant: an unexplained 500 is taken for a transient one. *)
IsRequestInvalid_KnownOnly(kind) == kind \in {"invalid", "requestMissing"}

(* isRequestInvalidError: no other credential or model will help. *)
IsRequestInvalid(kind) == kind \in {"invalid", "requestMissing", "unknown"}
=============================================================================
