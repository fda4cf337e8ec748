-------------------------- MODULE RequestExecution --------------------------
(***************************************************************************)
(* Requests on their way through Manager.Execute, ExecuteCount and         *)
(* ExecuteStream (sdk/cliproxy/auth/conductor.go): rounds of picking a     *)
(* credential, calling its upstream models in turn and recording each      *)
(* result, and between rounds the decision to wait for a cooldown.         *)
(*                                                                         *)
(* Requests run concurrently and meet in the credentials' records.  A call *)
(* upstream is two moments, so any other request may record a result while *)
(* it lasts, and so is the preparation of a credential, which stores the   *)
(* copy it began with; MarkResult and a pick are one step each.  Every     *)
(* time is relative to now: a tick brings all of them one unit closer, 0   *)
(* is a moment that has passed.                                            *)
(***************************************************************************)
EXTENDS AuthResult, Sequences

CONSTANTS Auth, Request,
          Route,               \* the model each request asks for
          Streams,             \* the requests made through ExecuteStream
          Pool,                \* Pool[a][m]: the upstream models a serves m with
          Priority,
          Preparing,           \* credentials whose executor is a RequestAuthPreparer
          CoolingDisabled,     \* credentials with quotaCooldownDisabledForAuth
          Retries,             \* effective request-retry of each credential
          MaxRetryCredentials, \* 0 is no limit
          MaxWait,
          Kinds, RetryAfters   \* what upstreams answer

ASSUME SomeAuths == IsFiniteSet(Auth) /\ Auth # {}
ASSUME RequestsTyped ==
    /\ Route \in [Request -> Model]
    /\ Streams \subseteq Request
    /\ Pool \in [Auth -> [Model -> Seq(Model)]]
    /\ Priority \in [Auth -> Int]
    /\ Preparing \subseteq Auth /\ CoolingDisabled \subseteq Auth
ASSUME RetryConfig ==
    /\ Retries \in [Auth -> Nat]
    /\ MaxRetryCredentials \in Nat /\ MaxWait \in Nat
ASSUME AnswersTyped ==
    /\ Kinds \subseteq Failure
    /\ RetryAfters \subseteq Nat \cup {NoRetryAfter}

VARIABLES auths,   \* the manager's records
          offsets, \* modelPoolOffsets, by credential and model, modulo the pool's size
          req,
          prepared, \* credentials ShouldPrepareRequestAuth is false of
          copies,  \* the copy each preparation works on
          stale    \* kept for the properties: see Prepared

preparations == <<prepared, copies, stale>>
vars == <<auths, offsets, req, preparations>>

(* The errors a request may hold: an upstream's, or a pick's.  NoError is  *)
(* a nil lastErr.                                                          *)
NoError == [kind |-> "nil", retryAfter |-> NoRetryAfter]
PickErrors == {"authNotFound", "authUnavailable", "modelCooldown"}
Err(kind, retryAfter) == [kind |-> kind, retryAfter |-> retryAfter]

(* A request as Execute starts it.  The picks of the round, what it waited *)
(* in all and whether an upstream blamed it are kept for the properties.   *)
SomeAuth == CHOOSE a \in Auth : TRUE
Started == [pc |-> "pick", attempt |-> 0, tried |-> {}, attempted |-> {},
            auth |-> SomeAuth, models |-> <<>>, lastErr |-> NoError, wait |-> 0,
            picks |-> 0, waited |-> 0, faulted |-> FALSE]

(* executeMixedOnce returns an error; its locals are gone. *)
RoundFails(q, err) ==
    [q EXCEPT !.pc = "decide", !.tried = {}, !.attempted = {}, !.auth = SomeAuth,
              !.models = <<>>, !.picks = 0, !.lastErr = err]
Finished(outcome) == [Started EXCEPT !.pc = outcome]
Done == {"served", "error", "cancelled"}

RequestRecord ==
    [pc: {"pick", "prepare", "preparing", "unprepared", "call", "decide", "wait", "relay"} \cup Done,
     attempt: Nat, tried: SUBSET Auth, attempted: SUBSET Auth, auth: Auth, models: Seq(Model),
     lastErr: [kind: Failure \cup PickErrors \cup {"nil"}, retryAfter: TimeValue],
     wait: Nat, picks: Nat, waited: Nat, faulted: BOOLEAN]

(* The copy a preparation took of the credential, and, for the properties, *)
(* the models a result was recorded for since.                             *)
NoCopy == [auth |-> FreshAuth, since |-> {}]

Init ==
    /\ auths = [a \in Auth |-> [FreshAuth EXCEPT !.coolingDisabled = a \in CoolingDisabled]]
    /\ offsets = [a \in Auth |-> [m \in Model |-> 0]]
    /\ req = [r \in Request |-> Started]
    /\ prepared = {} /\ stale = {}
    /\ copies = [r \in Request |-> NoCopy]
-----------------------------------------------------------------------------
(* selectionModelForAuth: an OAuth alias changes the model a credential is *)
(* selected by; a pool of several upstream models does not.                *)
SelectionModel(a, m) == IF Len(Pool[a][m]) = 1 THEN Pool[a][m][1] ELSE m

(* stateModelForExecution: the model a result is recorded under.           *)
StateModel(a, m, upstream) == IF Len(Pool[a][m]) > 1 THEN upstream ELSE SelectionModel(a, m)

(* pickNextMixed and pickNextMixedLegacy.                                  *)
Candidates(r) == {a \in Auth \ req[r].tried : ~auths[a].disabled /\ Pool[a][Route[r]] # <<>>}
Blocked(a, m) == BlockedForModel(auths[a], SelectionModel(a, m), 0)
Available(r) == {a \in Candidates(r) : ~Blocked(a, Route[r])}
Best(S) == {a \in S : \A b \in S : Priority[b] <= Priority[a]}

(* routeAwareSelectionRequired of some untried credential: the scheduler's *)
(* fast path is not used.                                                  *)
UsesLegacyPick(r) ==
    \E a \in Candidates(r) : SelectionModel(a, Route[r]) # Route[r]

(* The built-in selectors are asked without a model, so on the legacy path *)
(* they look at the credential as a whole.                                 *)
Pickable(r) ==
    IF UsesLegacyPick(r)
    THEN Best({a \in Best(Available(r)) : ~BlockedAsWhole(auths[a], 0)})
    ELSE Best(Available(r))

(* The error of a pick that fails, by the credentials it turned down. *)
Cooling(a, m) == LET s == SelectionModel(a, m) IN ModelBlocked(auths[a], s, 0) /\ auths[a].states[s].quota.exceeded
PickError(r) ==
    LET inCooldown ==
            IF Available(r) = {} THEN \A a \in Candidates(r) : Cooling(a, Route[r])
            ELSE \A a \in Best(Available(r)) : auths[a].quota.exceeded
    IN  IF Candidates(r) = {} THEN Err("authNotFound", NoRetryAfter)
        ELSE IF inCooldown THEN Err("modelCooldown", NoRetryAfter)
        ELSE Err("authUnavailable", NoRetryAfter)

(* nextModelPoolOffset and rotateStrings, then filterExecutionModels.      *)
Rotated(pool, offset) ==
    [i \in 1 .. Len(pool) |-> pool[((i - 1 + offset) % Len(pool)) + 1]]
ExecutionModels(a, m) ==
    LET pool == Rotated(Pool[a][m], offsets[a][m])
        kept[i \in 0 .. Len(pool)] ==
            IF i = 0 THEN <<>>
            ELSE IF BlockedForModel(auths[a], StateModel(a, m, pool[i]), 0) THEN kept[i - 1]
            ELSE Append(kept[i - 1], pool[i])
    IN  kept[Len(pool)]
-----------------------------------------------------------------------------
LimitReached(r) ==
    /\ MaxRetryCredentials > 0
    /\ Cardinality(req[r].attempted) >= MaxRetryCredentials

(* The round ends with the last upstream error, or with the pick's.        *)
EndRound(r) ==
    /\ req[r].pc = "pick"
    /\ LimitReached(r) \/ Pickable(r) = {}
    /\ LET own == IF LimitReached(r) THEN Err("authNotFound", NoRetryAfter) ELSE PickError(r)
           err == IF req[r].lastErr # NoError THEN req[r].lastErr ELSE own
       IN  req' = [req EXCEPT ![r] = RoundFails(@, err)]
    /\ UNCHANGED <<auths, offsets, preparations>>

(* Counted up to the first that is one too many. *)
AnotherPick(n) == Min({n + 1, Cardinality(Auth) + 1})

Tried(q, a) == [q EXCEPT !.picks = AnotherPick(q.picks), !.tried = q.tried \cup {a}]
Attempted(q, a, models) ==
    [q EXCEPT !.pc = IF a \in Preparing \ prepared THEN "prepare" ELSE "call", !.auth = a,
              !.models = models, !.attempted = q.attempted \cup {a}]

(* Mutant: a credential left without models is not remembered as tried. *)
Pick_TriedWhenAttempted(r) ==
    /\ req[r].pc = "pick"
    /\ ~LimitReached(r)
    /\ \E a \in Pickable(r) :
         LET m == Route[r]
             models == ExecutionModels(a, m)
         IN  /\ offsets' = [offsets EXCEPT ![a][m] = (@ + 1) % Len(Pool[a][m])]
             /\ IF models = <<>>
                THEN req' = [req EXCEPT ![r].picks = AnotherPick(@)]
                ELSE req' = [req EXCEPT ![r] = Attempted(Tried(@, a), a, models)]
    /\ UNCHANGED <<auths, preparations>>

(* A credential is picked; with no upstream model left it is passed over.  *)
Pick(r) ==
    /\ req[r].pc = "pick"
    /\ ~LimitReached(r)
    /\ \E a \in Pickable(r) :
         LET m == Route[r]
             models == ExecutionModels(a, m)
         IN  /\ offsets' = [offsets EXCEPT ![a][m] = (@ + 1) % Len(Pool[a][m])]
             /\ IF models = <<>>
                THEN req' = [req EXCEPT ![r] = Tried(@, a)]
                ELSE req' = [req EXCEPT ![r] = Attempted(Tried(@, a), a, models)]
    /\ UNCHANGED <<auths, preparations>>

(* A credential that shows no failure though one of its models has one. *)
ShownClean(auth) ==
    auth.status = "active" /\ \E m \in DOMAIN auth.states : auth.states[m] # CleanState

(* MarkResult stores a credential with a result for model m.               *)
MarkResult(r, m, new) ==
    LET a == req[r].auth
    IN  /\ auths' = [auths EXCEPT ![a] = new]
        /\ copies' = [x \in Request |->
                         IF req[x].pc = "preparing" /\ req[x].auth = a
                         THEN [copies[x] EXCEPT !.since = @ \cup {m}] ELSE copies[x]]
        /\ stale' = IF ShownClean(new) THEN stale ELSE stale \ {a}
        /\ UNCHANGED prepared

(* prepareRequestAuth takes the lock of the credential and looks again     *)
(* whether it must be prepared; if so it works on a copy.                  *)
Prepare(r) ==
    LET a == req[r].auth
    IN  /\ req[r].pc = "prepare"
        /\ \A x \in Request : ~(req[x].pc = "preparing" /\ req[x].auth = a)
        /\ IF a \in prepared
           THEN /\ req' = [req EXCEPT ![r].pc = "call"]
                /\ UNCHANGED preparations
           ELSE /\ req' = [req EXCEPT ![r].pc = "preparing"]
                /\ copies' = [copies EXCEPT ![r] = [auth |-> auths[a], since |-> {}]]
                /\ UNCHANGED <<prepared, stale>>
        /\ UNCHANGED <<auths, offsets>>

(* Update puts the copy in the place of the record, with the record's own  *)
(* model states when the copy has none.                                    *)
Updated(existing, copy) ==
    IF DOMAIN copy.states = {} THEN [copy EXCEPT !.states = existing.states] ELSE copy

(* PrepareRequestAuth is through.  The copy's model states take the place  *)
(* of what was recorded meanwhile; or the record's are kept under the      *)
(* aggregate of a copy without any, which stale remembers.                 *)
Prepared(r) ==
    LET a == req[r].auth
        new == Updated(auths[a], copies[r].auth)
    IN  /\ req[r].pc = "preparing"
        /\ auths' = [auths EXCEPT ![a] = new]
        /\ prepared' = prepared \cup {a}
        /\ copies' = [copies EXCEPT ![r] = NoCopy]
        /\ stale' = IF ShownClean(new) THEN stale \cup {a} ELSE stale
        /\ req' = [req EXCEPT ![r].pc = "call"]
        /\ UNCHANGED offsets

(* It fails, and the lock is released first.  Then the failure counts      *)
(* against the requested model, and is not asked whether another           *)
(* credential could help.                                                  *)
PrepareFails(r, kind, retryAfter) ==
    /\ req[r].pc = "preparing"
    /\ req' = [req EXCEPT ![r].pc = "unprepared", ![r].lastErr = Err(kind, retryAfter)]
    /\ copies' = [copies EXCEPT ![r] = NoCopy]
    /\ UNCHANGED <<auths, offsets, prepared, stale>>
MarkUnprepared(r) ==
    /\ req[r].pc = "unprepared"
    /\ MarkResult(r, Route[r],
                  RecordFailure(auths[req[r].auth], Route[r], req[r].lastErr.kind, NoRetryAfter, 0))
    /\ req' = [req EXCEPT ![r].pc = "pick", ![r].models = <<>>]
    /\ UNCHANGED offsets
-----------------------------------------------------------------------------
CurrentModel(r) == StateModel(req[r].auth, Route[r], Head(req[r].models))

(* The failures no other credential or model can help, as the comment on   *)
(* isRequestInvalidError lists them.                                       *)
RequestFaults == {"invalid", "requestMissing", "unknown"}

(* After a failed call: the request's own fault ends the round, another    *)
(* upstream model is tried, or another credential.                         *)
AfterFailure(q, kind, err) ==
    LET blamed == [q EXCEPT !.faulted = @ \/ kind \in RequestFaults]
    IN  IF IsRequestInvalid(kind) THEN RoundFails(blamed, err)
        ELSE IF Len(q.models) > 1 THEN [blamed EXCEPT !.models = Tail(@)]
        ELSE [blamed EXCEPT !.pc = "pick", !.lastErr = err, !.models = <<>>]

MarkFailure(r, kind, retryAfter) ==
    MarkResult(r, CurrentModel(r), RecordFailure(auths[req[r].auth], CurrentModel(r), kind, retryAfter, 0))
MarkSuccess(r) ==
    MarkResult(r, CurrentModel(r), RecordSuccess(auths[req[r].auth], CurrentModel(r), 0))

CallSucceeds(r) ==
    /\ req[r].pc = "call" /\ r \notin Streams
    /\ MarkSuccess(r)
    /\ req' = [req EXCEPT ![r] = Finished("served")]
    /\ UNCHANGED offsets

CallFails(r, kind, retryAfter) ==
    /\ req[r].pc = "call"
    /\ MarkFailure(r, kind, retryAfter)
    /\ req' = [req EXCEPT ![r] = AfterFailure(@, kind, Err(kind, retryAfter))]
    /\ UNCHANGED offsets

(* readStreamBootstrap meets an error before the first payload.  From the  *)
(* last model it is wrapped in a streamBootstrapError, which has no        *)
(* RetryAfter.                                                             *)
StreamBreaks(r, kind, retryAfter) ==
    LET wrapped == ~IsRequestInvalid(kind) /\ Len(req[r].models) = 1
        err == Err(kind, IF wrapped THEN NoRetryAfter ELSE retryAfter)
    IN  /\ req[r].pc = "call" /\ r \in Streams
        /\ MarkFailure(r, kind, retryAfter)
        /\ req' = [req EXCEPT ![r] = AfterFailure(@, kind, err)]
        /\ UNCHANGED offsets

(* The stream closes before its first payload. *)
StreamIsEmpty(r) ==
    /\ req[r].pc = "call" /\ r \in Streams
    /\ MarkFailure(r, "other", NoRetryAfter)
    /\ req' = [req EXCEPT ![r] = AfterFailure(@, "other", Err("other", NoRetryAfter))]
    /\ UNCHANGED offsets

(* The first payload is there; wrapStreamResult's goroutine relays the     *)
(* rest and records one result, or none when the client goes away.         *)
StreamOpens(r) ==
    /\ req[r].pc = "call" /\ r \in Streams
    /\ req' = [req EXCEPT ![r].pc = "relay"]
    /\ UNCHANGED <<auths, offsets, preparations>>
RelayEnds(r) ==
    /\ req[r].pc = "relay"
    /\ MarkSuccess(r)
    /\ req' = [req EXCEPT ![r] = Finished("served")]
    /\ UNCHANGED offsets
RelayBreaks(r, kind) ==
    /\ req[r].pc = "relay"
    /\ MarkFailure(r, kind, NoRetryAfter)
    /\ req' = [req EXCEPT ![r] = Finished("served")]
    /\ UNCHANGED offsets

(* The client's context is done: nothing is recorded for the call under    *)
(* way, and a wait is cut short.                                           *)
Cancelled(r) ==
    /\ req[r].pc \in {"call", "relay", "wait"}
    /\ req' = [req EXCEPT ![r] = Finished("cancelled")]
    /\ UNCHANGED <<auths, offsets, preparations>>

(* A stream's context may also be found done after the failed call was     *)
(* recorded.                                                               *)
CancelledAfterFailure(r, kind, retryAfter) ==
    /\ req[r].pc = "call" /\ r \in Streams
    /\ IsRequestInvalid(kind) \/ Len(req[r].models) = 1
    /\ MarkFailure(r, kind, retryAfter)
    /\ req' = [req EXCEPT ![r] = Finished("cancelled")]
    /\ UNCHANGED offsets
-----------------------------------------------------------------------------
(* closestCooldownWait, over the credentials that have retries left.  A    *)
(* credential need not serve the model to be waited for.                   *)
CooldownWaits(r) ==
    LET m == Route[r]
        retriable == {a \in Auth : /\ req[r].attempt < Retries[a]
                                   /\ ~AuthDisabled(auths[a])
                                   /\ ModelBlocked(auths[a], SelectionModel(a, m), 0)}
    IN  {BlockedUntil(auths[a].states[SelectionModel(a, m)], 0) : a \in retriable}

RetryAllowed(r) == \E a \in Auth : req[r].attempt < Retries[a]

(* Mutant: an error without a Retry-After is waited for all the same. *)
RetryWaits_NilIsZero(r) ==
    LET err == req[r].lastErr
        cooldowns == CooldownWaits(r)
    IN  IF MaxWait = 0 \/ IsRequestInvalid(err.kind) THEN {}
        ELSE IF cooldowns # {} THEN {Min(cooldowns)} \cap 1 .. MaxWait
        ELSE IF err.kind \in {"quota", "modelCooldown"} /\ RetryAllowed(r) /\ err.retryAfter <= MaxWait
        THEN {err.retryAfter}
        ELSE {}

(* shouldRetryAfterError: the wait before another round, if there is one.  *)
RetryWaits(r) ==
    LET err == req[r].lastErr
        cooldowns == CooldownWaits(r)
    IN  IF MaxWait = 0 \/ IsRequestInvalid(err.kind) THEN {}
        ELSE IF cooldowns # {} THEN {Min(cooldowns)} \cap 1 .. MaxWait
        ELSE IF err.kind \in {"quota", "modelCooldown"} /\ RetryAllowed(r)
        THEN {err.retryAfter} \cap 1 .. MaxWait
        ELSE {}

GiveUp(r) ==
    /\ req[r].pc = "decide"
    /\ RetryWaits(r) = {}
    /\ req' = [req EXCEPT ![r] = Finished("error")]
    /\ UNCHANGED <<auths, offsets, preparations>>

(* The longest a request may wait in all; what it waited is counted up to  *)
(* the first amount past it.                                               *)
WaitBound == Max({Retries[a] : a \in Auth}) * MaxWait

Waiting(q, w) == [q EXCEPT !.pc = "wait", !.wait = w, !.waited = Min({@ + w, WaitBound + 1})]

StartWait(r) ==
    /\ req[r].pc = "decide"
    /\ \E w \in RetryWaits(r) : req' = [req EXCEPT ![r] = Waiting(@, w)]
    /\ UNCHANGED <<auths, offsets, preparations>>

(* Mutant: the rounds are not counted. *)
NextRound_Uncounted(q) ==
    [q EXCEPT !.pc = "pick", !.lastErr = NoError]

NextRound(q) ==
    [q EXCEPT !.pc = "pick", !.attempt = @ + 1, !.lastErr = NoError]

WaitOver(r) ==
    /\ req[r].pc = "wait" /\ req[r].wait = 0
    /\ req' = [req EXCEPT ![r] = NextRound(@)]
    /\ UNCHANGED <<auths, offsets, preparations>>
-----------------------------------------------------------------------------
Closer(t) == IF t > 0 THEN t - 1 ELSE t
CloserQuota(q) == [q EXCEPT !.nextRecoverAt = Closer(@)]
CloserState(s) == [s EXCEPT !.nextRetryAfter = Closer(@), !.quota = CloserQuota(@)]
CloserAuth(auth) ==
    [auth EXCEPT !.nextRetryAfter = Closer(@), !.quota = CloserQuota(@),
                 !.states = [m \in DOMAIN @ |-> CloserState(@[m])]]

(* A unit of time passes. *)
Tick ==
    /\ auths' = [a \in Auth |-> CloserAuth(auths[a])]
    /\ req' = [r \in Request |-> [req[r] EXCEPT !.wait = Closer(@)]]
    /\ copies' = [r \in Request |-> [copies[r] EXCEPT !.auth = CloserAuth(@)]]
    /\ UNCHANGED <<offsets, prepared, stale>>

(* Every way a request may move on: the manager's own steps, and the       *)
(* answers of upstreams and clients.                                       *)
Answer(r) ==
    \/ CallSucceeds(r) \/ StreamIsEmpty(r) \/ StreamOpens(r) \/ RelayEnds(r) \/ Prepared(r)
    \/ \E kind \in Kinds :
         \/ RelayBreaks(r, kind)
         \/ \E retryAfter \in RetryAfters :
              \/ CallFails(r, kind, retryAfter) \/ StreamBreaks(r, kind, retryAfter)
              \/ PrepareFails(r, kind, retryAfter) \/ CancelledAfterFailure(r, kind, retryAfter)
Advance(r) ==
    \/ EndRound(r) \/ Pick(r) \/ Prepare(r) \/ MarkUnprepared(r)
    \/ GiveUp(r) \/ StartWait(r) \/ WaitOver(r) \/ Answer(r)

Next == Tick \/ \E r \in Request : Advance(r) \/ Cancelled(r)

Spec == Init /\ [][Next]_vars

(* A request's goroutine runs on, an upstream call ends in some way, and   *)
(* time passes.  No client is obliged to give up.                          *)
Fairness == WF_vars(Tick) /\ \A r \in Request : WF_vars(Advance(r))
FairSpec == Spec /\ Fairness
-----------------------------------------------------------------------------
(* Every variable has its type. *)
TypeOK ==
    /\ DOMAIN auths = Auth /\ \A a \in Auth : AuthTyped(auths[a])
    /\ offsets \in [Auth -> [Model -> Nat]]
    /\ req \in [Request -> RequestRecord]
    /\ prepared \subseteq Preparing /\ stale \subseteq prepared
    /\ DOMAIN copies = Request
    /\ \A r \in Request : AuthTyped(copies[r].auth) /\ copies[r].since \subseteq Model

(* A credential counts as unavailable as a whole exactly while every model *)
(* it has a state for is, though the aggregate is computed only when a     *)
(* result is recorded and time passes in between; and it counts as over    *)
(* quota exactly when one of its models does.  Whatever order the results  *)
(* of several requests and models arrive in, it is shown as active only    *)
(* when neither it nor a model of it is left with a failure.  A credential *)
(* whose preparation was overtaken by its first results may look better    *)
(* than its models, until a failure or the end of theirs; never worse.     *)
AggregateAgrees ==
    \A a \in Auth :
        LET auth == auths[a]
            models == DOMAIN auth.states
            allBlocked == models # {} /\ \A m \in models : ModelBlocked(auth, m, 0)
            someExceeded == \E m \in models : auth.states[m].quota.exceeded
        IN  /\ BlockedAsWhole(auth, 0) => allBlocked
            /\ auth.quota.exceeded => someExceeded
            /\ auth.status = "active" => auth.lastError = "none"
            /\ a \notin stale =>
                 /\ allBlocked => BlockedAsWhole(auth, 0)
                 /\ someExceeded => auth.quota.exceeded
                 /\ ~ShownClean(auth)

(* The results that may be recorded for model m of credential a now: those *)
(* of calls under way.                                                     *)
MayRecord(a, m) ==
    \E r \in Request :
        /\ req[r].auth = a
        /\ \/ req[r].pc \in {"call", "relay"} /\ CurrentModel(r) = m
           \/ req[r].pc = "unprepared" /\ Route[r] = m

(* A preparation under way that a result for model m has overtaken. *)
MayUndo(a, m) ==
    \E r \in Request : req[r].pc = "preparing" /\ req[r].auth = a /\ m \in copies[r].since

(* One model's results never block or unblock another: a model becomes     *)
(* blocked only by a result of its own, and is freed by one or by time.    *)
(* What a preparation stores over the record undoes no result but those    *)
(* that were recorded while it was under way.                              *)
OnlyItsResultsBlockAModel ==
    [][\A a \in Auth, m \in Model :
          /\ ~ModelBlocked(auths[a], m, 0) /\ ModelBlocked(auths'[a], m, 0) =>
                MayRecord(a, m) \/ MayUndo(a, m)
          /\ ModelBlocked(auths[a], m, 0) /\ ~ModelBlocked(auths'[a], m, 0) =>
                \/ MayRecord(a, m) \/ MayUndo(a, m)
                \/ auths[a].states[m].nextRetryAfter = 1]_vars

(* Once an upstream blames the request, no credential is spent on it any   *)
(* more: not the next model of the pool, nor another round.                *)
FaultIsFinal == [][\A r \in Request : req[r].faulted => req'[r].pc \in {"decide", "error"}]_vars

(* Whatever cooldowns a request meets and makes, its work is bounded:       *)
(* picking never goes in circles (however many credentials are passed over  *)
(* because their upstream models cool down, a round picks each at most      *)
(* once), it never waits more than max-retry-interval for each retry it is  *)
(* allowed, and quotas met again and again never raise the backoff past the *)
(* level whose cooldown reaches the ceiling.                                *)
WorkIsBounded ==
    /\ \A r \in Request : req[r].picks <= Cardinality(Auth) /\ req[r].waited <= WaitBound
    /\ \A a \in Auth : \A m \in DOMAIN auths[a].states :
          LET level == auths[a].states[m].quota.backoffLevel
          IN  level > 0 => QuotaBackoffBase * 2^(level - 1) < QuotaBackoffMax

(* Every request ends: it runs out of credentials and models in each       *)
(* round, and out of rounds.                                               *)
RequestEnds == \A r \in Request : <>(req[r].pc \in Done)

=============================================================================
