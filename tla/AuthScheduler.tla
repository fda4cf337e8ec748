---------------------------- MODULE AuthScheduler ----------------------------
(***************************************************************************)
(* The scheduler that picks a credential for a request                     *)
(* (sdk/cliproxy/auth/scheduler.go).  It keeps, per provider, the          *)
(* credentials it was last told of and, per model, a shard built on first  *)
(* use: one entry per credential that serves the model, the ready entries  *)
(* indexed by priority in rotating views, and the blocked ones.            *)
(*                                                                         *)
(* Every operation holds the scheduler's mutex throughout, so each is one  *)
(* action.  An operation reads the clock once here; the code may read it   *)
(* again a moment later in the same operation.                             *)
(***************************************************************************)
EXTENDS ReadyView, Sequences

CONSTANTS Provider,
          Model,
          AnyModel,      \* the empty model key, which every credential serves
          Priority,
          Snapshots,     \* the credential snapshots the manager may pass
          MixedRequests, \* the provider lists of mixed requests, normalised
          Codex,         \* the provider whose websocket transport is preferred
          Strategies,    \* the strategies the selector may be set to
          MaxTime,       \* bound on the clock
          NoAuth, NoProvider, NoSnapshot, NoShard

Time == 0 .. MaxTime   \* 0 is Go's zero time

(* What a snapshot of an Auth says of one model (ModelState), or, under    *)
(* AnyModel, of the credential as a whole.                                 *)
ModelState == [disabled: BOOLEAN, unavailable: BOOLEAN, exceeded: BOOLEAN,
               nextRetryAfter: Time, nextRecoverAt: Time]

Snapshot == [provider: Provider, priority: Priority, parent: Parent \cup {NoParent},
             websocket: BOOLEAN, models: SUBSET Model, disabled: BOOLEAN,
             statusDisabled: BOOLEAN, states: [Model -> ModelState]]

ASSUME SnapshotsTyped == Snapshots \subseteq Snapshot
ASSUME MixedRequestsTyped ==
    \A ps \in MixedRequests :
        /\ ps \in Seq(Provider)
        /\ Len(ps) > 1
        /\ \A i, j \in 1 .. Len(ps) : ps[i] = ps[j] => i = j
ASSUME PriorityIsInt == Priority \subseteq Int
ASSUME MaxTimeIsNat == MaxTime \in Nat /\ MaxTime > 0
ASSUME StrategiesKnown == Strategies \subseteq {"round-robin", "fill-first"}

VARIABLES now,
          auths,         \* auths[p][a]: the snapshot of a that provider p holds
          providers,     \* the providers that have a providerScheduler
          authProviders, \* the provider a is scheduled under
          shards,        \* shards[p][m], NoShard until the first request
          strategy,
          mixedCursors,  \* the rotation of each mixed request
          answer         \* what the last step returned to a request

vars == <<now, auths, providers, authProviders, strategy, shards, mixedCursors, answer>>

Indexed == {"ready", "cooldown", "blocked", "disabled"}
Entry == [state: Indexed \cup {"absent"}, nextRetryAt: Time]
Absent == [state |-> "absent", nextRetryAt |-> 0]

(* views[pr].all and views[pr].ws are the two views of readyByPriority[pr],*)
(* empty when the bucket does not exist.                                   *)
Shard == [entries: [Auth -> Entry],
          views: [Priority -> [all: View, ws: View]],
          blocked: SUBSET Auth]

NoAnswer == [kind |-> "none"]

ASSUME NullsFresh == /\ NoAuth \notin Auth
                     /\ NoProvider \notin Provider
                     /\ NoSnapshot \notin Snapshot
                     /\ NoShard \notin Shard
-----------------------------------------------------------------------------
(* scheduledAuthMeta.supportsModel *)
Supports(s, m) == m = AnyModel \/ m \in s.models

(* isAuthBlockedForModel at time t, as the state it gives an entry. *)
BlockState(s, m, t) ==
    LET st == s.states[m]
    IN  IF s.disabled \/ s.statusDisabled \/ (m # AnyModel /\ st.disabled) THEN "disabled"
        ELSE IF st.unavailable /\ st.nextRetryAfter > t
             THEN IF st.exceeded THEN "cooldown" ELSE "blocked"
             ELSE "ready"

(* The time isAuthBlockedForModel returns with it. *)
BlockNext(s, m, t) ==
    LET st == s.states[m]
    IN  IF BlockState(s, m, t) \notin {"cooldown", "blocked"} THEN 0
        ELSE IF st.nextRecoverAt > t THEN st.nextRecoverAt
        ELSE st.nextRetryAfter

(* Mutant: a failure that is not a quota gets no retry time. *)
Evaluate_NoTimeForFailures(s, m, t) ==
    [state |-> BlockState(s, m, t),
     nextRetryAt |-> IF BlockState(s, m, t) = "cooldown" THEN BlockNext(s, m, t) ELSE 0]

(* What upsertEntryLocked and promoteExpiredLocked make of a snapshot. *)
Evaluate(s, m, t) == [state |-> BlockState(s, m, t), nextRetryAt |-> BlockNext(s, m, t)]

-----------------------------------------------------------------------------
ReadyAt(held, entries, pr) ==
    {a \in Auth : entries[a].state = "ready" /\ held[a].priority = pr}

(* rebuildIndexesLocked, held being the snapshots the entries point to. *)
Rebuild(held, entries, old) ==
    [entries |-> entries,
     blocked |-> {a \in Auth : entries[a].state \in {"cooldown", "blocked"}},
     views |->
       [pr \in Priority |->
          LET ready  == ReadyAt(held, entries, pr)
              parent == [a \in ready |-> held[a].parent]
          IN  [all |-> BuildReadyView(ready, parent, old[pr].all),
               ws  |-> BuildReadyView({a \in ready : held[a].websocket}, parent, old[pr].ws)]]]

NoViews == [pr \in Priority |-> [all |-> EmptyView, ws |-> EmptyView]]

(* Mutant: a change of priority alone does not rebuild the indexes. *)
UpsertEntry_IgnoresPriority(held, shard, a, prev, s, m) ==
    LET entries == [shard.entries EXCEPT ![a] = Evaluate(s, m, now)]
    IN  IF /\ shard.entries[a] = entries[a]
           /\ <<prev.parent, prev.websocket>> = <<s.parent, s.websocket>>
        THEN [shard EXCEPT !.entries = entries]
        ELSE Rebuild(held, entries, shard.views)

(* upsertEntryLocked: a's entry in the shard of m gets snapshot s where it *)
(* had prev; the indexes are rebuilt unless all they are made of is the    *)
(* same.                                                                   *)
UpsertEntry(held, shard, a, prev, s, m) ==
    LET entries == [shard.entries EXCEPT ![a] = Evaluate(s, m, now)]
    IN  IF /\ shard.entries[a] = entries[a]
           /\ <<prev.priority, prev.parent, prev.websocket>> =
              <<s.priority, s.parent, s.websocket>>
        THEN [shard EXCEPT !.entries = entries]
        ELSE Rebuild(held, entries, shard.views)

(* removeEntryLocked *)
RemoveEntry(held, shard, a) ==
    IF shard.entries[a] = Absent THEN shard
    ELSE Rebuild(held, [shard.entries EXCEPT ![a] = Absent], shard.views)

(* Mutant: an entry is promoted only after its retry time, not at it. *)
Due_Strict(shard) == {a \in shard.blocked : /\ shard.entries[a].nextRetryAt # 0
                                            /\ shard.entries[a].nextRetryAt < now}

(* promoteExpiredLocked: blocked entries whose time has come are evaluated *)
(* again.                                                                  *)
Due(shard) == {a \in shard.blocked : /\ shard.entries[a].nextRetryAt # 0
                                     /\ shard.entries[a].nextRetryAt <= now}

(* Mutant: a due entry becomes ready without being evaluated again. *)
PromoteExpired_Unchecked(held, shard, m) ==
    IF Due(shard) = {} THEN shard
    ELSE Rebuild(held,
                 [a \in Auth |-> IF a \in Due(shard) THEN [state |-> "ready", nextRetryAt |-> 0]
                                 ELSE shard.entries[a]],
                 shard.views)

PromoteExpired(held, shard, m) ==
    IF Due(shard) = {} THEN shard
    ELSE Rebuild(held,
                 [a \in Auth |-> IF a \in Due(shard) THEN Evaluate(held[a], m, now)
                                 ELSE shard.entries[a]],
                 shard.views)

(* ensureModelLocked: the shard of m, built from the provider's snapshots  *)
(* the first time.                                                         *)
BuildShard(held, m) ==
    Rebuild(held,
            [a \in Auth |-> IF held[a] # NoSnapshot /\ Supports(held[a], m)
                            THEN Evaluate(held[a], m, now)
                            ELSE Absent],
            NoViews)

EnsureModel(p, m) == IF shards[p][m] = NoShard THEN BuildShard(auths[p], m)
                     ELSE PromoteExpired(auths[p], shards[p][m], m)

-----------------------------------------------------------------------------
NoAuths == [p \in Provider |-> [a \in Auth |-> NoSnapshot]]
NoShards == [p \in Provider |-> [m \in Model |-> NoShard]]
NoCursors == [r \in MixedRequests \X Model |-> 0]

Init == /\ now = 1
        /\ auths = NoAuths
        /\ providers = {}
        /\ authProviders = [a \in Auth |-> NoProvider]
        /\ strategy \in Strategies
        /\ shards = NoShards
        /\ mixedCursors = NoCursors
        /\ answer = NoAnswer

(* Mutant: the former provider keeps the snapshot. *)
AuthsWithout_Kept(a) == auths

(* removeAuthLocked: a leaves the provider it is scheduled under and every *)
(* shard of it.                                                            *)
AuthsWithout(a) ==
    [p \in Provider |-> IF p = authProviders[a] THEN [auths[p] EXCEPT ![a] = NoSnapshot]
                        ELSE auths[p]]
ShardsWithout(a) ==
    [p \in Provider |-> [m \in Model |->
        IF p = authProviders[a] /\ shards[p][m] # NoShard
        THEN RemoveEntry(AuthsWithout(a)[p], shards[p][m], a)
        ELSE shards[p][m]]]

RemoveAuth(a) ==
    /\ auths' = AuthsWithout(a)
    /\ shards' = ShardsWithout(a)
    /\ authProviders' = [authProviders EXCEPT ![a] = NoProvider]
    /\ answer' = NoAnswer
    /\ UNCHANGED <<now, providers, strategy, mixedCursors>>

(* upsertAuthLocked for an enabled snapshot: out of its former provider if *)
(* that changed, then into the shards of the new one.                      *)
Admit(a, s) ==
    LET moved == authProviders[a] \notin {NoProvider, s.provider}
        left  == IF moved THEN AuthsWithout(a) ELSE auths
        kept  == IF moved THEN ShardsWithout(a) ELSE shards
        held  == [left[s.provider] EXCEPT ![a] = s]
    IN  /\ auths' = [left EXCEPT ![s.provider] = held]
        /\ shards' = [kept EXCEPT ![s.provider] = [m \in Model |->
              IF kept[s.provider][m] = NoShard THEN NoShard
              ELSE IF ~Supports(s, m) THEN RemoveEntry(held, kept[s.provider][m], a)
              ELSE UpsertEntry(held, kept[s.provider][m], a, left[s.provider][a], s, m)]]
        /\ providers' = providers \cup {s.provider}
        /\ authProviders' = [authProviders EXCEPT ![a] = s.provider]
        /\ answer' = NoAnswer
        /\ UNCHANGED <<now, strategy, mixedCursors>>

(* upsertAuth *)
UpsertAuth(a, s) == IF s.disabled THEN RemoveAuth(a) ELSE Admit(a, s)

(* rebuild: everything is dropped and the manager's snapshots are admitted *)
(* again; no shard exists until the next request.                          *)
RebuildAll(snapshots) ==
    LET enabled == {a \in Auth : snapshots[a] # NoSnapshot /\ ~snapshots[a].disabled}
        under(p) == {a \in enabled : snapshots[a].provider = p}
    IN
    /\ auths' = [p \in Provider |->
                    [a \in Auth |-> IF a \in under(p) THEN snapshots[a] ELSE NoSnapshot]]
    /\ providers' = {p \in Provider : under(p) # {}}
    /\ authProviders' =
          [a \in Auth |-> IF a \in enabled THEN snapshots[a].provider ELSE NoProvider]
    /\ shards' = NoShards
    /\ mixedCursors' = NoCursors
    /\ answer' = NoAnswer
    /\ UNCHANGED <<now, strategy>>
-----------------------------------------------------------------------------
(* The predicate of a request: pinned to one credential, or any, and not   *)
(* one this request has already tried.                                     *)
Candidates(pinned, tried) == {a \in Auth \ tried : pinned \in {NoAuth, a}}

Serving(shard, candidates) == {a \in candidates : shard.entries[a] # Absent}

(* The priorities of the shard whose view of that kind has a candidate. *)
PrioritiesWith(shard, kind, candidates) ==
    {pr \in Priority : shard.views[pr][kind].flat \cap candidates # {}}

(* Mutant: websocket candidates are preferred only within the best tier. *)
HighestReadyPriority_SameTier(shard, preferWebsocket, candidates, pr) ==
    LET able == PrioritiesWith(shard, "all", candidates)
    IN  pr \in able /\ \A other \in able : other <= pr

(* highestReadyPriorityLocked: with a websocket preference, the priorities *)
(* that have a websocket candidate come first.                             *)
HighestReadyPriority(shard, preferWebsocket, candidates, pr) ==
    LET ws   == PrioritiesWith(shard, "ws", candidates)
        able == IF preferWebsocket /\ ws # {} THEN ws
                ELSE PrioritiesWith(shard, "all", candidates)
    IN  pr \in able /\ \A other \in able : other <= pr

(* The view pickReadyAtPriorityLocked picks from. *)
ViewKind(shard, preferWebsocket, pr, candidates) ==
    IF preferWebsocket /\ pr \in PrioritiesWith(shard, "ws", candidates) THEN "ws" ELSE "all"

(* pickReadyAtPriorityLocked picks a ... *)
PicksAtPriority(shard, preferWebsocket, pr, how, candidates, a) ==
    LET view == shard.views[pr][ViewKind(shard, preferWebsocket, pr, candidates)]
    IN  IF how = "fill-first" THEN PickFirst(view, candidates, a)
        ELSE PickRoundRobin(view, candidates, a)

(* ... and leaves the shard like this. *)
ShardAfterPick(shard, preferWebsocket, pr, how, candidates, a) ==
    IF how = "fill-first" THEN shard
    ELSE LET kind == ViewKind(shard, preferWebsocket, pr, candidates)
         IN  [shard EXCEPT !.views[pr][kind] = AfterPick(shard.views[pr][kind], a)]

(* unavailableErrorLocked and mixedUnavailableErrorLocked, total being the *)
(* entries that match the request.                                         *)
Unavailable(total) ==
    LET cooling  == {e \in total : e.state = "cooldown"}
        retryAts == {e.nextRetryAt : e \in cooling} \ {0}
    IN  IF total = {} THEN <<"auth_not_found", 0>>
        ELSE IF cooling = total /\ retryAts # {}
             THEN <<"model_cooldown", CHOOSE t \in retryAts : \A u \in retryAts : t <= u>>
             ELSE <<"auth_unavailable", 0>>

Matching(shard, candidates) == {shard.entries[a] : a \in Serving(shard, candidates)}

(* What the request asked for is kept with its answer. *)
Picked(asked, m, candidates, a, p, preferWebsocket) ==
    [kind |-> "picked", providers |-> asked, model |-> m, candidates |-> candidates,
     auth |-> a, provider |-> p, preferWebsocket |-> preferWebsocket]

Refused(asked, m, candidates, total) ==
    [kind |-> Unavailable(total)[1], resetAt |-> Unavailable(total)[2],
     providers |-> asked, model |-> m, candidates |-> candidates]

-----------------------------------------------------------------------------
(* One shard answers the request. *)
AnswerFrom(p, m, preferWebsocket, candidates) ==
    LET shard == EnsureModel(p, m)
        ready == PrioritiesWith(shard, "all", candidates)
    IN  /\ \/ \E pr \in ready, a \in candidates :
                /\ HighestReadyPriority(shard, preferWebsocket, candidates, pr)
                /\ PicksAtPriority(shard, preferWebsocket, pr, strategy, candidates, a)
                /\ shards' = [shards EXCEPT ![p][m] =
                     ShardAfterPick(shard, preferWebsocket, pr, strategy, candidates, a)]
                /\ answer' = Picked({p}, m, candidates, a, p, preferWebsocket)
           \/ /\ ready = {}
              /\ shards' = IF p \in providers THEN [shards EXCEPT ![p][m] = shard]
                           ELSE shards
              /\ answer' = Refused({p}, m, candidates, Matching(shard, candidates))
        /\ UNCHANGED <<now, auths, providers, authProviders, strategy, mixedCursors>>

(* pickSingle: only Codex requests that arrived over a websocket and are   *)
(* not pinned prefer websocket credentials.                                *)
PickSingle(p, m, downstreamWebsocket, pinned, tried) ==
    AnswerFrom(p, m, downstreamWebsocket /\ p = Codex /\ pinned = NoAuth,
               Candidates(pinned, tried))

Listed(list) == {list[i] : i \in DOMAIN list}

(* pickMixed of a pinned credential. *)
PickMixedPinned(list, m, pinned, tried) ==
    IF authProviders[pinned] \in Listed(list)
    THEN AnswerFrom(authProviders[pinned], m, FALSE, Candidates(pinned, tried))
    ELSE /\ answer' = Refused(Listed(list), m, Candidates(pinned, tried), {})
         /\ UNCHANGED <<now, auths, providers, authProviders, strategy, shards, mixedCursors>>

-----------------------------------------------------------------------------
(* Mutant: every provider has one slot, however many credentials it has. *)
SlotStart_Unweighted(flats, i) == Cardinality({j \in 1 .. i - 1 : flats[j] # {}})

(* The slots of a mixed request: provider i of the list has one for each   *)
(* of its credentials flats[i] ready at the priority, whether or not it    *)
(* was tried, from slot SlotStart(flats, i) on.                            *)
SlotStart(flats, i) ==
    Cardinality(UNION {{j} \X (flats[j] \cap Auth) : j \in 1 .. i - 1})

(* The shards of the providers of the list, all promoted by the request. *)
EnsuredShards(list, m) == [i \in DOMAIN list |-> EnsureModel(list[i], m)]

PutShards(list, m, ensured) ==
    shards' = [p \in Provider |-> [shards[p] EXCEPT ![m] =
                  IF p \in Listed(list) \cap providers
                  THEN ensured[CHOOSE i \in DOMAIN list : list[i] = p]
                  ELSE shards[p][m]]]

(* Provider i of the list has the turn among those able to serve at the    *)
(* priority: under fill-first the first of them, else the first from the   *)
(* one whose slots the cursor points into.                                 *)
MixedTurn(list, m, flats, able, i) ==
    LET n     == Len(list)
        slot  == mixedCursors[<<list, m>>] % SlotStart(flats, n + 1)
        start == CHOOSE j \in DOMAIN list : /\ SlotStart(flats, j) <= slot
                                            /\ slot < SlotStart(flats, j + 1)
    IN  IF strategy = "fill-first"
        THEN /\ \A j \in able : i <= j
             /\ UNCHANGED mixedCursors
        ELSE /\ \A j \in able : (i + n - start) % n <= (j + n - start) % n
             /\ mixedCursors' = [mixedCursors EXCEPT ![<<list, m>>] =
                                    1 + IF i = start THEN slot ELSE SlotStart(flats, i)]

(* The indices of the list whose shard can serve at priority pr. *)
Able(list, ensured, candidates, pr) ==
    {i \in DOMAIN list : pr \in PrioritiesWith(ensured[i], "all", candidates)}

Flats(list, ensured, pr) == [i \in DOMAIN list |-> ensured[i].views[pr].all.flat]

(* pickMixed finds the best priority of all the shards, then the provider  *)
(* that has the turn there.                                                *)
MixedAnswer(list, m, candidates, ensured) ==
    \E best \in Priority, i \in DOMAIN list, a \in candidates :
        /\ i \in Able(list, ensured, candidates, best)
        /\ \A pr \in Priority : Able(list, ensured, candidates, pr) # {} => pr <= best
        /\ PicksAtPriority(ensured[i], FALSE, best, strategy, candidates, a)
        /\ MixedTurn(list, m, Flats(list, ensured, best),
                     Able(list, ensured, candidates, best), i)
        /\ answer' = Picked(Listed(list), m, candidates, a, list[i], FALSE)
        /\ PutShards(list, m, [ensured EXCEPT ![i] =
              ShardAfterPick(@, FALSE, best, strategy, candidates, a)])

MixedRefusal(list, m, candidates, ensured) ==
    /\ \A pr \in Priority : Able(list, ensured, candidates, pr) = {}
    /\ PutShards(list, m, ensured)
    /\ answer' = Refused(Listed(list), m, candidates,
                         UNION {Matching(ensured[i], candidates) : i \in DOMAIN list})
    /\ UNCHANGED mixedCursors

PickMixed(list, m, tried) ==
    LET candidates == Candidates(NoAuth, tried)
        ensured == EnsuredShards(list, m)
    IN  /\ \/ MixedAnswer(list, m, candidates, ensured)
           \/ MixedRefusal(list, m, candidates, ensured)
        /\ UNCHANGED <<now, auths, providers, authProviders, strategy>>

(* setSelector *)
SetSelector(how) ==
    /\ strategy' = how
    /\ mixedCursors' = NoCursors
    /\ answer' = NoAnswer
    /\ UNCHANGED <<now, auths, providers, authProviders, shards>>

(* The clock. *)
Tick == /\ now < MaxTime
        /\ now' = now + 1
        /\ answer' = NoAnswer
        /\ UNCHANGED <<auths, providers, authProviders, strategy, shards, mixedCursors>>

(* All but the mixed requests that are not pinned. *)
OtherNext ==
    \/ Tick
    \/ \E how \in Strategies : SetSelector(how)
    \/ \E a \in Auth : RemoveAuth(a)
    \/ \E a \in Auth, s \in Snapshots : UpsertAuth(a, s)
    \/ \E f \in [Auth -> Snapshots \cup {NoSnapshot}] : RebuildAll(f)
    \/ \E p \in Provider, m \in Model, ws \in BOOLEAN, pinned \in Auth \cup {NoAuth},
          tried \in SUBSET Auth : PickSingle(p, m, ws, pinned, tried)
    \/ \E ps \in MixedRequests, m \in Model, pinned \in Auth, tried \in SUBSET Auth :
          PickMixedPinned(ps, m, pinned, tried)

Next == \/ OtherNext
        \/ \E ps \in MixedRequests, m \in Model, tried \in SUBSET Auth : PickMixed(ps, m, tried)

Spec == Init /\ [][Next]_vars
-----------------------------------------------------------------------------
(* Type correctness of the scheduler's state. *)
TypeOK ==
    /\ now \in Time
    /\ auths \in [Provider -> [Auth -> Snapshots \cup {NoSnapshot}]]
    /\ providers \subseteq Provider
    /\ authProviders \in [Auth -> Provider \cup {NoProvider}]
    /\ strategy \in Strategies
    /\ shards \in [Provider -> [Model -> Shard \cup {NoShard}]]
    /\ mixedCursors \in [MixedRequests \X Model -> Nat]

(* A credential is held by the provider it is scheduled under and by no    *)
(* other, with a snapshot that is of this provider and enabled: moving it  *)
(* to another provider or disabling it leaves nothing behind that a        *)
(* request could still pick.                                               *)
HeldByItsProvider ==
    \A p \in Provider, a \in Auth :
        /\ auths[p][a] # NoSnapshot <=> authProviders[a] = p
        /\ auths[p][a] # NoSnapshot =>
              auths[p][a].provider = p /\ ~auths[p][a].disabled

(* The entries of a shard are the provider's credentials that serve its    *)
(* model, and the ready views and the blocked list are what they would be  *)
(* if rebuilt now, although upserts that seem to change nothing skip the   *)
(* rebuild.                                                                *)
Indexes(held, view, ready) ==
    /\ view.flat = ready
    /\ view.parent = [a \in Auth |-> IF a \in ready THEN held[a].parent ELSE NoParent]

ShardIndexed(held, m, shard) ==
    /\ \A a \in Auth : shard.entries[a] # Absent <=>
          held[a] # NoSnapshot /\ Supports(held[a], m)
    /\ shard.blocked = {a \in Auth : shard.entries[a].state \in {"cooldown", "blocked"}}
    /\ \A pr \in Priority :
          LET ready == ReadyAt(held, shard.entries, pr)
          IN  /\ Indexes(held, shard.views[pr].all, ready)
              /\ Indexes(held, shard.views[pr].ws, {a \in ready : held[a].websocket})

IndexesAgree ==
    \A p \in Provider, m \in Model :
        shards[p][m] # NoShard => ShardIndexed(auths[p], m, shards[p][m])

(* No request is given a credential whose snapshot is still blocked: an    *)
(* entry is only ready while isAuthBlockedForModel would let it through,   *)
(* now and at any later time.                                              *)
ShardUnblocked(held, m, shard, t) ==
    \A a \in Auth : shard.entries[a].state = "ready" =>
        BlockState(held[a], m, t) = "ready"

ReadyIsUnblocked ==
    \A p \in Provider, m \in Model :
        shards[p][m] # NoShard => ShardUnblocked(auths[p], m, shards[p][m], now)

(* No entry is put aside for good: one that waits has a retry time, which  *)
(* is one of the two its snapshot names, so that the first request after   *)
(* both have passed finds it ready; and one set aside as disabled is       *)
(* disabled in its snapshot.                                               *)
ShardTimed(held, m, shard, t) ==
    \A a \in Auth :
        LET e == shard.entries[a]
            st == held[a].states[m]
        IN  /\ e.state \in {"cooldown", "blocked"} =>
                  e.nextRetryAt \in {st.nextRetryAfter, st.nextRecoverAt} \ {0}
            /\ e.state = "disabled" => BlockState(held[a], m, t) = "disabled"

NoneSetAsideForGood ==
    \A p \in Provider, m \in Model :
        shards[p][m] # NoShard => ShardTimed(auths[p], m, shards[p][m], now)

-----------------------------------------------------------------------------
(* Credential a of provider p could serve m at time t, whichever of its    *)
(* two recovery times one goes by.                                         *)
FreeAt(p, m, a, t) ==
    /\ auths[p][a] # NoSnapshot
    /\ Supports(auths[p][a], m)
    /\ BlockState(auths[p][a], m, t) = "ready"
    /\ auths[p][a].states[m].nextRecoverAt <= t

(* What a request is given is one of its candidates, of a provider it      *)
(* named, unblocked, and no free candidate of any of those providers has a *)
(* higher priority, except that a request that prefers websockets takes    *)
(* the best websocket credential before any other.                         *)
PickIsBest ==
    answer.kind = "picked" =>
        LET a == answer.auth
            s == auths[answer.provider][a]
            rivals == {x \in answer.providers \X answer.candidates :
                          FreeAt(x[1], answer.model, x[2], now)}
        IN  /\ a \in answer.candidates
            /\ answer.provider \in answer.providers
            /\ s # NoSnapshot
            /\ Supports(s, answer.model)
            /\ BlockState(s, answer.model, now) = "ready"
            /\ \A x \in rivals :
                  LET r == auths[x[1]][x[2]]
                  IN  IF answer.preferWebsocket /\ s.websocket # r.websocket
                      THEN s.websocket
                      ELSE r.priority <= s.priority

(* A request is refused only when none of its candidates is free.  It is   *)
(* told that there is no credential only when none serves the model, and   *)
(* told to come back at a time only when that time is ahead and no         *)
(* candidate is free before it.                                            *)
RefusalIsJustified ==
    answer.kind \in {"auth_not_found", "model_cooldown", "auth_unavailable"} =>
        \A p \in answer.providers, a \in answer.candidates :
            /\ ~FreeAt(p, answer.model, a, now)
            /\ answer.kind = "auth_not_found" =>
                  auths[p][a] = NoSnapshot \/ ~Supports(auths[p][a], answer.model)
            /\ answer.kind = "model_cooldown" =>
                  /\ answer.resetAt > now
                  /\ \A t \in now .. answer.resetAt - 1 : ~FreeAt(p, answer.model, a, t)
=============================================================================
