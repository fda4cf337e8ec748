# CLI Proxy API: a TLA+ verification project

CLI Proxy API is a proxy, written in Go, that speaks the OpenAI, Gemini, Claude and Codex
dialects to its clients and serves them from a set of upstream *credentials*: OAuth logins and API
keys of several providers. What makes it hard is the middle of it: choosing a credential for every
request, learning from the answers which credential is over its quota or broken and for which
model, keeping tokens fresh, and keeping three separate tables of who can serve what (manager,
scheduler, registry) in agreement, while requests, file events, logins and timers run concurrently.
That middle is what this project models, checks and proves things about.

Source paths are relative to the repository's root. `conductor.go`, `scheduler.go`, `selector.go`,
`session_cache.go` and `auto_refresh_loop.go` are those of `sdk/cliproxy/auth/`, `service.go` is
`sdk/cliproxy/service.go`, `model_registry.go` is `internal/registry/model_registry.go`, `handlers.go`
and `stream_forwarder.go` are in `sdk/api/handlers/`, `openai_handlers.go` in its `openai/`,
`session.go` in `internal/wsrelay/`, and `dispatcher.go`, `events.go`, `clients.go` in
`internal/watcher/`.

- [Inventory](#inventory)
- [Modules](#modules)
- [Runs](#runs)
- [Fairness](#fairness)
- [Proofs](#proofs)
- [Where code and documentation part](#where-code-and-documentation-part)
- [Abstractions and what is left out](#abstractions-and-what-is-left-out)
- [Not modelled](#not-modelled)
- [Plan](#plan)
- [Working on it](#working-on-it)

## Inventory

How a request travels: an HTTP handler (`sdk/api/handlers`) resolves the providers of the requested
model with the **model registry** and calls the **manager** (`Execute`, `ExecuteCount`,
`ExecuteStream` in `conductor.go`). The manager asks the **scheduler** (or, for aliases and custom
selectors, a legacy path over its own records) for a credential, calls the provider's **executor**
with each upstream model of the credential, records every result (`MarkResult`), and tells scheduler
and registry. Beside it run the **file watcher** and the **service**, which turn changed credential
files into calls on all three, and the **refresh loop**, which renews tokens. The answer goes back
as a **stream** through several goroutines, and some upstreams are programs that have connected to
the **websocket relay**.

| Component | State | Operations | Hard behaviour | What makes it correct |
|---|---|---|---|---|
| Auth scheduler (`scheduler.go`) | per provider the credentials' snapshots, per model a shard: entries, ready views by priority with cursors, blocked list; mixed-request cursors | rebuild, upsertAuth, removeAuth, setSelector, pickSingle, pickMixed | lazily built shards, indexes whose rebuild is skipped, cooldowns promoted only when a pick comes by, three kinds of cursors that survive rebuilds | indexes agree with entries; a pick is the best candidate; a refusal is justified; nobody starves |
| Request execution (`conductor.go`, `selector.go`) | credential records with per-model states, pool offsets; per request the tried and attempted credentials, last error, attempt | Execute, ExecuteCount, ExecuteStream, MarkResult, closestCooldownWait, shouldRetryAfterError | results of concurrent requests on one record; an aggregate over models; retry rounds that wait for cooldowns others change; streams that fail before or after the first byte | the aggregate matches the models; picks, waits and backoff are bounded; a request's own fault is not retried; every request ends |
| Model registry (`model_registry.go`) | per model counts, providers, quota marks, suspensions; per client its list; cached answers | RegisterClient, UnregisterClient, SetModelQuotaExceeded, Clear..., Suspend..., Resume..., GetAvailableModels, GetAvailableModelsByProvider, CleanupExpiredQuotas | counts kept by differences of lists; marks outlive clients; a cache with an expiry read by a stale clock | counts add up; the cache is current; a model with a usable client is listed |
| Credential synchronisation (`service.go` with the three above) | what manager, scheduler and registry hold of one credential | applyCoreAuthAddOrUpdate, applyCoreAuthRemoval, refreshModelRegistrationForAuth, PatchAuthFileStatus, MarkResult, refreshAuth, pickNext | each table has its own lock; clones travel between them | they agree again after an undisturbed call; an undisturbed pick finds a usable credential |
| Automatic refresh (`auto_refresh_loop.go`, `conductor.go`) | heap of next checks, dirty set, wake-up channel, timer, job channel, workers; the records' times | rebuild, applyDirty, handleDue, markRefreshPending, refreshAuth, queueReschedule | lost wake-ups, jobs that block the loop, records changed while a refresh is under way | what is due is looked at in time and refreshed, once at a time, without spinning |
| Session affinity (`selector.go`, `session_cache.go`) | bindings of sessions to credentials with expiry | Pick, Get, GetAndRefresh, Set, InvalidateAuth, cleanup | expired bindings deleted without a second look; ticker against requests | a session stays with its credential while that is available |
| Stream bootstrap (`sdk/api/handlers`) | per stream: payloads sent, retries left, headers, data and error channel, converter | executeStreamWithAuthManager, wrapStreamResult, the endpoints' handlers, ForwardStream | restart before the first payload; an error and the end of the data in two channels; five goroutines that wait for each other; cancellation | the client gets the payloads of one attempt and is told how it ended; every goroutine ends |
| Websocket relay (`internal/wsrelay`) | the session's pending requests by id, their channels | Send, request, dispatch, cleanup, NonStream, Stream | a reader that sends into channels others close; a map replaced under its users | an answer arrives in order; nobody waits on a channel no one closes |
| Usage statistics and queue (`sdk/cliproxy/usage`, `internal/redisqueue`) | queue, subscribers, retention | Publish, dispatch, Enqueue, PopOldest, Subscribe | slow subscribers; consumers that poll beside subscribers | a record reaches each subscriber or the queue, in order |
| Login sessions (`oauth_sessions.go`) | sessions by state with status and expiry | Register, SetError, Complete, CompleteProvider, IsPending | check and act on separate locks | only a pending login is completed, once |
| File watcher (`internal/watcher`) | hashes of the files, current and runtime credentials, pending updates, the batch under way | fsnotify events, debounced removal, addOrUpdateClient, removeClient, reloadClients, DispatchRuntimeAuthUpdate, the dispatch loop | snapshots taken before the lock; updates handed over after it; a cache of hashes that decides what is news | the service is told the latest of what the watcher believes, and that is what the directory holds |
| Home mode (`internal/home`, `conductor.go`) | subscription, remote runtime credentials | GetAuth, heartbeat, config updates | cache cleared under running sessions | a session keeps its credential |
| Codex websocket sessions (`codex_websockets_executor.go`) | sessions, connection, active request | ensureUpstreamConn, reader loop, invalidate | reader against writer against replacement | a request gets the frames of its own connection |
| Translators, thinking, signatures | none | JSON to JSON | none: pure functions | structure is preserved |
| Token stores, provider logins, executors' HTTP | files, remote stores | input and output | failures of I/O | taken as any outcome |
| Management API, configuration, access, logging, TUI, desktop, commands | settings | handlers, parsing, output | none of their own | not in scope |

Modelled are the scheduler, and in part request execution, the registry, credential synchronisation,
automatic refresh, streams, the relay and the watcher. `PROJECT.json` lists all components with their files.

## Modules

Every operation that the code runs under one lock from beginning to end is one action; wherever the
code lets go of a lock, or waits, between two accesses, the model has two actions.

### Scheduler

`ReadyView` is the rotating view (`readyView`, `childBucket`): a sorted slice is given by its set, an
index by the rank in the set, and the three kinds of cursors (flat, parents, children) are kept.
`AuthScheduler` is `authScheduler`: `RebuildAll` is `rebuild`, `UpsertAuth` and `RemoveAuth` their
namesakes with `upsertAuthLocked`, `EnsuredShards` is `ensureModelLocked` with `promoteExpiredLocked`,
`PickSingle`, `PickMixedPinned` and `PickMixed` are `pickSingle` and the two branches of `pickMixed`,
`SetSelector` is `setSelector`. `answer` holds what the last step returned, so that picks and
refusals can be judged in the state they were made in. `AuthSchedulerRotation` extends it with two
history variables that count how long a ready credential is passed over: `waited` by the picks from its
view, `waitedMixed` by those of each mixed request from its pool. `FullRotationSpec` lets the scheduler do
all it can, and is what is proved about; `RotationSpec` is the part of it that TLC goes through.

### Requests

`AuthResult` is the data part of `MarkResult`: what a success or failure of one model does to the
record (`RecordSuccess`, `RecordFailure`, `UpdateAggregatedAvailability`, `nextQuotaCooldown`,
`hasModelError`, `isRequestInvalidError`), and what `isAuthBlockedForModel` reads of it.
`RequestExecution` is the three `execute...MixedOnce` loops and the retry loop around them: `Pick`,
`EndRound` (`pickNextMixed` with its legacy variant), `CallSucceeds`, `CallFails`, the
four ways a stream goes (`StreamBreaks`, `StreamIsEmpty`, `StreamOpens` with `RelayEnds` and
`RelayBreaks`), `GiveUp`, `StartWait`, `WaitOver` (`shouldRetryAfterError`, `closestCooldownWait`,
`waitForCooldown`) and `Cancelled`. Upstream answers are any failure of `Kinds` at any moment.
A preparation (`prepareRequestAuth`) is two moments, like a call: `Prepare` takes the credential's
preparation lock and a copy of the record (`copies`), `Prepared` stores that copy as `Update` does
(`Updated`), over whatever was recorded since; `PrepareFails` lets go of the lock and `MarkUnprepared`
records the failure afterwards.

### Registry

`ModelRegistry`: `RegisterClient` is the whole of it, with duplicates and a change of provider as
multiplicities (`Rebind`), `UnregisterClient`, the four marks, `CleanupExpiredQuotas`, the cached
`GetAvailableModels` in the two moments it has (the clock is read before the lock) and
`AvailableFor`, the lists per provider. `MarkResult`'s two calls are two steps with anything between.

### Agreement of the three

`AuthSync` follows one credential through manager (`record`), scheduler (`entry`) and registry
(`serves`, `marks`). A goroutine runs one call at a time; `Program` gives the steps of each call in
the order of its locks. `Update` gives the scheduler a pointer to the very record it stored, so what
is published is the record as it is at that moment (`live`), or, after the record was replaced, as it
was (`held`). What a result does depends on what became of the call (`Outcomes`): a failure suspends the
model in the registry, only cools it down in the manager, or is only noted. This module is why the
others may keep their neighbours simple: it has the
interleavings between the tables, they have the detail within each.

### Refresh

`AutoRefresh`: the loop's goroutine step by step (`Rebuild`, `WakeUp`, `DrainDirty`, `ApplyDirty`,
`PopDue`, `HandleDue`, `Mark`, `HandleAgain`, `Send`, `ResetTimer`), the workers (`Take`,
`RefreshSucceeds`, `RefreshFails`, `RefreshCancelled`), `QueueReschedule`, and those who change a
credential meanwhile: the service's read and later store (`ServiceReads`, `ServiceStores`),
`RegisterExecutor`, `MarkResult`. `NextCheck` and `ShouldRefresh` are `nextRefreshCheckAt` and
`shouldRefresh`, two functions of the code that must agree.

### Streams

`ClientStream` is an abstract specification: what a streaming request promises its client, whoever
serves it. `StreamBootstrap` is how the code does it, and implements it (`PromiseKept`): the manager's
stream of each attempt (`Opened` is `readStreamBootstrap` and `streamErrorResult`, `Send`, `Break`,
`Finish`, `MarkEnd`, `CloseOut`, `Drop` are `wrapStreamResult`), the producer
(`executeStreamWithAuthManager`: `ReceivePayload`, `ReceiveError`, `Retry`, `ReceiveEnd`, `Stop`,
`SendError`, `CloseErrs`, `CloseData`), the converter of the completions endpoint, and the handler: its
first select (`Peek...`) and what follows it (`Forward...`), for the five kinds of endpoint that differ
in what they do: `Checking`, `Validating`, `Converting`, `KeepingAlive`, and the plain one of OpenAI and
Gemini. The refinement maps the payloads offered to those the provider of the last attempt has sent,
and the end of an attempt to what is on record for its credential: so a client that is told "complete"
before the credential's success is recorded would break it, as would a payload of two attempts.

### Relay

`WsRelay` is one session. Each of its goroutines is there: the requester (`Lookup`, `Store`,
`LoadBack`, `Write`, `WriteFails` are `Manager.Send` and `session.request`), the one it leaves behind
(`Watch`), the session's reader (`Read`, `Dispatch`, `FinishDispatch`), `cleanup` entry by entry
(`BeginCleanup`, `Visit`, `TellClosed`, `EndRange`, `Reset`, `Forget`) and the loop over the channel in
`Stream` and `NonStream` (`Receive`, `ReceiveClosed`, `GiveUp`). A send into a closed channel sets
`panicked`, and the program is over. So may a request whose entry is gone when it reads it back
(`LoadBack`): its type assertion panics, which the server recovers in its own goroutines, but not in the
producer of a stream that is started again before its first payload (`handlers.go:745`, `:816`).

### Watcher

`AuthWatcher`: the goroutine of the file events (`TakeEvent`, `Wake`, `ReadFile`,
`AddOrUpdateClient`, `RemoveClient`), runs of `reloadClients` (`BeginReload`, `Rescan`, `Snapshot`,
`Diff`), the relay's callbacks (`OnConnected`, `OnDisconnected`), and the dispatch loop
(`NextPendingBatch`, `Send`). Whoever computes updates leaves the lock with them in hand (`held`) and
hands them over afterwards (`HandOver`). A content has two marks, because the code parses files in two
ways: the event goroutine takes it or drops it before anything is stored (`Readable`), and the
synthesizer, which strips a byte order mark and asks for a type, makes a credential of it or not
(`Yield`). The two callbacks of a session are agents of their own and run in either order, since whatever
ends a session may do so before its connection is announced; before `StartWatcher` there is no watcher
to tell, and a callback applies its update itself (`early`). Its promise is what `AuthSync` takes as
given, that the service is told of every change.

## Runs

All runs are exhaustive for their bounds. Every invariant and action property has a mutant: a variant
of one definition, as a plausible slip in the code would have it, that makes the property fail.

| Run | Question | Bounds, and why they are enough |
|---|---|---|
| `scheduler` | Do the indexes agree with the entries, is a ready entry unblocked, is nothing put aside for good, is a pick the best candidate and a refusal justified? | Two credentials, two providers in one order, one model and the empty key every credential serves, two priorities, both strategies, six snapshots chosen so that websocket, priority, both orders of the two recovery times, a failure without quota, a credential without the model and a disabled one all occur; the clock goes to 3, past every recovery. Index errors need two entries that differ in one respect, which two credentials give |
| `scheduler_rotation` | Is no ready credential passed over for longer than one rotation, whatever the requests it shares its views with? | Three credentials: the smallest number for which a grouped view has a group of two, and a mixed pool two unequal weights. Plain credentials with and without websockets, so that an upsert rebuilds a view and leaves its pool alone, virtual ones of two parents, and ones of a second provider that are blocked until the clock ticks, so that a promotion makes a pool grow in the middle of a rotation. Mixed, pinned and single requests; a retry leaves out any one credential (`MaxTried`). States that differ only in `answer`, which no step and neither property looks at, are taken for one (`VIEW`) |
| `request_pool` | Two concurrent requests, one a stream: aggregate, separation of models, bounded picks, waits and backoff, finality of a request's own fault | A credential with a pool of two upstream models beside a plain one; failures by quota (which back off) and by an unexplained 500 (which cools and blames the request at once); one retry. The credential of the pool is prepared by the first request that gets its lock, while results of the other come in. A unit is 30 seconds, the default longest wait; cooldowns keep their order: transient above the longest wait, unauthorized and missing above that |
| `request_answers` | Does every request end, whatever the answers? | One request, all ten kinds of failure, Retry-After of none, one and two; a credential whose preparation may fail and which is picked under an alias with two retries, one without cooling; one credential per round |
| `model_registry` | Do counts, cache and lists agree with the clients under any order of registrations and marks? | Two clients, two providers, two models; lists that are empty, single, doubled, or name the other model; a reader whose clock is one tick behind; a quota window of one |
| `auth_sync` | Do manager, scheduler and registry come back into agreement? | Two goroutines, every pair of calls, two models, results of every kind (a success, the three kinds of failure, a not-found of an item). A disagreement needs two overlapping calls; what they leave behind stays and meets the next ones |
| `auto_refresh` | Is no wake-up lost, does the loop not spin, is a refresh not doubled, is what is due refreshed? | One credential (credentials share only the loop, the channel and the workers), two workers so that a refresh can be doubled, a job channel of one so that it fills, lead one and expiry two, a failure backoff longer than the pending one |
| `stream_bootstrap` | Does the client get one attempt and the truth about its end, and does every goroutine end? | All kinds of endpoint, two retries, so that a retry follows a retry, three payloads, so that one is first, one last and one neither |
| `relay` | Are chunks lost only at a full channel, does a panic need a race, is nobody left waiting? | One stream and one plain request, a channel of one, which two chunks fill |
| `watcher` | Does every update reach the service, and does the watcher believe what the directory holds? | One file of five contents: two ordinary ones, one that only the synthesizer takes (a byte order mark), one that only the event goroutine takes (no type), one that neither does. A relay session, the reload of the start and one of a changed configuration with each of its effects, two changes of files and sessions. An invalidation takes one change that a reload overlaps and one that meets what it left; two files share nothing but the order of events |
| `model_registry_hidden`, `auto_refresh_forgotten` | Two sentences of the repository that the code does not keep, see [below](#where-code-and-documentation-part) | The smallest instances with the behaviour |

What the properties say, in the words of their comments:

- **Scheduler.** `HeldByItsProvider`, `IndexesAgree`, `ReadyIsUnblocked`, `NoneSetAsideForGood`,
  `PickIsBest`, `RefusalIsJustified`, `BoundedWait`, `BoundedMixedWait`. `PickIsBest` and
  `RefusalIsJustified` quantify over both recovery times of a snapshot, because the code goes by one
  for promotion and by the other for blocking; with either alone they would be weaker or false.
- **Requests.** `AggregateAgrees` relates a record's own availability, computed only when a result
  comes in, to its models' at every later moment; `OnlyItsResultsBlockAModel` separates models. Both have the
  preparation for an exception, as narrow as it could be found: what it stores over the record may undo,
  for a model, only results for that model recorded while it was under way, and leaves the aggregate
  wrong only if the credential had no result before, and then only too good (`stale`), until a failure
  or the end of its models' own.
  `WorkIsBounded` (picks, waits and backoff) and `RequestEnds` bound a request; `FaultIsFinal` ends one
  that is to blame.
- **Registry.** `CountsAgree`, `CacheIsCurrent`, and `ServedIsListed`: what marks may and may not hide.
- **Agreement.** `SchedulerSettles`, `RegistrationSettles`, `MarksSettle`, `UndisturbedPickFinds`:
  overlapping calls may leave the tables apart, and one call that nothing overlaps repairs them.
  `settled` records for which tables that has happened since the last overlap. `MarksSettle` is two
  inclusions and no equality: what is suspended has failed, and what a suspending failure left is
  suspended. A failure with 408 or 500 to 504 cools the model down in the manager and is not told to the
  registry (`conductor.go:2409`), so the two may differ in such models, in either direction.
- **Refresh.** `LooksInTime` (no wake-up is lost), `NoTightLoop`, `OneRefreshAtATime`,
  `DueIsRefreshed`. `forgotten` and `excused` name the only ways out: a result that makes a dropped
  credential refreshable again, a refresh that outlasts the pending backoff of one minute, and a
  store by the service with times read before the mark or with none.
- **Streams.** `PromiseKept` is the refinement, `HeadersMatch` that the headers are of the attempt
  whose payloads follow, `EveryoneEnds` that nobody waits for ever, neither a goroutine for a
  handler that has returned nor a client for an attempt that is over.
- **Relay.** `OnlyAFullChannelLoses` keeps order and completeness, `PanicNeedsARace` says when the
  program can be brought down, `SomeoneWillClose` that for every channel waited on there is someone
  who is about to close it.
- **Watcher.** `ServiceWillAgree`: what is in hand, waiting and under way ends with the service
  having of a file what `currentAuths` says; a relay session is a credential from the announcement of its
  connection to its end, also when it connected before there was a watcher, and one that ended before it
  was announced ("dead") is a credential for good. `CacheTellsTheTruth`: once a file's events are handled
  and no reload runs, the cache of hashes has what the directory has, so that nothing the watcher
  dismissed as unchanged was a change, and `currentAuths` has what the file yields. The ways out have
  names. Of the first: two agents with updates of one credential in hand at once, or a reload that drops
  a credential to have it told anew (`loose`). Of the second: a reload that read the file otherwise than
  the event goroutine, before any event put that right (`misread`, for `currentAuths` only); a file that
  cannot be parsed; a removal that was debounced or a directory that moved, and then only a file or a hash
  that is missing, never a wrong one (`swallowed`). See [below](#where-code-and-documentation-part).

## Fairness

- `RequestExecution!FairSpec`: weak fairness of each request's goroutine, of its upstream answer
  (every executor call ends in some way: a response, an error, or the end of the client's context),
  and of the clock. No client has to give up.
- `AutoRefresh!FairSpec`: weak fairness of the loop's goroutine, of each worker (a refresh call comes
  to an end) and of whoever is about to queue a reschedule; weak fairness of the clock; and *strong*
  fairness of `PopDue`. The last is Go's `select`, which chooses uniformly among the cases that are
  ready: a timer that has fired again and again beside a wake-up is chosen sooner or later. Weak
  fairness would not do, since every wake-up handled disables the case for a moment. That a refresh
  call ends is an assumption about the executors' HTTP clients: their context is the loop's own,
  which has no deadline.
- `StreamBootstrap!FairSpec`: weak fairness of producer, converter, handler, each attempt's forwarder
  and the goroutine that passes a cancellation on: none of them waits but for another of them or for
  the provider. A provider may be silent for ever; only once the context is done must it close its
  channel, which is what a context is for.
- The other modules have no liveness properties: what a lock protects is settled when the call is
  over, and the properties are about the states in between.

## Proofs

Each component with theorems has a module of its own for them, named after it, which `tlapm` checks to
the last leaf. A theorem holds for every value of the constants that satisfies the assumptions named
in the component's module; those assumptions are types, that what the program holds in memory is
finite, that null values differ from what they stand for, and the few facts about settings given below.
Every safety invariant, every action property and the refinement that the runs check are
proved. Every invariant that a proof is by was checked by TLC first.

| Module | Theorem | States |
|---|---|---|
| `AuthScheduler_proofs` | `TypeCorrect` | `Spec => []TypeOK` |
| | `HeldByItsProviderInvariant` | a credential is held by the provider it is scheduled under and by no other |
| | `IndexesAgreeInvariant` | views and blocked list are what a rebuild would make of the entries |
| | `ReadyIsUnblockedInvariant` | an entry is ready only while its snapshot is unblocked |
| | `NoneSetAsideForGoodInvariant` | a waiting entry has one of the two times its snapshot names |
| | `PickIsBestInvariant` | a pick is an unblocked candidate, and none that is free has a higher priority |
| | `RefusalIsJustifiedInvariant` | a refusal means that no untried credential could serve, until the time it names |
| | `BoundedWaitInvariant` | `FullRotationSpec => []BoundedWait`: a ready credential is not passed over for longer than one rotation of its view |
| | `BoundedMixedWaitInvariant` | `FullRotationSpec => []BoundedMixedWait`: nor for longer than one rotation of the pool of a mixed request |
| `RequestExecution_proofs` | `TypeCorrect` | `Spec => []TypeOK` |
| | `AggregateAgreesInvariant` | what a credential says of itself as a whole agrees with its models, at any later time; after a preparation that its first results overtook it may look better, never worse |
| | `WorkIsBoundedInvariant` | picks, waits and backoff levels stay within what the settings allow |
| | `OnlyItsResultsBlockAModelHolds` | only a result for a model, its time, or a preparation that undoes results for it recorded meanwhile, blocks or frees it |
| | `FaultIsFinalHolds` | a request an upstream has blamed only ends |
| `ModelRegistry_proofs` | `TypeCorrect` | `Spec => []TypeOK` |
| | `CountsAgreeInvariant` | all counts are what the registered clients add up to |
| | `CacheIsCurrentInvariant` | a cached list that is served is the one that would be computed |
| | `ServedIsListedInvariant` | what marks may and may not hide |
| `AuthSync_proofs` | `TypeCorrect` | `Spec => []TypeOK` |
| | `SchedulerSettlesInvariant` | after an undisturbed call that publishes, the scheduler has what manager and registry hold |
| | `RegistrationSettlesInvariant` | after an undisturbed update, removal or catalog refresh, a disabled credential serves nothing |
| | `MarksSettleInvariant` | and what the registry suspends has failed, and what a suspending failure left is suspended |
| | `UndisturbedPickFindsInvariant` | a pick nothing overlapped refuses no credential that can serve its model |
| `AutoRefresh_proofs` | `ChecksAgree` | `NextCheck` is now if and only if `ShouldRefresh` holds, for a credential that is no API key |
| | `TypeCorrect` | `Spec => []TypeOK` |
| | `OneRefreshAtATimeInvariant` | a refresh is not doubled, but in the ways `excused` names |
| | `NoTightLoopInvariant` | the loop does not handle a credential as due twice at one instant |
| | `LooksInTimeInvariant` | no wake-up is lost |
| `StreamBootstrap_proofs` | `TypeCorrect` | `Spec => []TypeOK` |
| | `HeadersMatchInvariant` | the headers are those of the attempt whose payloads follow |
| | `PromiseIsKept` | the code's stream implements `ClientStream` |
| `WsRelay_proofs` | `TypeCorrect` | `Spec => []TypeOK` |
| | `PanicNeedsARaceInvariant` | to bring the program down takes a request given up or a cleanup |
| | `SomeoneWillCloseInvariant` | nobody waits on a channel that no one will close |
| | `OnlyAFullChannelLosesInvariant` | chunks arrive in order, and only those that met a full channel are missing |
| `AuthWatcher_proofs` | `TypeCorrect` | `Spec => []TypeOK` |
| | `ServiceWillAgreeInvariant` | the service ends with what `currentAuths` says of a file, and with a session while it is connected or if it was dead when announced |
| | `CacheTellsTheTruthInvariant` | once all is handled the cache of hashes has what the directory has, and `currentAuths` what it yields, but in the ways named |

**Scheduler.** One inductive invariant, `IInv`, carries the first five: types without the shards
(`Typed`), `HeldByItsProvider`, and `ShardOK` of every shard that has been built. `ShardOK` conjoins,
for one shard and the snapshots its provider holds, its type, the three properties `ShardIndexed`,
`ShardUnblocked`, `ShardTimed` that the theorems quantify over, that an entry whose state is "absent" is
`Absent` itself, and `ShardWaits`, that an entry waits only for a model that is unavailable. They need
one another. A skipped rebuild keeps the indexes only if a credential that is not ready is in no view
and if the snapshot that replaces the old one agrees with it in what the views are made of; a promotion
puts nothing blocked into a view because it evaluates the held snapshot again, and must find one there,
which is `HeldByItsProvider` and the domain of the entries; and a tick needs `BlockStateMonotone`, that
time only ever unblocks a snapshot. Lemmas, in order: views (`BuildReadyViewOK`, `AfterPickOK`), entries
and shards under upsert, removal, promotion and building (each preserves `ShardOK`), then one step lemma
per action, combined in `NextIInv` and `Invariance`. The answers are about the last step, so they
follow from `IInv` of the state before it: a shard the pick has just brought up to date
(`EnsureModelFresh`) leaves nothing waiting that is free (`FreeIsNotWaiting`, here `ShardWaits` is
needed), so what is free is ready and in a view, and the views of the best priority are looked at
first (`PickBeatsTheReady`); for a refusal, what is left waits, and the least of its times is given.
The rotation bounds are about the past, so their invariants give what is still to come a number.
`Ahead(view, a)` is how many picks can still pass `a` over: in a flat view the distance of the cursor from
it; in a grouped one the distance to its group, plus a round of all the groups for every place it has to
wait within the group. `Waits` says that what `a` has waited and `Ahead` are together less than one
rotation (`Turns`). A pick that passes the candidate `a` over lessens `Ahead` (`AheadAfterPick`); a
rebuild with the same members leaves it (`AheadRebuilt`), since the cursors it carries over are only
ever read modulo the size; a change of priority that leaves the pool the same leaves `a` alone in it
(`AloneNeverWaits`). For a mixed request `SlotsAhead` is the same over the provider slots of its cursor
(`MixedWaits`): from `Ahead` in its provider's own view and the cursor's distance from the provider's
slots, with a whole round more when the cursor is in the midst of them and too few are left. It is at
most the pool less one, falls with every pick of the request that passes `a` over (`MixedAfterTurn`:
whether the slot's owner has nothing to offer and the turn goes on, or is `a`'s own provider), and no
other step raises it (`WaitsOnNoFarther`), because none takes `a` farther from its turn in its own view but
one that picks or excludes it there (`AheadNoFarther`). Mixed requests to a provider with virtual
credentials are left out: it has as many slots as credentials, but groups, not credentials, share them.
Assumed: identifiers are naturals and there are finitely many credentials (`OrderedIDs`). What TLC
checks of the rotation is part of what is proved (`RotationIsFull`).

**Requests.** `IInv` says of each credential that it is `Coherent`, and of each request that it is as
`RequestFits` says. Coherent is a record whose aggregate can stand time: `AggregateAgrees` asks at
every moment what was computed only when a result came in, so `Aggregated` says why it stays right: an
unavailable credential has no model that can be used *before its own time*, and one that can be *at*
it, and a credential that is not has a model to use. With it stand that a model's state is clean or has
an error (so that one result's clean state is another's), that the quota flag is the models', and that
backoff levels stop where the cooldown reaches its ceiling. `RequestFits` counts: the picks of a round are
the credentials tried, what was waited for is at most the longest wait for each retry, each allowed by
some credential, and a request that was blamed is at its decision with an error that blames it. The
lemmas of the first part are about `AuthResult`: what `RecordSuccess` and `RecordFailure` make of a
coherent record (`Coherent` again, and other models' states as they were). A preparation's copy is
`Coherent` too, since it was a record once and time passes for it as for records; a model that is
blocked in one of copy and record and not in the other is in the copy's `since`; and only a copy
without any model states can leave a record whose aggregate is not its models', which is what `stale`
remembers. Every action of a request is
then shown to be `Stepped`, which replaces one request by one that fits and at most one credential by the
record of a result; the invariant and both action properties follow from that. Assumed: there is a
credential, and there are finitely many (`SomeAuths`; an empty manager refuses at once), cooldowns are
positive and the base of the backoff is no more than its ceiling (`CooldownsArePositive`).

**Registry.** `IInv` is the type, `CountsAgree` and, for every cached answer still valid, that it is
what would be computed now and `ExpiresInTime`: no quota mark ends before the answer does. Without that
a tick would make the cache stale; the code's expiry is the least of the marks' times, which is how a
computed answer has it. The counts are sums over clients, folds in the model. Since induction over data
is out of reach as a schema, each lemma about sums (a sum changes by what one client's term does, is
zero if and only if all terms are) takes the smallest set for which it would fail, by the well-founded
order of the naturals, and finds a smaller one. `ServedIsListed` then compares three cardinalities:
what the code subtracts, and the clients that cause it. Assumed: finitely many clients.

**Agreement.** `IInv` follows the one undisturbed call. `Alone`: if a call is `solo`, nobody else runs
and it is at a `Stage`, which says for every list of steps it may have left what holds of the three tables
and of what it carries; if nobody is, either nothing runs or `settled` is empty, as `Begin` leaves it when
calls overlap. `AtRest => Agree` is what is to be shown. `Carried` and `Absent` keep a credential that
is not there from being published. One lemma per kind of step and stage; that the stages of one call do
not mix is by the lists of their steps. Assumed: that the calls are those of the model.

**Refresh.** `ChecksAgree` has no state: it is about any record of the type, by the branches of the two
functions and what the minimum of two times is. It covers the branch of preferred intervals, which the
run leaves out. Doubled refreshes need `HeldWhileInFlight`: a credential that is not excused is in
flight at most once, *and if it is, its record is held* (`NextRefreshAfter` lies ahead). `Mark` starts a
refresh only if the record is not held, so what it marks was not in flight; every action that takes the
hold away either ends the refresh or excuses the credential. Around it stand lemmas that count what is
in flight, in the loop, in the channel and with the workers. Spinning needs `QuietOnceHandled`: what was
handled at this instant wants no check now, or the loop has still to come to it, and the heap does not
have it as due; it rests on `ChecksAgree` and on `EndRefreshQuiet`: every end of a refresh leaves a hold,
a refusal or a record with nothing to do, or changes nothing. Wake-ups need `LookedAt`: a credential
whose record wants a check is in the heap, in flight, or `Awaited` (in the loop's hands, dirty, or
someone owes the mark); what the heap has of one that is not awaited is no later than its record would
want it *if it were not refused*, so that a refusal may come and go; what is dirty has a wake-up in the
channel or a loop about to drain; and the timer is set no later than any check in the heap.
`CheckComesCloser` is what makes a tick keep it: the check a record wants comes no closer than by the
time that passes. Assumed: workers are finitely many, backoffs are
positive, ages are kept as far as the longest lead and interval.

**Streams.** `IInv` has the type and seven parts, for the pipes, the handler, the producer and the
converter. The two that carry the refinement are `Flowing`, that the payloads between provider and
client are accounted for (what the client has, what the converter and the producer hold, and at most
one offered, add up to what the last attempt has sent), and `Recorded` with `Closing`: an attempt's
failure is on record before its error is offered, a success before its channel is closed, and the
producer ends only behind one of them. `PromiseIsKept` shows that the initial states and every step, under
the mapping of the module, are a step of `ClientStream` or none; `ClientStream` states no
fairness, so this is the whole of it.

**Relay.** `IInv` has two halves. `Control` is who is where: a request not yet written is known to nobody
else; whoever waits on an open channel is in the map, with its watcher, or ahead of the cleanup
(`WillClose`, which is `SomeoneWillClose` strengthened by what the reader still has in hand); whom the
reader holds had asked, and is in the map unless it gave up or the cleanup began, which is why only these
two can make it send into a closed channel. `Data` is where the chunks are: `Ordered`, those got, those
in the channel and the one in the reader's hands are in the order sent, and `Accounted`, as long as
the stream is whole each chunk sent is in exactly one of these places or was lost at a full channel.

**Watcher.** `Told` strengthens `ServiceWillAgree`: of a credential that is not `loose` at most one agent
holds an update, and it says what is due: what `currentAuths` says of a file, what the callbacks of a
session have come to (`Due`). `SessionIsCurrent` relates these to `currentAuths` for sessions announced to
the watcher, which no reload can undo; `Quiet` and `Ahead` have those of before the watcher, that their
updates go straight to the service, and that nothing is waiting which could be sent over them. `Fresh`
with `LastTells` strengthens the first half of `CacheTellsTheTruth`: the last notification of a file
tells whether it is there, and when none is left, what the event goroutine is about to do with the file
makes the hash the file's. `Matched` and `SeenAlike` are the second half: while no reload runs,
`currentAuths` has of a file that is not `misread` what its hash yields, and what a reload has read and
not yet compared differs from that only where the reload is in doubt.

Only model-checked: liveness under fairness (`RequestEnds`, `DueIsRefreshed`, `EveryoneEnds`), which is out of the provers' reach, as is
everything about `ENABLED`. The two violated sentences are by their nature not theorems.

## Where code and documentation part

Two are counterexamples of a run of their own; `PROJECT.json` has the details under "findings".

1. **A model with an available client is not listed** (`model_registry_hidden`).
   `model_registry.go:755` promises all models with at least one available client. The code subtracts
   the *numbers* of quota marks and suspensions from the number of clients; a mark of a client that has
   left, or two marks of one, hide what another client can serve.
2. **A refreshable credential is not refreshed** (`auto_refresh_forgotten`). `conductor.go:3888`
   promises refreshes "when required". An unauthorized answer takes the credential out of the loop, and
   `MarkResult`, which clears the error, does not queue a reschedule.

The others are in the models, as the exceptions the properties name, without a run that shows them:

- **A failed stream is told as a complete one.** `openai_handlers.go` says "Upstream failed
  immediately. Return proper error status and JSON.", but its select may take the end of the data,
  which is closed right after the error is sent, and answers `[DONE]`. Gemini's and the responses
  endpoint do the same; the Claude endpoint looks for a pending error. `ClientStream` has it as
  `HideFailure`, which endpoints may do it and until when as `promise`.
- **A message of the relay is dropped.** A channel holds eight messages, and what comes when it is full
  is dropped (`session.go:109`), be it the middle of a stream or its end: the client gets a stream
  with a hole. And a send into a channel that was closed since it was looked up panics, in a goroutine
  nobody recovers (`panicked`), and so does a stream started again whose entry the cleanup has dropped.
- **A session that is gone is served for good.** `manager.go` of the relay puts a session into its map
  (lines 149-150) before it announces the connection (155-157). When a reload turns ws-auth on, the server
  calls `Manager.Stop` (`internal/api/server.go:1463`, `service.go:835-846`), whose cleanup runs the
  disconnect callback at once (180-192). If that comes first, the announcement adds a credential whose
  session no longer exists, and nothing removes it: the states "gone" and "dead" of `AuthWatcher`.
- **A preparation stores an old copy.** `prepareRequestAuth` copies the record, refreshes or looks up over
  the network, and stores the copy with `Update` (`conductor.go:1716-1735`, `1162-1193`), which takes only
  counters over from the record. Cooldowns that other requests recorded meanwhile are gone, and a
  credential without results before keeps the new model states under an aggregate that knows of none
  (`stale`).
- **A credential file is overlooked.** `docs/sdk-watcher.md` says "the latest state is eventually
  applied". A reload reads the directory outside the lock, and the cache of hashes is kept apart from
  what it read: the start hashes a file, the file is truncated, the snapshot finds it empty, it is
  written again with the same content, and the event is skipped as unchanged. A file overwritten by one
  that cannot be parsed keeps its old hash and its old credential (`clients.go:168` returns before the
  hash is stored at 206); a reload then drops the credential and leaves the hash, unless it
  rescans, and when the old content comes back it is skipped as unchanged. A file with a byte order mark
  yields a credential in a reload, which strips it (`synthesizer/file.go:86`), and none in an event,
  which fails to parse it. Also: a removal within a
  second of the last is dropped (`events.go:93`); a change of the credential directory empties the
  cache and leaves the watcher with the old directory, so that later removals in it are of unknown
  files; and a forced reload that overlaps an update can replace it by an older one.
- **A stale registration is left behind.** `service.go:1288` re-applies the latest credential "so
  concurrent auth updates cannot leave stale model registrations behind"; a removal between the second
  look and the second registration does, until the next call (`AuthSync`).
- **An alias is refused for another model's cooldown** (`RequestExecution`). The tests of the alias
  path expect a credential to be refused only while the model it would be used for is blocked; the
  built-in selectors are asked about the credential as a whole (`conductor.go:703`), and one whose only
  known model cools down is unavailable as a whole.
- `config.example.yaml:85` says 403 and 5xx are retried, while the cooldown they earn, a minute or
  more, is beyond the default longest wait of 30 seconds (`conductor.go:2262`), so a request that has
  tried every credential is not; `config.example.yaml:88` reads as a bound on a request and is one on
  each of its rounds (`conductor.go:1343`); a quota cooldown can be overwritten by a later failure of
  another kind that has none (`conductor.go:2416`).
- `GetModelCount` and `GetFirstAvailableModel` (not modelled) subtract a client twice that is both
  suspended and over quota.

## Abstractions and what is left out

- **Time.** `AuthScheduler` has a clock; an operation reads it once where the code may read it again a
  moment later. The other modules keep times relative to now, so that a tick brings every time one
  unit closer and the state space is finite without a bound on the clock.
- **AuthScheduler.** Identifiers are naturals in the order of their strings. An entry's metadata is
  the snapshot its provider holds. The custom strategy never reaches the scheduler's picks. The
  resolution of a requested name to a model key (`canonicalModelKey`) is abstracted.
- **RequestExecution.** `MarkResult` and a pick are one step each and the scheduler is in step with
  the records; that it may not be is `AuthSync`'s subject. The pool offset counts modulo the size of
  the pool. Left out: Home mode, the fallback to Antigravity credits, pinned and free-tier
  restrictions, session affinity, custom selectors, results without a model, a manager without any
  credential, which refuses at once. A failure to prepare is
  recorded and not asked whether it blames the request, as in the code. A credential is prepared once:
  that its token runs out and it has to be prepared again is left out. In `request_pool` the copy of a
  preparation is the fresh record or one with failures; every way it can differ from the record is in
  the theorems.
- **ModelRegistry.** Model information is reduced to which providers have some. The lists of all
  handler types share their content. Hooks, which run in goroutines of their own, are left out: nothing
  but tests registers one. A reader's clock lags by at most `MaxLag`.
- **AuthSync.** One credential, and no other client serves its models; of a model's state only the
  kind of its last failure is kept (suspending, cooling or noted) and cooldowns do not pass; a record is
  disabled and never deleted. The calls of the service's
  update loop are made in turn, as its one goroutine makes them: its queue is written by the watcher's
  dispatch loop, which waits for it. Persistence, and with it the watcher's reaction to a file the
  manager wrote, is left out.
- **AutoRefresh.** `queueReschedule` marks dirty and sends the wake-up in one step: in the code the
  loop may drain the mark first and wake for nothing later. The heap belongs to the loop and is updated
  with the record it looks up. Each credential handled reads the clock anew, while the code's `now` may
  be old after a wait for the job channel; it then handles the credential as due early and looks again.
  Executors are never unregistered (nothing calls `UnregisterExecutor`), the loop is not stopped,
  `RefreshEvaluator` has no implementation outside tests. An age is kept only where something looks at
  it. The run has no credential with a preferred interval; that branch of `NextCheck` and
  `ShouldRefresh` is covered by the theorems.
- **StreamBootstrap.** Which credential serves an attempt, and the rounds and waits inside
  `ExecuteStream`, are `RequestExecution`'s. A provider sends no chunk that is empty and closes its
  stream after an error. A payload is its number, every payload can be converted, and one that the
  responses endpoint finds invalid is any. `[DONE]`, an error event and a status are `told`. Keep-alives
  matter only where they commit the response, which is the image endpoint's before the first payload.
- **WsRelay.** The service gives every connection a name of its own, so no session replaces another;
  a second session shares nothing with the first. The start of a stream counts as a chunk, an answer in
  one message as its end. Pings, the heartbeat and the content of messages are left out; the heartbeat's
  failure is a cleanup, which may begin at any time. What nobody will read is not kept.
- **AuthWatcher.** A file yields one credential; credentials of keys in the configuration, which the
  snapshot adds, are left out. A content is known by whether the event goroutine can parse it and whether
  the synthesizer makes a credential of it. A file being written is empty until the write is over; a create is
  handled as a write, a rename as a removal. Whether a second has passed between two removals is left
  open. The order within a batch is not kept, and the service's queue, of which the dispatch loop is the
  only writer, is folded into `Send`. Each session has a name of its own, as the service gives it. Before
  the watcher a callback applies its update itself; the moment in which the service has a watcher and the
  watcher has no queue yet (`service.go:927-930`) is left out. The timers that collect changes of the configuration, its hash,
  persistence and stopping are left out; a reload is a run of `reloadClients`, at any time. When the
  directory moves, the files of the new one are not modelled. `excludes` stands for the change of the
  models excluded for the files' provider.
- **Undefined behaviour.** `Update` shares its record with the scheduler without a lock until it is
  published; `AuthSync` has the sharing. The scheduler's later reads of a record that is being written
  are left out, and so is a keep-alive's read of the upstream headers while a retry replaces them.

## Not modelled

Components without a module are listed in `PROJECT.json` with the reason. By lines they are most of
the repository: translators between dialects, executors and logins of some ten providers, handlers of
the management API, configuration and logging, the user interfaces. They transform or move data, one
request at a time, and what they can do wrong is a wrong payload, which a model that abstracts payloads
cannot see. The models cover the part that keeps state and shares it. Of that part session affinity,
the usage queue, login sessions, the Codex websocket sessions and Home mode are still without one.

## Plan

Done: `ReadyView`, `AuthScheduler`, `AuthSchedulerRotation`; `AuthResult`, `RequestExecution`;
`ModelRegistry`; `AuthSync`; `AutoRefresh`; `ClientStream` and `StreamBootstrap`; `WsRelay`;
`AuthWatcher`; and the proofs of each, in the eight modules named above.

Modules still worth writing: `SessionAffinity` (bindings, their expiry, renewal and invalidation,
composed with a pick over available credentials), `UsageQueue` (the dispatcher and the queue with
subscribers and retention, which should implement a bounded FIFO), `OAuthSessions`, and the sessions of
the Codex websocket executor.

## Working on it

Parse with `tlasany M.tla`, check a run with `tlc -config X.cfg M` (module and configuration of each
are in `PROJECT.json`), prove with `tlapm M_proofs.tla`; from nothing each of the eight takes a few
minutes at most. `MC...` modules hold only the values of constants. Operators named
`Definition_Variant`, commented as mutants, are not part of the models: each stands before the
definition it varies.
