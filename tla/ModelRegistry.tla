---------------------------- MODULE ModelRegistry ----------------------------
(***************************************************************************)
(* The registry of the models on offer (internal/registry/                 *)
(* model_registry.go): which client serves which model for which provider, *)
(* which of them are over quota or suspended, and the cached list of       *)
(* models that have an available client.                                   *)
(*                                                                         *)
(* Every operation holds the registry's lock from end to end, so each is   *)
(* one step.  Two things are not: GetAvailableModels reads the clock       *)
(* before it locks, and a request reports its result in two calls          *)
(* (Manager.MarkResult, conductor.go).  Times are relative to now: a tick  *)
(* brings every recovery one unit closer.                                  *)
(***************************************************************************)
EXTENDS Integers, FiniteSetsExt, Functions

CONSTANTS Client, Model, Provider, Handler, Request,
          Offers,    \* the model lists a client may register, as multiplicities
          Reasons,   \* why a request's failure suspends its model
          Window,    \* modelQuotaExceededWindow
          MaxLag     \* how long a reader may hold the clock it read

NoProvider == "no provider"
NotSuspended == "not suspended"
NoLookup == -1

ASSUME ClientFinite == IsFiniteSet(Client)
ASSUME ProviderTyped == NoProvider \notin Provider
ASSUME OffersTyped == Offers \subseteq [Model -> Nat]
ASSUME ReasonsTyped == NotSuspended \notin Reasons
ASSUME ClockTyped == Window \in Nat \ {0} /\ MaxLag \in Nat

(* A recovery that lies in the past for every reader is only waiting for a *)
(* cleanup; a mark that is absent lies further back still, and an answer   *)
(* that never expires beyond every recovery.                               *)
NoMark == -(MaxLag + 1)
Never == Window + 1

VARIABLES models,          \* ModelRegistration by model; count 0 is no registration
          clientModels,    \* multiplicities of each client's models, none if absent
          clientProviders,
          cache,           \* availableModelsCache
          lookup,          \* age of the clock of a GetAvailableModels under way
          requests         \* results on their way into the registry

vars == <<models, clientModels, clientProviders, cache, lookup, requests>>
registry == <<models, clientModels, clientProviders>>

NoRegistration == [count |-> 0, providers |-> [p \in Provider |-> 0], infoBy |-> {},
                   quota |-> [c \in Client |-> NoMark],
                   suspended |-> [c \in Client |-> NotSuspended]]
NoModels == [m \in Model |-> 0]
NoEntry == [models |-> {}, expires |-> NoMark]
Idle == [pc |-> "idle"]

Registered(c) == clientModels[c] # NoModels
Serves(c, m) == clientModels[c][m] > 0

Recovery == NoMark .. Window
Registration ==
    [count: Nat, providers: [Provider -> Nat], infoBy: SUBSET Provider,
     quota: [Client -> Recovery], suspended: [Client -> Reasons \cup {NotSuspended}]]
Entry == [models: SUBSET Model, expires: NoMark .. Never]
Result == [pc: {"sent", "resuming"}, client: Client, model: Model]
Suspension == [pc: {"suspending"}, client: Client, model: Model, reason: Reasons]
TypeOK ==
    /\ models \in [Model -> Registration]
    /\ clientModels \in [Client -> Offers \cup {NoModels}]
    /\ clientProviders \in [Client -> Provider \cup {NoProvider}]
    /\ cache \in [Handler -> Entry]
    /\ lookup \in [Handler -> NoLookup .. MaxLag]
    /\ requests \in [Request -> {Idle} \cup Result \cup Suspension]
-----------------------------------------------------------------------------
(* The registration of one model while clients come, change and go.        *)
LesserOf(i, j) == Min({i, j})
Excess(i, j) == Max({i - j, 0})

(* k bindings stop counting for provider p. *)
Leave(reg, p, k) ==
    IF p = NoProvider THEN reg
    ELSE [reg EXCEPT !.providers[p] = Excess(@, k),
                     !.infoBy = IF reg.providers[p] <= k THEN @ \ {p} ELSE @]

Unmarked(reg, c) == [reg EXCEPT !.quota[c] = NoMark, !.suspended[c] = NotSuspended]

(* removeModelRegistration, k times. *)
Remove(reg, c, p, k) ==
    IF k = 0 THEN reg
    ELSE IF reg.count <= k THEN NoRegistration
    ELSE Unmarked([Leave(reg, p, k) EXCEPT !.count = @ - k], c)

(* addModelRegistration, k times. *)
Add(reg, p, k) ==
    IF k = 0 THEN reg
    ELSE IF p = NoProvider THEN [reg EXCEPT !.count = @ + k]
    ELSE [reg EXCEPT !.count = @ + k, !.providers[p] = @ + k, !.infoBy = @ \cup {p}]

(* Mutant: what both lists hold keeps counting for the old provider too. *)
Rebind_LeavesTheOldCount(reg, c, old, new, was, p) ==
    LET counted == Add(Remove(reg, c, was, Excess(old, new)), p, Excess(new, old))
    IN IF new = 0 THEN counted
       ELSE IF p = NoProvider THEN Unmarked(counted, c)
       ELSE [Unmarked(counted, c) EXCEPT
                !.infoBy = @ \cup {p},
                !.providers[p] = IF was # p THEN @ + LesserOf(old, new) ELSE @]
(* A client that listed a model old times for provider was lists it new    *)
(* times for provider p.  What both lists hold moves from was to p.        *)
Rebind(reg, c, old, new, was, p) ==
    LET kept == LesserOf(old, new)
        moves == was # p /\ kept > 0
        left == IF moves THEN Leave(reg, was, kept) ELSE reg
        counted == Add(Remove(left, c, was, Excess(old, new)), p, Excess(new, old))
    IN IF new = 0 THEN counted
       ELSE IF p = NoProvider THEN Unmarked(counted, c)
       ELSE [Unmarked(counted, c) EXCEPT
                !.infoBy = @ \cup {p},
                !.providers[p] = IF moves THEN @ + kept ELSE @]
-----------------------------------------------------------------------------
(* Availability, by a clock that is lag behind. *)
Exceeded(m, lag) == {c \in Client : models[m].quota[c] + lag > 0}
QuotaSuspended(m) == {c \in Client : models[m].suspended[c] = "quota"}
OtherSuspended(m) == {c \in Client : models[m].suspended[c] \notin {"quota", NotSuspended}}

(* Mutant: the last usable client does not count. *)
Listed_OffByOne(count, exceeded, quotaSuspended, otherSuspended) ==
    \/ count - Cardinality(exceeded) - Cardinality(otherSuspended) > 1
    \/ /\ count > 0
       /\ exceeded # {} \/ quotaSuspended # {}
       /\ otherSuspended = {}
Listed(count, exceeded, quotaSuspended, otherSuspended) ==
    \/ count - Cardinality(exceeded) - Cardinality(otherSuspended) > 0
    \/ /\ count > 0
       /\ exceeded # {} \/ quotaSuspended # {}
       /\ otherSuspended = {}
(* buildAvailableModelsLocked: the models, and the first recovery ahead. *)
Available(lag) ==
    {m \in Model : Listed(models[m].count, Exceeded(m, lag),
                          QuotaSuspended(m), OtherSuspended(m))}
(* Mutant: the answer is kept until the registry changes. *)
NextRecovery_Never(lag) == Never
NextRecovery(lag) ==
    Min({Never} \cup UNION {{models[m].quota[c] : c \in Exceeded(m, lag)} : m \in Model})

(* GetAvailableModelsByProvider. *)
ClientsOf(p) == {c \in Client : clientProviders[c] = p}
AvailableFor(p) ==
    {m \in Model :
        Listed(SumFunctionOnSet([c \in ClientsOf(p) |-> clientModels[c][m]], ClientsOf(p)),
               Exceeded(m, 0) \cap ClientsOf(p),
               QuotaSuspended(m) \cap ClientsOf(p),
               OtherSuspended(m) \cap ClientsOf(p))}
-----------------------------------------------------------------------------
Init ==
    /\ models = [m \in Model |-> NoRegistration]
    /\ clientModels = [c \in Client |-> NoModels]
    /\ clientProviders = [c \in Client |-> NoProvider]
    /\ cache = [h \in Handler |-> NoEntry]
    /\ lookup = [h \in Handler |-> NoLookup]
    /\ requests = [r \in Request |-> Idle]

InvalidateCache == cache' = [h \in Handler |-> NoEntry]

(* unregisterClientInternal: nothing happens to a client without models. *)
Unregister(c) ==
    /\ models' = [m \in Model |->
            Remove(models[m], c, clientProviders[c], clientModels[c][m])]
    /\ clientModels' = [clientModels EXCEPT ![c] = NoModels]
    /\ clientProviders' = [clientProviders EXCEPT ![c] = NoProvider]

UnregisterClient(c) ==
    /\ Unregister(c)
    /\ InvalidateCache
    /\ UNCHANGED <<lookup, requests>>

(* RegisterClient with a list of models, or with none. *)
RegisterClient(c, p, offer) ==
    /\ \/ /\ offer = NoModels
          /\ Unregister(c)
       \/ /\ offer # NoModels
          /\ models' = [m \in Model |->
                IF Registered(c)
                THEN Rebind(models[m], c, clientModels[c][m], offer[m], clientProviders[c], p)
                ELSE Add(models[m], p, offer[m])]
          /\ clientModels' = [clientModels EXCEPT ![c] = offer]
          /\ clientProviders' = [clientProviders EXCEPT ![c] = p]
    /\ InvalidateCache
    /\ UNCHANGED <<lookup, requests>>

(* A request goes out to a client that serves its model; its result comes  *)
(* back whatever has become of the client.                                 *)
Send(r, c, m) ==
    /\ requests[r] = Idle
    /\ Serves(c, m)
    /\ requests' = [requests EXCEPT ![r] = [pc |-> "sent", client |-> c, model |-> m]]
    /\ UNCHANGED <<registry, cache, lookup>>

(* SetModelQuotaExceeded, for a model that has a registration. *)
MarkQuota(c, m) ==
    IF models[m].count = 0 THEN UNCHANGED <<models, cache>>
    ELSE /\ models' = [models EXCEPT ![m].quota[c] = Window]
         /\ InvalidateCache

(* ClearModelQuotaExceeded. *)
ClearQuota(c, m) ==
    IF models[m].count = 0 THEN UNCHANGED <<models, cache>>
    ELSE /\ models' = [models EXCEPT ![m].quota[c] = NoMark]
         /\ InvalidateCache

(* SuspendClientModel: the first reason stays. *)
Suspend(c, m, reason) ==
    IF models[m].count = 0 \/ models[m].suspended[c] # NotSuspended
    THEN UNCHANGED <<models, cache>>
    ELSE /\ models' = [models EXCEPT ![m].suspended[c] = reason]
         /\ InvalidateCache

(* Mutant: the entry is blanked, not deleted. *)
Resume_BlanksTheReason(c, m) ==
    /\ models' = [models EXCEPT ![m].suspended[c] = ""]
    /\ InvalidateCache
(* Mutant: the cached lists survive. *)
Resume_KeepsTheCache(c, m) ==
    /\ models' = [models EXCEPT ![m].suspended[c] = NotSuspended]
    /\ UNCHANGED cache
(* ResumeClientModel. *)
Resume(c, m) ==
    IF models[m].suspended[c] = NotSuspended
    THEN UNCHANGED <<models, cache>>
    ELSE /\ models' = [models EXCEPT ![m].suspended[c] = NotSuspended]
         /\ InvalidateCache

(* MarkResult after its unlock: a success clears the quota and resumes. *)
ReportSuccess(r) ==
    /\ requests[r].pc = "sent"
    /\ ClearQuota(requests[r].client, requests[r].model)
    /\ requests' = [requests EXCEPT ![r].pc = "resuming"]
    /\ UNCHANGED <<clientModels, clientProviders, lookup>>

FinishSuccess(r) ==
    /\ requests[r].pc = "resuming"
    /\ Resume(requests[r].client, requests[r].model)
    /\ requests' = [requests EXCEPT ![r] = Idle]
    /\ UNCHANGED <<clientModels, clientProviders, lookup>>

(* A failure that blocks the model marks the quota, if that is its cause,  *)
(* and suspends.                                                           *)
ReportFailure(r, reason) ==
    /\ requests[r].pc = "sent"
    /\ IF reason = "quota"
       THEN MarkQuota(requests[r].client, requests[r].model)
       ELSE UNCHANGED <<models, cache>>
    /\ requests' = [requests EXCEPT ![r] =
            [pc |-> "suspending", client |-> @.client, model |-> @.model, reason |-> reason]]
    /\ UNCHANGED <<clientModels, clientProviders, lookup>>

FinishFailure(r) ==
    /\ requests[r].pc = "suspending"
    /\ Suspend(requests[r].client, requests[r].model, requests[r].reason)
    /\ requests' = [requests EXCEPT ![r] = Idle]
    /\ UNCHANGED <<clientModels, clientProviders, lookup>>

(* GetAvailableModels reads the clock, and later looks into the cache and  *)
(* builds what it does not find.                                           *)
BeginLookup(h) ==
    /\ lookup[h] = NoLookup
    /\ lookup' = [lookup EXCEPT ![h] = 0]
    /\ UNCHANGED <<registry, cache, requests>>

Valid(entry, lag) == entry.expires + lag > 0

FinishLookup(h) ==
    /\ lookup[h] # NoLookup
    /\ cache' = IF Valid(cache[h], lookup[h]) THEN cache
                ELSE [cache EXCEPT ![h] = [models |-> Available(lookup[h]),
                                           expires |-> NextRecovery(lookup[h])]]
    /\ lookup' = [lookup EXCEPT ![h] = NoLookup]
    /\ UNCHANGED <<registry, requests>>

(* The clients still marked on a model whose recovery has passed.           *)
Expired(m) == {c \in Client : models[m].quota[c] \in NoMark + 1 .. 0}

CleanupExpiredQuotas ==
    /\ models' = [m \in Model |-> [models[m] EXCEPT !.quota =
                    [c \in Client |-> IF c \in Expired(m) THEN NoMark ELSE @[c]]]]
    /\ IF \A m \in Model : Expired(m) = {} THEN UNCHANGED cache ELSE InvalidateCache
    /\ UNCHANGED <<clientModels, clientProviders, lookup, requests>>

(* Time passes.  An entry that has expired for every reader is forgotten.  *)
Closer(t) == IF t = NoMark THEN t ELSE Max({t - 1, NoMark + 1})
Tick ==
    /\ \A h \in Handler : lookup[h] < MaxLag
    /\ models' = [m \in Model |-> [models[m] EXCEPT !.quota =
                    [c \in Client |-> Closer(@[c])]]]
    /\ cache' = [h \in Handler |->
            IF cache[h].expires = Never THEN cache[h]
            ELSE IF Valid(cache[h], MaxLag - 1) THEN [cache[h] EXCEPT !.expires = Closer(@)]
            ELSE NoEntry]
    /\ lookup' = [h \in Handler |-> IF lookup[h] = NoLookup THEN NoLookup ELSE lookup[h] + 1]
    /\ UNCHANGED <<clientModels, clientProviders, requests>>

Next ==
    \/ \E c \in Client, p \in Provider \cup {NoProvider}, offer \in Offers :
            RegisterClient(c, p, offer)
    \/ \E c \in Client : UnregisterClient(c)
    \/ \E r \in Request, c \in Client, m \in Model : Send(r, c, m)
    \/ \E r \in Request : ReportSuccess(r)
    \/ \E r \in Request : FinishSuccess(r)
    \/ \E r \in Request, reason \in Reasons : ReportFailure(r, reason)
    \/ \E r \in Request : FinishFailure(r)
    \/ \E h \in Handler : BeginLookup(h)
    \/ \E h \in Handler : FinishLookup(h)
    \/ CleanupExpiredQuotas
    \/ Tick

Spec == Init /\ [][Next]_vars
-----------------------------------------------------------------------------
Providing(m) == {c \in Client : Serves(c, m)}
Total(m, C) == SumFunctionOnSet([c \in C |-> clientModels[c][m]], C)

(* The counters of a registration are what the clients' own lists add up   *)
(* to, in all and by provider, and a provider has information on a model   *)
(* as long as a client of it serves the model: whatever lists a client     *)
(* registers, repeats, shrinks or moves to another provider.               *)
CountsAgree ==
    \A m \in Model :
        /\ models[m].count = Total(m, Client)
        /\ \A p \in Provider : models[m].providers[p] = Total(m, ClientsOf(p))
        /\ models[m].infoBy = {p \in Provider : models[m].providers[p] > 0}

(* A cached list that has not expired is the list a lookup would build     *)
(* now, also when a lookup that read the clock earlier stored it.          *)
CacheIsCurrent ==
    \A h \in Handler : Valid(cache[h], 0) => cache[h].models = Available(0)

(* Marks on a model that are all of clients serving it, each once. *)
MarkedOnce(m) ==
    /\ \A c \in Client : clientModels[c][m] <= 1
    /\ Exceeded(m, 0) \cup QuotaSuspended(m) \cup OtherSuspended(m) \subseteq Providing(m)
    /\ Exceeded(m, 0) \cap OtherSuspended(m) = {}

(* The marks hide no more than they should.  A client that may be used      *)
(* keeps its model on the list, whatever befell the others, unless one of   *)
(* them was marked for two causes or after it had gone; quota cooldowns     *)
(* alone take no served model off the list                                  *)
(* (TestCleanupExpiredQuotasInvalidatesAvailableModelsCache); and what a    *)
(* provider offers by itself is on the common list if the marked clients    *)
(* are all its own.                                                         *)
ServedIsListed ==
    \A m \in Model :
        \/ m \in Available(0)
        \/ /\ MarkedOnce(m) => Providing(m) \subseteq Exceeded(m, 0) \cup OtherSuspended(m)
           /\ OtherSuspended(m) = {} => Providing(m) = {}
           /\ \A p \in Provider :
                Exceeded(m, 0) \cup QuotaSuspended(m) \cup OtherSuspended(m) \subseteq ClientsOf(p)
                  => m \notin AvailableFor(p)

(* GetAvailableModels "returns all models that have at least one available *)
(* client" (model_registry.go): a client that serves the model, is not     *)
(* over quota for it and not suspended.                                    *)
AllAvailableModelsListed ==
    \A m \in Model :
        Providing(m) \ (Exceeded(m, 0) \cup QuotaSuspended(m) \cup OtherSuspended(m)) # {}
            => m \in Available(0)
=============================================================================
