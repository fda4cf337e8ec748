------------------------------ MODULE AuthSync ------------------------------
(***************************************************************************)
(* The three places that know a credential, and the calls that keep them   *)
(* in step: the manager's record and the scheduler's entry                 *)
(* (sdk/cliproxy/auth/conductor.go, scheduler.go) and the registration of  *)
(* its models (internal/registry/model_registry.go), driven by the service *)
(* (sdk/cliproxy/service.go), by results, by refreshes and by picks.       *)
(*                                                                         *)
(* Each of the three has a lock of its own and no call holds two of them   *)
(* while it goes from one place to the next (refreshAuth's failure path    *)
(* excepted), so a call is a list of steps, one per lock it takes, and the *)
(* calls interleave between them.  One credential is modelled: its calls   *)
(* touch no other's record, and no other serves its models.  Of a model's  *)
(* state only what its last failure brought about is kept; cooldowns do    *)
(* not pass.                                                               *)
(***************************************************************************)
EXTENDS Integers, Sequences

CONSTANTS Process,  \* goroutines that call
          Model,
          Calls     \* the calls that are made

Modifying == {"modify", "remove"}   \* the service's update loop makes them in turn
ASSUME CallsKnown ==
    Calls \subseteq Modifying \cup {"toggle", "catalog", "refresh", "result", "pick"}

VARIABLES record,    \* m.auths[id]
          entry,     \* the scheduler's entry, as computed when it was published
          serves,    \* clientModels[id]
          marks,     \* models the registry holds as suspended for the credential
          process,
          solo,      \* history: the call that no other has overlapped, if any
          settled    \* history: what the last calls made agree undisturbed

vars == <<record, entry, serves, marks, process, solo, settled>>

(* A record, with a state for each model.  A failure suspends the model in *)
(* the registry (model_not_supported; without disableCooling 401 to 404    *)
(* and 429), only cools it down (408, 500 to 504), or is only noted: any   *)
(* other one, and those that disableCooling spares.                        *)
State == {"none", "clean", "noted", "cooling", "suspending"}
NoStates == [m \in Model |-> "none"]
Record == [present: BOOLEAN, disabled: BOOLEAN, states: [Model -> State]]
NoRecord == [present |-> FALSE, disabled |-> FALSE, states |-> NoStates]
Failing(r) == {m \in Model : r.states[m] \in {"noted", "cooling", "suspending"}}
Blocked(r) == {m \in Model : r.states[m] \in {"cooling", "suspending"}}
Suspending(r) == {m \in Model : r.states[m] = "suspending"}
NoAuthEntry == [present |-> FALSE, blocked |-> {}, supported |-> {}]

(* A call on its way: its remaining steps, the credential it stores, what  *)
(* it passes to the scheduler (a clone, or the record itself if live).     *)
Idle == [call |-> "none", todo |-> <<>>, auth |-> NoRecord, held |-> NoRecord,
         live |-> FALSE, models |-> {}]
Nobody == "nobody"
ASSUME NobodyIsNoProcess == Nobody \notin Process

Steps == {"get", "update", "publish", "register", "supported", "reconcile", "latest",
          "clone", "unregister", "refreshed", "record", "suspend", "resume",
          "pick", "pickAgain"}
Entry == [present: BOOLEAN, blocked: SUBSET Model, supported: SUBSET Model]
Caller == [call: Calls \cup {"none"}, todo: Seq(Steps), auth: Record, held: Record,
           live: BOOLEAN, models: SUBSET Model]
TypeOK ==
    /\ record \in Record
    /\ entry \in Entry
    /\ serves \subseteq Model
    /\ marks \subseteq serves
    /\ process \in [Process -> Caller]
    /\ solo \in Process \cup {Nobody}
    /\ settled \subseteq {"scheduler", "registration", "marks"}

Init ==
    /\ record = NoRecord /\ entry = NoAuthEntry
    /\ serves = {} /\ marks = {}
    /\ process = [p \in Process |-> Idle]
    /\ solo = Nobody
    /\ settled = {"scheduler", "registration", "marks"}
-----------------------------------------------------------------------------
(* The steps of each call.  "publish" is upsertAuth or rebuild, "clone"    *)
(* RefreshSchedulerEntry's or snapshotAuths's read; "supported" is the     *)
(* read of the registry ReconcileRegistryModelStates starts with.  What    *)
(* follows a registration is the same in both calls that make one.         *)
(* Mutant: the entry is not refreshed once the models are registered. *)
Program_NoEntryRefresh(call) ==
    CASE call = "modify"  -> <<"get", "update", "publish", "register", "supported",
                               "reconcile", "publish">>
      [] call = "remove"  -> <<"unregister", "get", "update", "publish">>
      [] call = "toggle"  -> <<"get", "update", "publish">>
      [] call = "catalog" -> <<"get", "register", "supported", "reconcile", "publish", "latest">>
      [] call = "refresh" -> <<"get", "refreshed">>
      [] call = "result"  -> <<"record">>
      [] call = "pick"    -> <<"pick">>
Program(call) ==
    CASE call = "modify"  -> <<"get", "update", "publish", "register", "supported",
                               "reconcile", "publish", "clone", "publish">>
      [] call = "remove"  -> <<"unregister", "get", "update", "publish">>
      [] call = "toggle"  -> <<"get", "update", "publish">>
      [] call = "catalog" -> <<"get", "register", "supported", "reconcile", "publish", "latest">>
      [] call = "refresh" -> <<"get", "refreshed">>
      [] call = "result"  -> <<"record">>
      [] call = "pick"    -> <<"pick">>

(* What a call that nothing overlapped leaves in agreement, whatever the   *)
(* state it found.  Toggling leaves the registration to the update that    *)
(* the changed file brings about.                                          *)
Settles(call) ==
    IF call \in Modifying \cup {"catalog"} THEN {"scheduler", "registration", "marks"}
    ELSE {"scheduler"}

Running == {p \in Process : process[p].call # "none"}
At(p, step) == process[p].todo # <<>> /\ Head(process[p].todo) = step
Rest(p) == Tail(process[p].todo)

(* A call begins: models holds the one model of a result or a pick, auth   *)
(* what the caller brings along.                                           *)
Begin(p, call, auth, models) ==
    /\ call \in Calls
    /\ process[p] = Idle
    /\ process' = [process EXCEPT ![p] =
            [Idle EXCEPT !.call = call, !.todo = Program(call),
                         !.auth = auth, !.models = models]]
    /\ solo' = IF Running = {} THEN p ELSE Nobody
    /\ settled' = IF Running # {} THEN {}
                  ELSE IF call = "toggle" THEN settled \ {"registration"} ELSE settled
    /\ UNCHANGED <<record, entry, serves, marks>>

(* p goes on, or is done. *)
Continue(p, local) ==
    /\ process' = [process EXCEPT ![p] = IF local.todo = <<>> THEN Idle ELSE local]
    /\ settled' = IF local.todo = <<>> /\ solo = p THEN settled \cup Settles(local.call)
                  ELSE settled
    /\ solo' = IF local.todo = <<>> /\ solo = p THEN Nobody ELSE solo

(* p returns early. *)
Return(p) ==
    /\ process' = [process EXCEPT ![p] = Idle]
    /\ solo' = IF solo = p THEN Nobody ELSE solo
    /\ UNCHANGED settled
-----------------------------------------------------------------------------
(* The registry.  UnregisterClient: a model without clients loses its      *)
(* marks too.                                                              *)
UnregisterModels ==
    /\ serves' = {}
    /\ marks' = {}

(* Mutant: a disabled credential's models are registered as well. *)
RegisterModels_EvenDisabled(auth, offer) ==
    IF offer = {} THEN UnregisterModels
    ELSE /\ serves' = offer
         /\ marks' = {}

(* registerModelsForAuth: whatever the catalog lists for the credential    *)
(* when the call comes to it; its marks are cleared.                       *)
RegisterModels(auth, offer) ==
    IF auth.disabled \/ offer = {} THEN UnregisterModels
    ELSE /\ serves' = offer
         /\ marks' = {}

(* SuspendClientModel, for a model that is served at all.                  *)
(* Mutant: a mark is set for a model nobody serves. *)
Suspended_Anything(model) == marks \cup {model}
Suspended(model) == IF model \in serves THEN marks \cup {model} ELSE marks

(* upsertAuth: a disabled credential is removed, another is entered with   *)
(* the models the registry has for it at that moment.                      *)
EntryOf(auth) ==
    IF ~auth.present \/ auth.disabled THEN NoAuthEntry
    ELSE [present |-> TRUE, blocked |-> Blocked(auth), supported |-> serves]
-----------------------------------------------------------------------------
(* What the rest of a call still reads of the credential it stored, and of  *)
(* the one it publishes; what it no longer reads is dropped.               *)
Enabling(auth) == [NoRecord EXCEPT !.disabled = auth.disabled]
Blocking(auth) ==
    [auth EXCEPT !.states = [m \in Model |-> IF m \in Blocked(auth) THEN "cooling" ELSE "none"]]

(* GetByID and what the caller makes of the clone. *)
Get(p) ==
    LET call == process[p].call
        auth == process[p].auth
        bothEnabled == ~record.disabled /\ ~auth.disabled
    IN /\ At(p, "get")
       /\ IF CASE call = "modify"  -> FALSE
               [] call = "catalog" -> ~record.present \/ record.disabled
               [] OTHER            -> ~record.present
          THEN Return(p)
          ELSE Continue(p, [process[p] EXCEPT !.todo = Rest(p), !.auth =
                CASE call = "modify" ->
                        IF record.present /\ bothEnabled /\ auth.states = NoStates
                        THEN [auth EXCEPT !.states = record.states]
                        ELSE auth
                  [] call = "remove"  -> [record EXCEPT !.disabled = TRUE]
                  [] call = "toggle"  -> [record EXCEPT !.disabled = auth.disabled]
                  [] call = "catalog" -> Enabling(record)
                  [] call = "refresh" -> record])
       /\ UNCHANGED <<record, entry, serves, marks>>

(* Update, or Register, under the manager's lock.  Whoever still holds the *)
(* record that is replaced keeps it as it was.                             *)
Stored(auth) ==
    IF /\ record.present /\ ~record.disabled /\ ~auth.disabled
       /\ auth.states = NoStates
    THEN [auth EXCEPT !.states = record.states]
    ELSE auth
Update(p) ==
    /\ At(p, "update")
    /\ record' = Stored(process[p].auth)
    /\ process' = [q \in Process |->
            IF q = p THEN [process[p] EXCEPT !.todo = Rest(p), !.live = TRUE, !.auth = Enabling(@)]
            ELSE IF process[q].live THEN [process[q] EXCEPT !.live = FALSE, !.held = Blocking(record)]
            ELSE process[q]]
    /\ UNCHANGED <<entry, serves, marks, solo, settled>>

(* upsertAuth or rebuild, after the manager's lock is released. *)
Publish(p) ==
    /\ At(p, "publish")
    /\ entry' = EntryOf(IF process[p].live THEN record ELSE process[p].held)
    /\ Continue(p, [process[p] EXCEPT !.todo = Rest(p), !.held = NoRecord, !.live = FALSE])
    /\ UNCHANGED <<record, serves, marks>>

Register(p, offer) ==
    /\ At(p, "register")
    /\ RegisterModels(process[p].auth, offer)
    /\ Continue(p, [process[p] EXCEPT !.todo = Rest(p), !.auth = NoRecord])
    /\ UNCHANGED <<record, entry>>

Unregister(p) ==
    /\ At(p, "unregister")
    /\ UnregisterModels
    /\ Continue(p, [process[p] EXCEPT !.todo = Rest(p)])
    /\ UNCHANGED <<record, entry>>

(* ReconcileRegistryModelStates: the registry is read first.  States of    *)
(* models it lists are made clean, others are dropped, and the scheduler   *)
(* is told only if that changed something.                                 *)
ReadSupported(p) ==
    /\ At(p, "supported")
    /\ Continue(p, [process[p] EXCEPT !.todo = Rest(p), !.models = serves])
    /\ UNCHANGED <<record, entry, serves, marks>>

(* Mutant: only the states of models that are gone are dealt with. *)
Reconciled_PrunesOnly(r, supported) ==
    [r EXCEPT !.states =
        [m \in Model |-> IF m \in supported THEN r.states[m] ELSE "none"]]
Reconciled(r, supported) ==
    [r EXCEPT !.states =
        [m \in Model |-> IF m \in supported /\ r.states[m] # "none" THEN "clean" ELSE "none"]]
Reconcile(p) ==
    LET clean == Reconciled(record, process[p].models)
    IN /\ At(p, "reconcile")
       /\ record' = clean
       /\ Continue(p, [process[p] EXCEPT
                !.todo = IF clean = record THEN Tail(Rest(p)) ELSE Rest(p),
                !.held = IF clean = record THEN NoRecord ELSE Blocking(clean),
                !.models = {}])
       /\ UNCHANGED <<entry, serves, marks>>

(* refreshModelRegistrationForAuth looks at the credential again: if it is *)
(* gone by now its models go, otherwise they are registered once more.     *)
Latest(p) ==
    /\ At(p, "latest")
    /\ Continue(p, [process[p] EXCEPT
            !.todo = IF ~record.present \/ record.disabled
                     THEN <<"unregister", "clone", "publish">>
                     ELSE <<"register", "supported", "reconcile", "publish",
                            "clone", "publish">>,
            !.auth = Enabling(record)])
    /\ UNCHANGED <<record, entry, serves, marks>>

Clone(p) ==
    /\ At(p, "clone")
    /\ IF record.present
       THEN Continue(p, [process[p] EXCEPT !.todo = Rest(p), !.held = Blocking(record)])
       ELSE Return(p)
    /\ UNCHANGED <<record, entry, serves, marks>>

(* refreshAuth, once the executor has answered: a failure is recorded and  *)
(* published under the manager's lock, a success stores the clone it       *)
(* started from, with new tokens; a cancelled refresh does nothing.        *)
RefreshCancelled(p) ==
    /\ At(p, "refreshed")
    /\ Return(p)
    /\ UNCHANGED <<record, entry, serves, marks>>

RefreshFailed(p) ==
    /\ At(p, "refreshed")
    /\ entry' = EntryOf(record)
    /\ Continue(p, [process[p] EXCEPT !.todo = <<>>])
    /\ UNCHANGED <<record, serves, marks>>

RefreshSucceeded(p) ==
    /\ At(p, "refreshed")
    /\ Continue(p, [process[p] EXCEPT !.todo = <<"update", "publish">>])
    /\ UNCHANGED <<record, entry, serves, marks>>

(* MarkResult: the record under the manager's lock, then the scheduler,    *)
(* then the registry, which a failure that suspends nothing leaves as it   *)
(* is.  A not-found for an item of the request changes no state.           *)
Outcomes == (State \ {"none"}) \cup {"notFound"}
Marked(r, m, outcome) ==
    IF outcome = "notFound" THEN r
    ELSE [r EXCEPT !.states = [r.states EXCEPT ![m] = outcome]]
Reports(outcome) ==
    IF outcome = "clean" THEN <<"publish", "resume">>
    ELSE IF outcome = "suspending" THEN <<"publish", "suspend">>
    ELSE <<"publish">>
ModelOf(p) == CHOOSE m \in process[p].models : TRUE
RecordResult(p, outcome) ==
    /\ At(p, "record")
    /\ record' = Marked(record, ModelOf(p), outcome)
    /\ Continue(p, [process[p] EXCEPT !.todo = Reports(outcome), !.held = Blocking(record')])
    /\ UNCHANGED <<entry, serves, marks>>

ReportFailure(p) ==
    /\ At(p, "suspend")
    /\ marks' = Suspended(ModelOf(p))
    /\ Continue(p, [process[p] EXCEPT !.todo = Rest(p)])
    /\ UNCHANGED <<record, entry, serves>>

ReportSuccess(p) ==
    /\ At(p, "resume")
    /\ marks' = marks \ {ModelOf(p)}
    /\ Continue(p, [process[p] EXCEPT !.todo = Rest(p)])
    /\ UNCHANGED <<record, entry, serves>>

(* pickNext: a pick that finds nothing has the scheduler rebuilt from the  *)
(* manager's records and tries once more.                                  *)
Ready(m) == entry.present /\ m \in entry.supported \ entry.blocked
(* Mutant: the second try comes before the rebuild. *)
Pick_TriesTooEarly(p) ==
    /\ At(p, "pick")
    /\ IF Ready(ModelOf(p)) THEN Return(p)
       ELSE Continue(p, [process[p] EXCEPT
                !.todo = IF record.present THEN <<"pickAgain", "clone", "publish">>
                         ELSE <<"pickAgain">>])
    /\ UNCHANGED <<record, entry, serves, marks>>
Pick(p) ==
    /\ At(p, "pick")
    /\ IF Ready(ModelOf(p)) THEN Return(p)
       ELSE Continue(p, [process[p] EXCEPT
                !.todo = IF record.present THEN <<"clone", "publish", "pickAgain">>
                         ELSE <<"pickAgain">>])
    /\ UNCHANGED <<record, entry, serves, marks>>

PickAgain(p) ==
    /\ At(p, "pickAgain")
    /\ Continue(p, [process[p] EXCEPT !.todo = Rest(p)])
    /\ UNCHANGED <<record, entry, serves, marks>>

(* What callers bring: a file with no runtime state, enabled or not.       *)
FromFile(disabled) == [NoRecord EXCEPT !.present = TRUE, !.disabled = disabled]
BeginSome(p) ==
    \/ \E disabled \in BOOLEAN :
        /\ \A q \in Running : process[q].call \notin Modifying
        /\ Begin(p, "modify", FromFile(disabled), {})
    \/ /\ \A q \in Running : process[q].call \notin Modifying
       /\ Begin(p, "remove", NoRecord, {})
    \/ \E disabled \in BOOLEAN : Begin(p, "toggle", FromFile(disabled), {})
    \/ /\ \A q \in Running : process[q].call # "catalog"
       /\ Begin(p, "catalog", NoRecord, {})
    \/ Begin(p, "refresh", NoRecord, {})
    \/ \E m \in Model : record.present /\ Begin(p, "result", NoRecord, {m})
    \/ \E m \in Model : Begin(p, "pick", NoRecord, {m})

Next ==
    \E p \in Process :
        \/ BeginSome(p)
        \/ Get(p) \/ Update(p) \/ Publish(p)
        \/ \E offer \in SUBSET Model : Register(p, offer)
        \/ Unregister(p) \/ ReadSupported(p) \/ Reconcile(p) \/ Latest(p) \/ Clone(p)
        \/ RefreshCancelled(p) \/ RefreshFailed(p) \/ RefreshSucceeded(p)
        \/ \E outcome \in Outcomes : RecordResult(p, outcome)
        \/ ReportFailure(p) \/ ReportSuccess(p)
        \/ Pick(p) \/ PickAgain(p)

Spec == Init /\ [][Next]_vars
-----------------------------------------------------------------------------
AtRest == Running = {}

(* A call that publishes and that nothing overlapped leaves the scheduler  *)
(* with what the manager and the registry hold, however overlapping calls  *)
(* had left it: stale entries last until the next undisturbed call.        *)
SchedulerSettles ==
    AtRest /\ "scheduler" \in settled => entry = EntryOf(record)

(* After an undisturbed update, removal or catalog refresh, no disabled    *)
(* credential has models registered, also after later results, refreshes   *)
(* and picks.                                                              *)
RegistrationSettles ==
    /\ AtRest
    /\ "registration" \in settled
    /\ record.disabled \/ ~record.present
    => serves = {}

(* After an undisturbed update, removal or catalog refresh, and results    *)
(* that do not overlap, the manager and the registry tell the same of each *)
(* model: none that works again stays suspended, and one whose failure     *)
(* suspends it is.  A later failure that only cools the model down, or is  *)
(* only noted, leaves the registry as it was, so the two need not agree on *)
(* more: the manager may block, or offer again, what the registry does not *)
(* or does still suspend.                                                  *)
MarksSettle ==
    AtRest /\ "marks" \in settled =>
        /\ marks \subseteq Failing(record)
        /\ Suspending(record) \cap serves \subseteq marks

(* A pick that nothing overlapped refuses no credential that can serve the *)
(* model, however stale the scheduler was when it began.                   *)
UsableFor(m) == /\ record.present /\ ~record.disabled
                /\ m \in serves \ Blocked(record)
UndisturbedPickFinds ==
    \A p \in Process :
        At(p, "pickAgain") /\ solo = p /\ UsableFor(ModelOf(p)) => Ready(ModelOf(p))
=============================================================================
