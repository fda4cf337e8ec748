---------------------------- MODULE AutoRefresh ----------------------------
(***************************************************************************)
(* The automatic refresh of credentials: one loop that keeps the next      *)
(* check of every credential in a heap, a bounded channel of jobs, workers *)
(* that refresh (sdk/cliproxy/auth/auto_refresh_loop.go, conductor.go),    *)
(* and those who change a credential meanwhile: the service's update loop, *)
(* which reads a credential and stores its successor later                 *)
(* (sdk/cliproxy/service.go), and recorded results (MarkResult).           *)
(*                                                                         *)
(* Times are relative to now: what lies ahead counts down to 0, the age of *)
(* the last refresh counts up as far as it is told apart.  The heap is the *)
(* loop's own, so it is read and written together with the record that is  *)
(* looked up for it; each look at a record is one action.                  *)
(***************************************************************************)
EXTENDS Integers, Sequences, FiniteSetsExt

CONSTANTS Auth, Worker,
          NoAuth,
          ApiKey,             \* credentials whose account type is api_key
          Preferred,          \* authPreferredInterval, 0 if there is none
          Lead,               \* ProviderRefreshLead, 0 if there is none
          Expiries,           \* [Auth -> what a stored or refreshed token expires in]
          CheckInterval, PendingBackoff, FailureBackoff, IneffectiveBackoff,
          JobBuffer,
          MaxAge              \* ages are told apart up to here

None == -1

ASSUME AuthAssumption == NoAuth \notin Auth /\ ApiKey \subseteq Auth
ASSUME WorkerAssumption == IsFiniteSet(Worker)
ASSUME PeriodsAssumption ==
    /\ Preferred \in [Auth -> Nat] /\ Lead \in [Auth -> Nat] /\ MaxAge \in Nat
    /\ \A a \in Auth : Expiries[a] \subseteq Nat \cup {None}
    /\ {CheckInterval, PendingBackoff, FailureBackoff, IneffectiveBackoff, JobBuffer}
       \subseteq Nat \ {0}
    /\ \A a \in Auth : Preferred[a] <= MaxAge /\ Lead[a] <= MaxAge

VARIABLES record,     \* m.auths
          executors,  \* credentials whose provider has an executor
          heap,       \* queue and index: the time to the next check, or None
          dirty, wake,
          timer,      \* time until it fires, None if it is stopped
          loop,       \* where the loop's goroutine is
          jobs,
          worker,
          owed,       \* stored, the reschedule not yet queued
          service,    \* what the update loop has read before it stores
          forgotten,  \* history: made refreshable again without a reschedule
          excused,    \* history: out of its pending window while in flight
          busy        \* history: handled as due since the clock last moved

vars == <<record, executors, heap, dirty, wake, timer, loop, jobs, worker,
          owed, service, forgotten, excused, busy>>

(* expiry: until the token expires; age: since the last refresh; hold:     *)
(* until NextRefreshAfter, 0 also if that is zero; refused: LastError is   *)
(* an unauthorized one.                                                    *)
Absent == [present |-> FALSE, expiry |-> None, age |-> None, hold |-> 0,
           refused |-> FALSE]
Fresh(a) == {[Absent EXCEPT !.present = TRUE, !.expiry = e] : e \in Expiries[a]}

Waiting == [at |-> "select", todo |-> {}, auth |-> NoAuth]
IdleWorker == [auth |-> NoAuth, expiry |-> None]
NoService == [auth |-> NoAuth, hold |-> 0, age |-> None]

Init ==
    /\ \E stored \in SUBSET Auth :
         record \in {r \in [Auth -> {Absent} \cup UNION {Fresh(a) : a \in Auth}] :
                      \A a \in Auth : r[a] \in IF a \in stored THEN Fresh(a) ELSE {Absent}}
    /\ executors = {}
    /\ heap = [a \in Auth |-> None] /\ dirty = {} /\ wake = FALSE /\ timer = None
    /\ loop = [Waiting EXCEPT !.at = "rebuild"]
    /\ jobs = <<>> /\ worker = [w \in Worker |-> IdleWorker]
    /\ owed = {} /\ service = NoService
    /\ forgotten = {} /\ excused = {} /\ busy = {}
-----------------------------------------------------------------------------
(* The age is kept only where somebody looks at it.                        *)
AgeMatters(a) == Preferred[a] > 0 \/ None \in Expiries[a]

(* When to look at a credential again, and whether to refresh it now: two  *)
(* functions of the code that must agree.                                  *)
NotBeforeNow(t) == IF t < 0 THEN 0 ELSE t

NextCheck(a, r) ==
    IF ~r.present \/ r.refused \/ a \in ApiKey THEN None
    ELSE IF r.hold > 0 THEN r.hold
    ELSE IF Preferred[a] > 0 THEN
        IF r.age = None THEN 0
        ELSE NotBeforeNow(Min({Preferred[a] - r.age} \cup
                 IF r.expiry = None THEN {} ELSE {r.expiry - Preferred[a]}))
    ELSE IF Lead[a] = 0 THEN None
    ELSE IF r.expiry # None THEN NotBeforeNow(r.expiry - Lead[a])
    ELSE IF r.age # None THEN NotBeforeNow(Lead[a] - r.age)
    ELSE 0

ShouldRefresh(a, r) ==
    /\ r.present /\ ~r.refused /\ r.hold = 0
    /\ IF Preferred[a] > 0
       THEN \/ r.expiry # None /\ r.expiry <= Preferred[a]
            \/ r.age = None
            \/ r.age >= Preferred[a]
       ELSE /\ Lead[a] > 0
            /\ IF r.expiry # None THEN r.expiry <= Lead[a]
               ELSE r.age = None \/ r.age >= Lead[a]

InFlight(a) ==
    Cardinality({i \in DOMAIN jobs : jobs[i] = a})
    + Cardinality({w \in Worker : worker[w].auth = a})
    + IF loop.at = "send" /\ loop.auth = a THEN 1 ELSE 0

(* The loop has the credential in its heap or is bound to look it up.      *)
Tracked(a) ==
    \/ heap[a] # None
    \/ a \in owed \cup dirty
    \/ loop.at = "rebuild" \/ loop.auth = a \/ a \in loop.todo
    \/ InFlight(a) > 0
-----------------------------------------------------------------------------
(* The loop.  queueReschedule adds to dirty before it sends the wake-up, so *)
(* the loop may at most see the entry early and later wake for nothing:     *)
(* the two are one step.                                                    *)
Upserted(a) == heap' = [heap EXCEPT ![a] = NextCheck(a, record[a])]
Soonest(h) == LET set == {h[a] : a \in Auth} \ {None}
              IN IF set = {} THEN None ELSE Min(set)
Others == <<executors, worker, owed, service, forgotten>>

Rebuild ==
    /\ loop.at = "rebuild"
    /\ heap' = [a \in Auth |-> NextCheck(a, record[a])]
    /\ timer' = Soonest(heap')
    /\ loop' = Waiting
    /\ UNCHANGED <<record, dirty, wake, jobs, excused, busy>> /\ UNCHANGED Others

WakeUp ==
    /\ loop.at = "select" /\ wake
    /\ wake' = FALSE
    /\ loop' = [loop EXCEPT !.at = "drain"]
    /\ UNCHANGED <<record, heap, dirty, timer, jobs, excused, busy>> /\ UNCHANGED Others

(* Mutant: a check is due only once its time has passed. *)
Due_Strict == {a \in Auth : heap[a] # None /\ heap[a] < 0}
Due == {a \in Auth : heap[a] = 0}
PopDue ==
    /\ loop.at = "select" /\ timer = 0
    /\ heap' = [a \in Auth |-> IF a \in Due THEN None ELSE heap[a]]
    /\ timer' = None
    /\ loop' = [loop EXCEPT !.at = "due", !.todo = Due]
    /\ busy' = busy \cup Due
    /\ UNCHANGED <<record, dirty, wake, jobs, excused>> /\ UNCHANGED Others

HandleDue(a) ==
    /\ loop.at = "due" /\ a \in loop.todo
    /\ LET next == NextCheck(a, record[a])
           refresh == next # None /\ ShouldRefresh(a, record[a]) /\ a \in executors
       IN /\ loop' = [at |-> IF refresh THEN "mark" ELSE "due", todo |-> loop.todo \ {a},
                      auth |-> IF refresh THEN a ELSE NoAuth]
          /\ heap' = [heap EXCEPT ![a] =
                  IF refresh THEN None
                  ELSE IF next # None /\ ShouldRefresh(a, record[a]) THEN CheckInterval
                  ELSE next]
    /\ UNCHANGED <<record, dirty, wake, timer, jobs, excused, busy>> /\ UNCHANGED Others

(* markRefreshPending looks again: the loop had let go of the lock.        *)
Mark(a) ==
    /\ loop.at = "mark" /\ loop.auth = a
    /\ IF record[a].hold > 0
       THEN /\ loop' = [loop EXCEPT !.at = "again"]
            /\ UNCHANGED <<record, dirty, wake>>
       ELSE /\ record' = [record EXCEPT ![a].hold = PendingBackoff]
            /\ dirty' = dirty \cup {a} /\ wake' = TRUE
            /\ loop' = [loop EXCEPT !.at = "send"]
    /\ UNCHANGED <<heap, timer, jobs, excused, busy>> /\ UNCHANGED Others

HandleAgain(a) ==
    /\ loop.at = "again" /\ loop.auth = a
    /\ Upserted(a)
    /\ loop' = [loop EXCEPT !.at = "due", !.auth = NoAuth]
    /\ UNCHANGED <<record, dirty, wake, timer, jobs, excused, busy>> /\ UNCHANGED Others

(* The loop waits here as long as the channel of jobs is full.             *)
Send(a) ==
    /\ loop.at = "send" /\ loop.auth = a
    /\ Len(jobs) < JobBuffer
    /\ jobs' = Append(jobs, a)
    /\ loop' = [loop EXCEPT !.at = "due", !.auth = NoAuth]
    /\ UNCHANGED <<record, heap, dirty, wake, timer, excused, busy>> /\ UNCHANGED Others

DrainDirty ==
    /\ loop.at = "drain" \/ (loop.at = "due" /\ loop.todo = {})
    /\ loop' = [loop EXCEPT !.at = "dirty", !.todo = dirty]
    /\ dirty' = {}
    /\ UNCHANGED <<record, heap, wake, timer, jobs, excused, busy>> /\ UNCHANGED Others

ApplyDirty(a) ==
    /\ loop.at = "dirty" /\ a \in loop.todo
    /\ Upserted(a)
    /\ loop' = [loop EXCEPT !.todo = @ \ {a}]
    /\ UNCHANGED <<record, dirty, wake, timer, jobs, excused, busy>> /\ UNCHANGED Others

ResetTimer ==
    /\ loop.at = "dirty" /\ loop.todo = {}
    /\ timer' = Soonest(heap)
    /\ loop' = Waiting
    /\ UNCHANGED <<record, heap, dirty, wake, jobs, excused, busy>> /\ UNCHANGED Others

Loop ==
    \/ Rebuild \/ WakeUp \/ DrainDirty \/ ResetTimer
    \/ \E a \in Auth : HandleDue(a) \/ Mark(a) \/ HandleAgain(a) \/ Send(a) \/ ApplyDirty(a)
-----------------------------------------------------------------------------
(* A worker.  Executors stay registered and records stay, so refreshAuth   *)
(* finds both; the receive and the clone are one step.                     *)
Take(w) ==
    /\ worker[w] = IdleWorker /\ jobs # <<>>
    /\ worker' = [worker EXCEPT ![w] = [auth |-> Head(jobs),
                                       expiry |-> record[Head(jobs)].expiry]]
    /\ jobs' = Tail(jobs)
    /\ UNCHANGED <<record, executors, heap, dirty, wake, timer, loop, owed, service,
                   forgotten, excused, busy>>

(* The refresh is over: r is what it leaves, and the worker, like Update   *)
(* and the failure path, asks the loop to look at the credential again.    *)
Finish(w, r) ==
    LET a == worker[w].auth
    IN /\ worker' = [worker EXCEPT ![w] = IdleWorker]
       /\ record' = [record EXCEPT ![a] = r]
       /\ owed' = owed \cup {a}
       /\ excused' = IF InFlight(a) = 1 THEN excused \ {a} ELSE excused
       /\ UNCHANGED <<executors, heap, dirty, wake, timer, loop, jobs, service,
                      forgotten, busy>>

(* The executor's credential replaces the record: the clone with a new     *)
(* token, or with the old one if the refresh changed nothing.              *)
(* Mutant: an ineffective refresh sets no backoff. *)
RefreshSucceeds_NoBackoff(w, e) ==
    LET a == worker[w].auth
    IN /\ a # NoAuth
       /\ e \in Expiries[a] \cup {worker[w].expiry}
       /\ Finish(w, [present |-> TRUE, expiry |-> e, age |-> None, hold |-> 0, refused |-> FALSE])
RefreshSucceeds(w, e) ==
    LET a == worker[w].auth
        r == [present |-> TRUE, expiry |-> e, age |-> IF AgeMatters(a) THEN 0 ELSE None,
              hold |-> 0, refused |-> FALSE]
    IN /\ a # NoAuth
       /\ e \in Expiries[a] \cup {worker[w].expiry}
       /\ Finish(w, [r EXCEPT !.hold =
                        IF ShouldRefresh(a, r) THEN IneffectiveBackoff ELSE 0])
(* Mutant: the backoff after a failure is subtracted from now. *)
RefreshFails_Subtracts(w, unauthorized) ==
    /\ worker[w].auth # NoAuth
    /\ Finish(w, [record[worker[w].auth] EXCEPT
                    !.hold = IF unauthorized THEN 0 ELSE 0 - FailureBackoff,
                    !.refused = unauthorized])
RefreshFails(w, unauthorized) ==
    /\ worker[w].auth # NoAuth
    /\ Finish(w, [record[worker[w].auth] EXCEPT
                    !.hold = IF unauthorized THEN 0 ELSE FailureBackoff,
                    !.refused = unauthorized])
RefreshCancelled(w) ==
    /\ worker[w].auth # NoAuth
    /\ Finish(w, record[worker[w].auth])
EndRefresh(w) ==
    \/ \E e \in UNION {Expiries[a] : a \in Auth} \cup {worker[w].expiry} : RefreshSucceeds(w, e)
    \/ \E unauthorized \in BOOLEAN : RefreshFails(w, unauthorized)
    \/ RefreshCancelled(w)

(* Mutant: the loop is not woken. *)
QueueReschedule_NoWake(a) ==
    /\ a \in owed
    /\ owed' = owed \ {a}
    /\ dirty' = dirty \cup {a}
    /\ forgotten' = forgotten \ {a}
    /\ UNCHANGED <<record, executors, heap, wake, timer, loop, jobs, worker, service,
                   excused, busy>>
QueueReschedule(a) ==
    /\ a \in owed
    /\ owed' = owed \ {a}
    /\ dirty' = dirty \cup {a} /\ wake' = TRUE
    /\ forgotten' = forgotten \ {a}
    /\ UNCHANGED <<record, executors, heap, timer, loop, jobs, worker, service,
                   excused, busy>>
-----------------------------------------------------------------------------
(* Everyone else.  The update loop reads a credential and stores, later,   *)
(* one made from a file, with the refresh times it has read unless either  *)
(* is disabled.  They are stale if the loop has marked it in between.      *)
ServiceReads(a) ==
    /\ service = NoService
    /\ service' = [auth |-> a, hold |-> record[a].hold, age |-> record[a].age]
    /\ UNCHANGED <<record, executors, heap, dirty, wake, timer, loop, jobs, worker,
                   owed, forgotten, excused, busy>>
Stored(a, r, stale) ==
    /\ service.auth = a
    /\ record' = [record EXCEPT ![a] = r]
    /\ excused' = IF stale /\ InFlight(a) > 0 THEN excused \cup {a} ELSE excused
    /\ owed' = owed \cup {a}
    /\ service' = NoService
    /\ busy' = busy \ {a}
    /\ UNCHANGED <<executors, heap, dirty, wake, timer, loop, jobs, worker, forgotten>>
(* Mutant: the times are not taken over from the existing credential. *)
ServiceStores_DropsTimes(a, r, carried) ==
    Stored(a, r, ~carried \/ service.hold < record[a].hold)
ServiceStores(a, r, carried) ==
    Stored(a, IF carried THEN [r EXCEPT !.hold = service.hold, !.age = service.age] ELSE r,
           ~carried \/ service.hold < record[a].hold)

RegisterExecutor(a) ==
    /\ executors' = executors \cup {a}
    /\ busy' = busy \ {a}
    /\ UNCHANGED <<record, heap, dirty, wake, timer, loop, jobs, worker, owed, service,
                   forgotten, excused>>

(* MarkResult records an unauthorized answer, or one that replaces or      *)
(* clears it; neither asks the loop to look again.                         *)
MarkResult(a, unauthorized) ==
    /\ record[a].present /\ record[a].refused # unauthorized
    /\ record' = [record EXCEPT ![a].refused = unauthorized]
    /\ forgotten' = IF unauthorized \/ Tracked(a) THEN forgotten \ {a}
                    ELSE IF NextCheck(a, record'[a]) = None THEN forgotten
                    ELSE forgotten \cup {a}
    /\ busy' = busy \ {a}
    /\ UNCHANGED <<executors, heap, dirty, wake, timer, loop, jobs, worker, owed,
                   service, excused>>

Sooner(t) == IF t > 0 THEN t - 1 ELSE t
Older(t) == IF t = None THEN None ELSE Min({t + 1, MaxAge})
Tick ==
    /\ record' = [a \in Auth |-> [record[a] EXCEPT !.expiry = Sooner(@), !.age = Older(@),
                                                  !.hold = Sooner(@)]]
    /\ heap' = [a \in Auth |-> Sooner(heap[a])]
    /\ timer' = Sooner(timer)
    /\ worker' = [w \in Worker |-> [worker[w] EXCEPT !.expiry = Sooner(@)]]
    /\ service' = [service EXCEPT !.hold = Sooner(@), !.age = Older(@)]
    /\ excused' = excused \cup {a \in Auth : record[a].hold = 1 /\ InFlight(a) > 0}
    /\ busy' = {}
    /\ UNCHANGED <<executors, dirty, wake, loop, jobs, owed, forgotten>>

Next ==
    \/ Loop \/ PopDue \/ Tick
    \/ \E w \in Worker : Take(w) \/ EndRefresh(w)
    \/ \E a \in Auth :
         \/ QueueReschedule(a)
         \/ ServiceReads(a)
         \/ \E r \in Fresh(a), carried \in BOOLEAN : ServiceStores(a, r, carried)
         \/ RegisterExecutor(a)
         \/ \E unauthorized \in BOOLEAN : MarkResult(a, unauthorized)

Spec == Init /\ [][Next]_vars
(* Goroutines that can run do, a refresh comes to an end, and a select     *)
(* with several cases ready chooses any of them again and again.           *)
FairSpec ==
    /\ Spec
    /\ WF_vars(Loop) /\ SF_vars(PopDue) /\ WF_vars(Tick)
    /\ \A w \in Worker : WF_vars(Take(w) \/ EndRefresh(w))
    /\ \A a \in Auth : WF_vars(QueueReschedule(a))
-----------------------------------------------------------------------------
Times == Nat \cup {None}
Ages == {None} \cup 0..MaxAge
Record == [present : BOOLEAN, expiry : Times, age : Ages, hold : Nat, refused : BOOLEAN]
TypeOK ==
    /\ record \in [Auth -> Record]
    /\ executors \subseteq Auth /\ dirty \subseteq Auth /\ owed \subseteq Auth
    /\ heap \in [Auth -> Times] /\ timer \in Times /\ wake \in BOOLEAN
    /\ loop \in [at : {"rebuild", "select", "drain", "dirty", "due", "mark", "again", "send"},
                 todo : SUBSET Auth, auth : Auth \cup {NoAuth}]
    /\ (loop.auth # NoAuth) <=> (loop.at \in {"mark", "again", "send"})
    /\ jobs \in Seq(Auth) /\ Len(jobs) <= JobBuffer
    /\ worker \in [Worker -> [auth : Auth \cup {NoAuth}, expiry : Times]]
    /\ service \in [auth : Auth \cup {NoAuth}, hold : Nat, age : Ages]
    /\ forgotten \cup excused \cup busy \subseteq Auth

(* No wake-up is lost.  While the loop waits, every credential that has a  *)
(* next check is looked at by then (CheckInterval later if its executor    *)
(* was missing), unless someone is about to queue its reschedule (a        *)
(* refresh in flight is, too), the channel holds a wake-up for it, or it   *)
(* is forgotten: MarkResult made it refreshable again after the loop had   *)
(* dropped it.                                                             *)
LooksInTime ==
    loop.at = "select" =>
        \A a \in Auth :
            (NextCheck(a, record[a]) # None /\ a \notin owed \cup forgotten /\ InFlight(a) = 0) =>
            \/ a \in dirty /\ wake
            \/ /\ a \notin dirty /\ heap[a] # None
               /\ timer # None /\ timer <= heap[a]
               /\ heap[a] <= NextCheck(a, record[a]) + CheckInterval

(* The loop does not spin: it handles no credential that has an executor   *)
(* as due twice at one instant, whatever became of its refresh in between, *)
(* unless the service has stored another or a result has been recorded     *)
(* that changes whether it is refused (refreshIneffectiveBackoff is there  *)
(* for this).                                                              *)
NoTightLoop == [][PopDue => Due \cap busy \cap executors = {}]_vars

(* A refresh token is not spent twice at a time: jobs and workers hold a   *)
(* credential at most once, unless its refresh has outlasted the pending   *)
(* backoff or the service has stored it with times it had read before the  *)
(* mark, or with none because it was or is disabled.                       *)
OneRefreshAtATime == \A a \in Auth : a \in excused \/ InFlight(a) <= 1

(* A credential that should be refreshed, and has an executor, is sooner   *)
(* or later taken care of, unless it is forgotten.                         *)
NeedsRefresh(a) ==
    a \notin ApiKey /\ a \in executors /\ ShouldRefresh(a, record[a])
DueIsRefreshed ==
    \A a \in Auth : NeedsRefresh(a) ~> (~NeedsRefresh(a) \/ a \in forgotten)

(* StartAutoRefresh "evaluates auth freshness every few seconds and        *)
(* triggers refresh operations when required": always.                     *)
AlwaysRefreshed == \A a \in Auth : NeedsRefresh(a) ~> ~NeedsRefresh(a)
=============================================================================
