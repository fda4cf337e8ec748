----------------------- MODULE RequestExecution_proofs -----------------------
(***************************************************************************)
(* Proofs about RequestExecution and AuthResult: their type invariant,     *)
(* that a credential's aggregate agrees with the states of its models,     *)
(* that a request's work is bounded, that one model's results leave the    *)
(* others alone, that a preparation undoes no result but those that came   *)
(* meanwhile, and that a request an upstream blames is given up.           *)
(***************************************************************************)
EXTENDS RequestExecution, FiniteSetTheorems, SequenceTheorems, WellFoundedInduction, TLAPS

-----------------------------------------------------------------------------
(* The inductive invariant. *)

(* A credential's record with the given states of its models. *)
AuthRecord(states) ==
  [disabled: BOOLEAN, status: {"active", "error", "disabled"}, unavailable: BOOLEAN,
   nextRetryAfter: TimeValue, lastError: Failure \cup {"none"}, quota: Quota,
   coolingDisabled: BOOLEAN, states: {states}]

(* A model's state is clean or holds an error, and its backoff level is the *)
(* first whose cooldown reaches the ceiling at most.                        *)
StateFits(s) ==
  /\ s = CleanState \/ s.lastError # "none"
  /\ s.quota.backoffLevel > 0 => QuotaBackoffBase * 2^(s.quota.backoffLevel - 1) < QuotaBackoffMax
StatesFit(states) ==
  /\ DOMAIN states \subseteq Model /\ IsFiniteSet(DOMAIN states)
  /\ states \in [DOMAIN states -> ModelState]
  /\ \A m \in DOMAIN states : StateFits(states[m])

(* An unavailable credential has no model that can be used before its own   *)
(* time, and one that can be at that time; and it has one to use otherwise. *)
Aggregated(auth) ==
  IF auth.unavailable
  THEN /\ \A m \in DOMAIN auth.states :
            auth.states[m].unavailable /\ auth.nextRetryAfter <= auth.states[m].nextRetryAfter
       /\ \E m \in DOMAIN auth.states : auth.nextRetryAfter = auth.states[m].nextRetryAfter
  ELSE DOMAIN auth.states = {} \/ \E m \in DOMAIN auth.states : ~ModelBlocked(auth, m, 0)
QuotaAgrees(auth) ==
  auth.quota.exceeded <=> \E m \in DOMAIN auth.states : auth.states[m].quota.exceeded
ActiveIsClean(auth) ==
  auth.status = "active" =>
    auth.lastError = "none" /\ \A m \in DOMAIN auth.states : auth.states[m] = CleanState

WellFormed(auth) ==
  /\ auth \in AuthRecord(auth.states)
  /\ ~AuthDisabled(auth)
  /\ StatesFit(auth.states)
Coherent(auth) ==
  /\ WellFormed(auth)
  /\ Aggregated(auth)
  /\ QuotaAgrees(auth)
  /\ ActiveIsClean(auth)
  /\ DOMAIN auth.states = {} => auth.status = "active"

(* A credential stored by a preparation that its first results overtook:    *)
(* what it says against its models is true.                                 *)
Overtaken(auth) ==
  /\ WellFormed(auth)
  /\ auth.unavailable => Aggregated(auth)
  /\ auth.quota.exceeded => QuotaAgrees(auth)
  /\ auth.lastError = "none" /\ ShownClean(auth)

(* How long a model is still blocked. *)
Remaining(auth, m) == IF ModelBlocked(auth, m, 0) THEN auth.states[m].nextRetryAfter ELSE 0

(* The copy a preparation works on agrees with the record but for the       *)
(* models whose results came since it was taken, and only one preparation   *)
(* of a credential is under way.                                            *)
CopyTyped(c) == c = [auth |-> c.auth, since |-> c.since] /\ c.since \subseteq Model /\ Coherent(c.auth)
CopyFits(r) ==
  req[r].pc = "preparing" =>
    /\ req[r].auth \notin prepared
    /\ \A m \in Model \ copies[r].since :
         Remaining(copies[r].auth, m) = Remaining(auths[req[r].auth], m)
Alone(r) ==
  \A x \in Request :
    req[r].pc = "preparing" /\ req[x].pc = "preparing" /\ req[x].auth = req[r].auth => x = r
PreparationsFit ==
  /\ prepared \subseteq Preparing /\ stale \subseteq prepared
  /\ DOMAIN copies = Request
  /\ \A r \in Request : CopyTyped(copies[r]) /\ CopyFits(r) /\ Alone(r)

(* A request: its picks are the credentials it tried, every round but the   *)
(* first was paid for with a retry some credential allows, and what waits   *)
(* was allowed one more.                                                    *)
MayRetry(n) == \E a \in Auth : n < Retries[a]
MayHaveRetried(n) == \E a \in Auth : n <= Retries[a]
WaitFits(q) ==
  IF q.pc = "wait"
  THEN q.waited <= (q.attempt + 1) * MaxWait /\ MayRetry(q.attempt)
  ELSE q.waited <= q.attempt * MaxWait /\ MayHaveRetried(q.attempt)
RequestFits(q) ==
  /\ q \in RequestRecord
  /\ q.pc \in {"prepare", "preparing", "call", "relay"} => q.models # <<>>
  /\ q.pc \in {"prepare", "preparing"} => q.auth \in Preparing
  /\ q.pc = "unprepared" => q.lastErr.kind \in Failure
  /\ q.picks = Cardinality(q.tried)
  /\ q.faulted => q.pc = "decide" /\ IsRequestInvalid(q.lastErr.kind)
  /\ WaitFits(q)

IInv ==
  /\ DOMAIN auths = Auth
  /\ \A a \in Auth : IF a \in stale THEN Overtaken(auths[a]) ELSE Coherent(auths[a])
  /\ offsets \in [Auth -> [Model -> Nat]]
  /\ req \in [Request -> RequestRecord] /\ \A r \in Request : RequestFits(req[r])
  /\ PreparationsFit
-----------------------------------------------------------------------------
(* Minima and maxima. *)

LEMMA LeastNumber ==
  ASSUME NEW T \in SUBSET Nat, T # {}
  PROVE  \E x \in T : \A y \in T : x <= y
<1> DEFINE R == {ss \in Nat \X Nat : ss[1] < ss[2]}
<1>1. IsWellFoundedOn(R, Nat)
  BY NatLessThanWellFounded DEF OpToRel
<1> HIDE DEF R
<1>2. PICK x \in T : \A y \in T : ~(<<y, x>> \in R)
  BY <1>1, WFMin, Zenon
<1>3. ASSUME NEW y \in T PROVE x <= y
  <2>1. y \in Nat /\ x \in Nat
    OBVIOUS
  <2>2. <<y, x>> \in Nat \X Nat /\ <<y, x>>[1] = y /\ <<y, x>>[2] = x
    BY <2>1
  <2>3. ~(y < x)
    BY <1>2, <2>2 DEF R
  <2> QED
    BY <2>1, <2>3, SMT
<1> QED
  BY <1>3

LEMMA MinIs ==
  ASSUME NEW T \in SUBSET Nat, T # {}
  PROVE  Min(T) \in T /\ \A y \in T : Min(T) <= y
  BY LeastNumber DEF Min

LEMMA MinOfTwo ==
  ASSUME NEW i \in Nat, NEW j \in Nat
  PROVE  Min({i, j}) = IF i <= j THEN i ELSE j
<1>1. Min({i, j}) \in {i, j} /\ \A y \in {i, j} : Min({i, j}) <= y
  BY MinIs
<1> QED
  BY <1>1

(* A finite set of numbers has a greatest element: the least number of      *)
(* elements a set without one could have is none at all.                    *)
LEMMA MaxIs ==
  ASSUME NEW T \in SUBSET Nat, T # {}, IsFiniteSet(T)
  PROVE  Max(T) \in T /\ \A y \in T : Max(T) >= y
<1> DEFINE HasMax(S) == \E x \in S : \A y \in S : x >= y
           Bad == {n \in Nat : \E S \in SUBSET T : S # {} /\ Cardinality(S) = n /\ ~HasMax(S)}
<1>1. Bad = {}
  <2> SUFFICES ASSUME Bad # {} PROVE FALSE
    OBVIOUS
  <2>1. PICK n \in Bad : \A k \in Bad : n <= k
    <3>1. Bad \in SUBSET Nat
      OBVIOUS
    <3> HIDE DEF Bad
    <3> QED
      BY <3>1, LeastNumber
  <2>2. PICK S \in SUBSET T : S # {} /\ Cardinality(S) = n /\ ~HasMax(S)
    OBVIOUS
  <2>3. PICK x \in S : TRUE
    BY <2>2
  <2>4. IsFiniteSet(S) /\ n \in Nat
    BY FS_Subset
  <2>5. Cardinality(S \ {x}) = n - 1 /\ Cardinality(S \ {x}) \in Nat
    BY <2>2, <2>4, FS_RemoveElement, FS_CardinalityType
  <2>6. HasMax(S \ {x}) \/ S \ {x} = {}
    <3> SUFFICES ASSUME S \ {x} # {}, ~HasMax(S \ {x}) PROVE FALSE
      OBVIOUS
    <3>1. n - 1 \in Bad
      BY <2>5
    <3> HIDE DEF Bad
    <3> QED
      BY <2>1, <2>4, <3>1
  <2>7. x \in Nat /\ \A y \in S : y \in Nat
    OBVIOUS
  <2>8. CASE S \ {x} = {}
    BY <2>2, <2>7, <2>8
  <2>9. CASE HasMax(S \ {x})
    <3>1. PICK z \in S \ {x} : \A y \in S \ {x} : z >= y
      BY <2>9
    <3>2. \A y \in S : y = x \/ z >= y
      BY <3>1
    <3>3. CASE z >= x
      BY <2>2, <3>1, <3>2, <3>3
    <3>4. CASE x >= z
      <4>1. \A y \in S : x >= y
        BY <2>7, <3>2, <3>4
      <4> QED
        BY <2>2, <4>1
    <3> QED
      BY <2>7, <3>3, <3>4
  <2> QED
    BY <2>6, <2>8, <2>9
<1>2. Cardinality(T) \in Nat /\ Cardinality(T) \notin Bad
  BY <1>1, FS_CardinalityType
<1>3. HasMax(T)
  BY <1>2
<1> QED
  BY <1>3 DEF Max
LEMMA ImageIsFinite ==
  ASSUME NEW S, IsFiniteSet(S), NEW f, f = [x \in S |-> f[x]]
  PROVE  IsFiniteSet({f[x] : x \in S})
<1> DEFINE T == {f[x] : x \in S}
<1>1. f \in Surjection(S, T)
  BY DEF Surjection
<1> HIDE DEF T
<1>2. IsFiniteSet(T)
  BY <1>1, FS_Surjection
<1> QED
  BY <1>2 DEF T

-----------------------------------------------------------------------------
(* What a result does to a credential. *)

StateBlocked(s) == s.unavailable /\ s.nextRetryAfter > 0

LEMMA ModelBlockedIs ==
  ASSUME NEW auth, NEW m
  PROVE  ModelBlocked(auth, m, 0) <=> m \in DOMAIN auth.states /\ StateBlocked(auth.states[m])
  BY DEF ModelBlocked, StateBlocked

LEMMA CleanStateIs ==
  /\ CleanState \in ModelState /\ StateFits(CleanState)
  /\ ~CleanState.unavailable /\ ~StateBlocked(CleanState)
  /\ CleanState.lastError = "none" /\ ~CleanState.quota.exceeded /\ CleanState.quota.backoffLevel = 0
  /\ CleanState.nextRetryAfter = ZeroTime
<1>1. NoQuota \in Quota
  BY DEF NoQuota, Quota, TimeValue, ZeroTime
<1>2. CleanState \in ModelState
  BY <1>1 DEF CleanState, ModelState, TimeValue, ZeroTime
<1> QED
  BY <1>2 DEF CleanState, NoQuota, StateFits, StateBlocked

LEMMA StateType ==
  ASSUME NEW s \in ModelState
  PROVE  /\ s.status \in {"active", "error"} /\ s.unavailable \in BOOLEAN
         /\ s.nextRetryAfter \in TimeValue /\ s.nextRetryAfter \in Int /\ s.nextRetryAfter >= -1
         /\ s.lastError \in Failure \cup {"none"}
         /\ s.quota \in Quota /\ s.quota.exceeded \in BOOLEAN /\ s.quota.backoffLevel \in Nat
         /\ s.quota.nextRecoverAt \in TimeValue
         /\ s.quota.nextRecoverAt \in Int /\ s.quota.nextRecoverAt >= -1
  BY DEF ModelState, Quota, TimeValue, ZeroTime

(* A state whose retry time has come is made available again, and keeps     *)
(* its error.                                                               *)
LEMMA ReleasedIs ==
  ASSUME NEW states, StatesFit(states)
  PROVE  LET new == Released(states, 0)
         IN  /\ DOMAIN new = DOMAIN states /\ StatesFit(new)
             /\ \A m \in DOMAIN states :
                  /\ StateBlocked(new[m]) <=> StateBlocked(states[m])
                  /\ StateBlocked(states[m]) => new[m] = states[m]
                  /\ new[m].quota = states[m].quota
                  /\ new[m].lastError = states[m].lastError
                  /\ states[m] = CleanState => new[m] = CleanState
<1> DEFINE new == Released(states, 0)
<1>1. DOMAIN new = DOMAIN states
  BY DEF Released
<1>2. ASSUME NEW m \in DOMAIN states
      PROVE  /\ new[m] \in ModelState /\ StateFits(new[m])
             /\ StateBlocked(new[m]) <=> StateBlocked(states[m])
             /\ StateBlocked(states[m]) => new[m] = states[m]
             /\ new[m].quota = states[m].quota
             /\ new[m].lastError = states[m].lastError
             /\ states[m] = CleanState => new[m] = CleanState
  <2> DEFINE s == states[m]
             r == [s EXCEPT !.unavailable = FALSE, !.nextRetryAfter = ZeroTime]
             due == s.unavailable /\ s.nextRetryAfter \in 0 .. 0
  <2>1. new[m] = IF due THEN r ELSE s
    BY DEF Released
  <2>2. s \in ModelState /\ StateFits(s)
    BY DEF StatesFit
  <2> HIDE DEF s
  <2>3. s.nextRetryAfter \in Int /\ (due => s.nextRetryAfter = 0 /\ s # CleanState /\ ~StateBlocked(s))
    BY <2>2, StateType, CleanStateIs DEF StateBlocked
  <2>4. /\ r \in ModelState /\ r.quota = s.quota /\ r.lastError = s.lastError
        /\ r.unavailable = FALSE
    BY <2>2 DEF ModelState, TimeValue
  <2>5. ~StateBlocked(r)
    BY <2>4 DEF StateBlocked
  <2>6. due => StateFits(r)
    BY <2>2, <2>3, <2>4 DEF StateFits
  <2>7. CASE due
    <3> HIDE DEF r, due
    <3> QED
      BY <2>1, <2>3, <2>4, <2>5, <2>6, <2>7 DEF s
  <2>8. CASE ~due
    <3> HIDE DEF r, due
    <3> QED
      BY <2>1, <2>2, <2>8 DEF s
  <2> QED
    BY <2>7, <2>8
<1>3. new = [m \in DOMAIN states |-> new[m]]
  BY <1>1 DEF Released
<1> HIDE DEF new
<1>4. new \in [DOMAIN new -> ModelState]
  BY <1>1, <1>2, <1>3
<1>5. StatesFit(new)
  BY <1>1, <1>2, <1>4 DEF StatesFit
<1> QED
  BY <1>1, <1>2, <1>5 DEF new

LEMMA AggregateQuotaIs ==
  ASSUME NEW states, StatesFit(states)
  PROVE  /\ AggregateQuota(states) \in Quota
         /\ AggregateQuota(states).exceeded <=> \E m \in DOMAIN states : states[m].quota.exceeded
<1> DEFINE exceeded == {m \in DOMAIN states : states[m].quota.exceeded}
           recovers == {states[m].quota.nextRecoverAt : m \in exceeded} \ {ZeroTime}
           levels == {states[m].quota.backoffLevel : m \in exceeded}
           next == IF recovers = {} THEN ZeroTime ELSE Min(recovers)
           sum == [exceeded |-> TRUE, nextRecoverAt |-> next, backoffLevel |-> Max(levels)]
<1>1. AggregateQuota(states) = IF exceeded = {} THEN NoQuota ELSE sum
  BY DEF AggregateQuota
<1>2. \A m \in DOMAIN states : states[m] \in ModelState
  BY DEF StatesFit
<1>3. \A m \in DOMAIN states :
         states[m].quota.backoffLevel \in Nat /\ states[m].quota.nextRecoverAt \in TimeValue
  BY <1>2, StateType
<1>4. next \in TimeValue
  <2>1. recovers \in SUBSET Nat
    BY <1>3 DEF TimeValue
  <2> HIDE DEF recovers
  <2> QED
    BY <2>1, MinIs DEF TimeValue
<1>5. exceeded # {} => Max(levels) \in Nat
  <2>1. IsFiniteSet(exceeded)
    BY FS_Subset DEF StatesFit
  <2> DEFINE f == [m \in exceeded |-> states[m].quota.backoffLevel]
  <2>2. IsFiniteSet(levels)
    <3>1. levels = {f[m] : m \in exceeded}
      OBVIOUS
    <3>2. f = [m \in exceeded |-> f[m]]
      OBVIOUS
    <3> HIDE DEF f, exceeded, levels
    <3> QED
      BY <2>1, <3>1, <3>2, ImageIsFinite
  <2>3. levels \in SUBSET Nat /\ (exceeded # {} => levels # {})
    BY <1>3
  <2> HIDE DEF levels
  <2> QED
    BY <2>2, <2>3, MaxIs
<1>6. NoQuota \in Quota /\ ~NoQuota.exceeded
  BY DEF NoQuota, Quota, TimeValue, ZeroTime
<1> HIDE DEF next, levels
<1>7. exceeded # {} => sum \in Quota /\ sum.exceeded
  BY <1>4, <1>5 DEF Quota
<1> HIDE DEF sum
<1> QED
  BY <1>1, <1>6, <1>7
(* The fields of a credential that a result changes one by one. *)
LEMMA AuthFields ==
  ASSUME NEW auth, auth \in AuthRecord(auth.states)
  PROVE  /\ auth.disabled \in BOOLEAN /\ auth.status \in {"active", "error", "disabled"}
         /\ auth.unavailable \in BOOLEAN /\ auth.nextRetryAfter \in TimeValue
         /\ auth.lastError \in Failure \cup {"none"} /\ auth.quota \in Quota
         /\ auth.coolingDisabled \in BOOLEAN
  BY DEF AuthRecord

(* The credential keeps everything else when its states are replaced. *)
LEMMA StatesReplaced ==
  ASSUME NEW auth, auth \in AuthRecord(auth.states), NEW new
  PROVE  LET u == [auth EXCEPT !.states = new]
         IN  /\ u \in AuthRecord(u.states) /\ u.states = new
             /\ u.disabled = auth.disabled /\ u.status = auth.status
             /\ u.lastError = auth.lastError /\ u.coolingDisabled = auth.coolingDisabled
             /\ u.unavailable = auth.unavailable /\ u.nextRetryAfter = auth.nextRetryAfter
             /\ u.quota = auth.quota
  BY DEF AuthRecord

LEMMA QuotaReplaced ==
  ASSUME NEW auth, auth \in AuthRecord(auth.states), NEW q \in Quota
  PROVE  LET u == [auth EXCEPT !.quota = q]
         IN  /\ u \in AuthRecord(u.states) /\ u.states = auth.states
             /\ u.disabled = auth.disabled /\ u.status = auth.status
             /\ u.lastError = auth.lastError /\ u.coolingDisabled = auth.coolingDisabled
             /\ u.quota = q
             /\ u.unavailable = auth.unavailable /\ u.nextRetryAfter = auth.nextRetryAfter
  BY DEF AuthRecord

LEMMA UnavailableReplaced ==
  ASSUME NEW auth, auth \in AuthRecord(auth.states), NEW w \in BOOLEAN
  PROVE  LET u == [auth EXCEPT !.unavailable = w]
         IN  /\ u \in AuthRecord(u.states) /\ u.states = auth.states
             /\ u.disabled = auth.disabled /\ u.status = auth.status
             /\ u.lastError = auth.lastError /\ u.coolingDisabled = auth.coolingDisabled
             /\ u.quota = auth.quota
             /\ u.unavailable = w /\ u.nextRetryAfter = auth.nextRetryAfter
  BY DEF AuthRecord

LEMMA RetryReplaced ==
  ASSUME NEW auth, auth \in AuthRecord(auth.states), NEW t \in TimeValue
  PROVE  LET u == [auth EXCEPT !.nextRetryAfter = t]
         IN  /\ u \in AuthRecord(u.states) /\ u.states = auth.states
             /\ u.disabled = auth.disabled /\ u.status = auth.status
             /\ u.lastError = auth.lastError /\ u.coolingDisabled = auth.coolingDisabled
             /\ u.quota = auth.quota
             /\ u.unavailable = auth.unavailable /\ u.nextRetryAfter = t
  BY DEF AuthRecord

(* The aggregate agrees with the states, of which only those due are       *)
(* touched.                                                                *)
LEMMA UpdateIs ==
  ASSUME NEW auth, auth \in AuthRecord(auth.states), StatesFit(auth.states)
  PROVE  LET u == UpdateAggregatedAvailability(auth, 0)
         IN  /\ u \in AuthRecord(u.states) /\ u.states = Released(auth.states, 0)
             /\ u.disabled = auth.disabled /\ u.status = auth.status
             /\ u.lastError = auth.lastError /\ u.coolingDisabled = auth.coolingDisabled
             /\ StatesFit(u.states) /\ Aggregated(u) /\ QuotaAgrees(u)
<1> DEFINE states == auth.states
           new == Released(states, 0)
           blocked == {m \in DOMAIN states : ModelBlocked(auth, m, 0)}
           whole == DOMAIN states # {} /\ blocked = DOMAIN states
           times == {states[m].nextRetryAfter : m \in blocked}
           next == IF whole THEN Min(times) ELSE ZeroTime
           sum == AggregateQuota(states)
           v1 == [auth EXCEPT !.states = new]
           v2 == [v1 EXCEPT !.quota = sum]
           v3 == [v2 EXCEPT !.unavailable = whole]
           u == [v3 EXCEPT !.nextRetryAfter = next]
<1>1. UpdateAggregatedAvailability(auth, 0) = u
  BY DEF UpdateAggregatedAvailability
<1>2. /\ DOMAIN new = DOMAIN states /\ StatesFit(new)
      /\ \A m \in DOMAIN states :
           /\ StateBlocked(new[m]) <=> StateBlocked(states[m])
           /\ StateBlocked(states[m]) => new[m] = states[m]
           /\ new[m].quota = states[m].quota
  BY ReleasedIs
<1>3. sum \in Quota /\ (sum.exceeded <=> \E m \in DOMAIN states : states[m].quota.exceeded)
  BY AggregateQuotaIs
<1>4. blocked = {m \in DOMAIN states : StateBlocked(states[m])}
  BY ModelBlockedIs
<1>5. whole => Min(times) \in times /\ Min(times) \in Nat /\ \A y \in times : Min(times) <= y
  <2>1. ASSUME NEW m \in blocked PROVE states[m].nextRetryAfter \in Nat
    <3>1. states[m] \in ModelState /\ states[m].nextRetryAfter > 0
      BY <1>4 DEF StatesFit, StateBlocked
    <3> QED
      BY <3>1, StateType
  <2>2. times \in SUBSET Nat
    BY <2>1
  <2>3. whole => times # {}
    OBVIOUS
  <2> HIDE DEF times
  <2>4. ASSUME whole PROVE Min(times) \in times /\ \A y \in times : Min(times) <= y
    BY <2>2, <2>3, <2>4, MinIs
  <2> QED
    BY <2>2, <2>4
<1>6. next \in TimeValue /\ whole \in BOOLEAN
  BY <1>5 DEF TimeValue, ZeroTime
<1>7. /\ v1 \in AuthRecord(v1.states) /\ v1.states = new
      /\ v1.disabled = auth.disabled /\ v1.status = auth.status
      /\ v1.lastError = auth.lastError /\ v1.coolingDisabled = auth.coolingDisabled
  <2> HIDE DEF new
  <2> QED
    BY StatesReplaced
<1> HIDE DEF v1
<1>8. /\ v2 \in AuthRecord(v2.states) /\ v2.states = new /\ v2.quota = sum
      /\ v2.disabled = auth.disabled /\ v2.status = auth.status
      /\ v2.lastError = auth.lastError /\ v2.coolingDisabled = auth.coolingDisabled
  <2> HIDE DEF new, sum
  <2> QED
    BY <1>3, <1>7, QuotaReplaced
<1> HIDE DEF v2
<1>9. /\ v3 \in AuthRecord(v3.states) /\ v3.states = new /\ v3.quota = sum
      /\ v3.disabled = auth.disabled /\ v3.status = auth.status
      /\ v3.lastError = auth.lastError /\ v3.coolingDisabled = auth.coolingDisabled
      /\ v3.unavailable = whole
  <2> HIDE DEF new, sum, whole
  <2> QED
    BY <1>6, <1>8, UnavailableReplaced
<1> HIDE DEF v3
<1>13. /\ u \in AuthRecord(u.states) /\ u.states = new /\ u.quota = sum
       /\ u.disabled = auth.disabled /\ u.status = auth.status
       /\ u.lastError = auth.lastError /\ u.coolingDisabled = auth.coolingDisabled
       /\ u.unavailable = whole /\ u.nextRetryAfter = next
  <2> HIDE DEF new, sum, next, whole
  <2> QED
    BY <1>6, <1>9, RetryReplaced
<1> HIDE DEF u, new, sum
<1>10. QuotaAgrees(u)
  BY <1>2, <1>3, <1>13 DEF QuotaAgrees
<1>11. Aggregated(u)
  <2>1. CASE whole
    <3>1. \A m \in DOMAIN states : StateBlocked(states[m]) /\ new[m] = states[m]
      BY <1>2, <1>4, <2>1
    <3>2. \A m \in DOMAIN states : states[m].nextRetryAfter \in times
      BY <2>1
    <3>3. u.nextRetryAfter = Min(times) /\ u.unavailable
      BY <1>13, <2>1
    <3>4. \E m \in DOMAIN states : states[m].nextRetryAfter = Min(times)
      BY <1>5, <2>1
    <3>5. \A m \in DOMAIN states : Min(times) <= states[m].nextRetryAfter
      BY <1>5, <2>1, <3>2
    <3> HIDE DEF times, whole
    <3> QED
      BY <1>2, <1>13, <3>1, <3>3, <3>4, <3>5 DEF Aggregated, StateBlocked
  <2>2. CASE ~whole
    <3>1. DOMAIN states = {} \/ \E m \in DOMAIN states : ~StateBlocked(states[m])
      BY <1>4, <2>2
    <3>2. DOMAIN states = {} \/ \E m \in DOMAIN states : ~StateBlocked(new[m])
      BY <1>2, <3>1
    <3>3. ~u.unavailable
      BY <1>13, <2>2
    <3> QED
      BY <1>2, <1>13, <3>2, <3>3, ModelBlockedIs DEF Aggregated
  <2> QED
    BY <2>1, <2>2
<1>12. u.states = Released(auth.states, 0) /\ StatesFit(u.states)
  BY <1>2, <1>13 DEF new
<1> QED
  BY <1>1, <1>13, <1>10, <1>11, <1>12
LEMMA WithStateIs ==
  ASSUME NEW auth, auth \in AuthRecord(auth.states), StatesFit(auth.states),
         NEW m \in Model, NEW s \in ModelState, StateFits(s)
  PROVE  LET w == WithState(auth, m, s)
         IN  /\ w \in AuthRecord(w.states) /\ StatesFit(w.states)
             /\ w.states = [n \in DOMAIN auth.states \cup {m} |-> IF n = m THEN s ELSE auth.states[n]]
             /\ w.disabled = auth.disabled /\ w.status = auth.status
             /\ w.lastError = auth.lastError /\ w.coolingDisabled = auth.coolingDisabled
<1> DEFINE new == [n \in DOMAIN auth.states \cup {m} |-> IF n = m THEN s ELSE auth.states[n]]
<1>1. WithState(auth, m, s) = [auth EXCEPT !.states = new]
  BY DEF WithState, AuthRecord
<1>2. DOMAIN new = DOMAIN auth.states \cup {m}
  OBVIOUS
<1>3. IsFiniteSet(DOMAIN new) /\ DOMAIN new \subseteq Model
  BY <1>2, FS_AddElement DEF StatesFit
<1>4. \A n \in DOMAIN new : new[n] \in ModelState /\ StateFits(new[n])
  BY DEF StatesFit
<1>5. new \in [DOMAIN new -> ModelState]
  BY <1>4
<1>6. StatesFit(new)
  BY <1>3, <1>4, <1>5 DEF StatesFit
<1> HIDE DEF new
<1>7. LET w == [auth EXCEPT !.states = new]
      IN  /\ w \in AuthRecord(w.states) /\ w.states = new
          /\ w.disabled = auth.disabled /\ w.status = auth.status
          /\ w.lastError = auth.lastError /\ w.coolingDisabled = auth.coolingDisabled
  BY StatesReplaced
<1>8. new = [n \in DOMAIN auth.states \cup {m} |-> IF n = m THEN s ELSE auth.states[n]]
  BY DEF new
<1> QED
  BY <1>1, <1>6, <1>7, <1>8

(* The backoff level grows only while its cooldown is below the ceiling. *)
LEMMA BackoffIs ==
  ASSUME NEW level \in Nat,
         level > 0 => QuotaBackoffBase * 2^(level - 1) < QuotaBackoffMax
  PROVE  LET next == NextBackoffLevel(level)
         IN  /\ next \in Nat /\ (next > 0 => QuotaBackoffBase * 2^(next - 1) < QuotaBackoffMax)
             /\ QuotaCooldown(level) \in Nat
<1> DEFINE x == QuotaBackoffBase * 2^level
           y == Backoff(level)
<1>1. 2^level \in Int
  OBVIOUS
<1>2. QuotaBackoffBase \in Nat /\ QuotaBackoffMax \in Nat
  BY CooldownsArePositive
<1>3. x \in Int
  BY <1>1, <1>2
<1>4. x <= y /\ y \in Nat
  <2> HIDE DEF x
  <2>1. PICK z \in {x, QuotaBackoffBase} : \A w \in {x, QuotaBackoffBase} : z >= w
    BY <1>2, <1>3
  <2>2. Max({x, QuotaBackoffBase}) \in {x, QuotaBackoffBase}
        /\ \A w \in {x, QuotaBackoffBase} : Max({x, QuotaBackoffBase}) >= w
    BY <2>1 DEF Max
  <2>3. y = Max({x, QuotaBackoffBase})
    BY DEF Backoff, x
  <2> HIDE DEF y
  <2> QED
    BY <1>2, <1>3, <2>2, <2>3
<1>5. (level + 1) - 1 = level
  OBVIOUS
<1>6. NextBackoffLevel(level) = IF y >= QuotaBackoffMax THEN level ELSE level + 1
  BY DEF NextBackoffLevel
<1>7. QuotaCooldown(level) \in Nat
  <2> HIDE DEF y
  <2>1. Min({y, QuotaBackoffMax}) \in Nat
    BY <1>2, <1>4, MinOfTwo
  <2> QED
    BY <2>1 DEF QuotaCooldown, y
<1> HIDE DEF y
<1>8. CASE y >= QuotaBackoffMax
  BY <1>6, <1>7, <1>8
<1>9. CASE y < QuotaBackoffMax
  <2>1. NextBackoffLevel(level) = level + 1
    BY <1>2, <1>4, <1>6, <1>9
  <2>2. QuotaBackoffBase * 2^((level + 1) - 1) = x
    BY <1>5
  <2>3. x < QuotaBackoffMax
    BY <1>2, <1>3, <1>4, <1>9
  <2> QED
    BY <1>7, <2>1, <2>2, <2>3
<1> QED
  BY <1>2, <1>4, <1>8, <1>9

LEMMA QuotaStateIs ==
  ASSUME NEW auth, auth.coolingDisabled \in BOOLEAN, NEW s \in ModelState, StateFits(s),
         NEW retryAfter \in TimeValue
  PROVE  LET q == QuotaState(auth, s, retryAfter, 0)
         IN  /\ q \in Quota
             /\ q.nextRecoverAt \in TimeValue
             /\ q.backoffLevel > 0 => QuotaBackoffBase * 2^(q.backoffLevel - 1) < QuotaBackoffMax
<1> DEFINE level == s.quota.backoffLevel
           q1 == [exceeded |-> TRUE, nextRecoverAt |-> ZeroTime, backoffLevel |-> level]
           q2 == [exceeded |-> TRUE, nextRecoverAt |-> 0 + retryAfter, backoffLevel |-> level]
           q3 == [exceeded |-> TRUE, nextRecoverAt |-> 0 + QuotaCooldown(level),
                  backoffLevel |-> NextBackoffLevel(level)]
           Bounded(l) == l > 0 => QuotaBackoffBase * 2^(l - 1) < QuotaBackoffMax
<1>1. level \in Nat /\ Bounded(level)
  BY StateType DEF StateFits
<1>2. NextBackoffLevel(level) \in Nat /\ Bounded(NextBackoffLevel(level)) /\ QuotaCooldown(level) \in Nat
  BY <1>1, BackoffIs
<1> HIDE DEF Bounded, level
<1>3. q1 \in Quota /\ q1.backoffLevel = level
  BY <1>1 DEF Quota, TimeValue
<1>4. q2 \in Quota /\ q2.backoffLevel = level
  <2>1. 0 + retryAfter \in TimeValue
    BY DEF TimeValue, ZeroTime
  <2> QED
    BY <1>1, <2>1 DEF Quota
<1>5. q3 \in Quota /\ q3.backoffLevel = NextBackoffLevel(level)
  <2>1. 0 + QuotaCooldown(level) \in TimeValue
    BY <1>2 DEF TimeValue
  <2> QED
    BY <1>2, <2>1 DEF Quota
<1>6. QuotaState(auth, s, retryAfter, 0) \in {q1, q2, q3}
  BY DEF QuotaState, level
<1> HIDE DEF q1, q2, q3
<1>7. LET q == QuotaState(auth, s, retryAfter, 0) IN q \in Quota /\ Bounded(q.backoffLevel)
  BY <1>1, <1>2, <1>3, <1>4, <1>5, <1>6
<1> QED
  BY <1>7 DEF Bounded, Quota

LEMMA FailedStateIs ==
  ASSUME NEW auth, auth.coolingDisabled \in BOOLEAN, NEW s \in ModelState, StateFits(s),
         NEW kind \in Failure, NEW retryAfter \in TimeValue
  PROVE  LET f == FailedState(auth, s, kind, retryAfter, 0)
         IN  f \in ModelState /\ StateFits(f) /\ f.lastError = kind
<1> DEFINE failed == [s EXCEPT !.unavailable = TRUE, !.status = "error", !.lastError = kind]
           quota == QuotaState(auth, s, retryAfter, 0)
           Failed(t) == [failed EXCEPT !.nextRetryAfter = t]
           exhausted == [failed EXCEPT !.quota = quota]
           f == FailedState(auth, s, kind, retryAfter, 0)
<1>1. failed \in ModelState /\ failed.lastError = kind /\ failed.quota = s.quota
  BY DEF ModelState
<1>2. quota \in Quota /\ quota.nextRecoverAt \in TimeValue
      /\ (quota.backoffLevel > 0 => QuotaBackoffBase * 2^(quota.backoffLevel - 1) < QuotaBackoffMax)
  BY QuotaStateIs
<1>3. f = IF kind = "quota" THEN [exhausted EXCEPT !.nextRetryAfter = quota.nextRecoverAt]
          ELSE IF kind = "unsupported" THEN Failed(0 + MissingCool)
          ELSE IF auth.coolingDisabled \/ CooldownOf(kind) = 0 THEN Failed(ZeroTime)
          ELSE Failed(0 + CooldownOf(kind))
  BY DEF FailedState
<1>4. 0 + MissingCool \in TimeValue /\ ZeroTime \in TimeValue /\ 0 + CooldownOf(kind) \in TimeValue
  BY CooldownsArePositive DEF CooldownOf, TimeValue, ZeroTime
<1>5. kind # "none"
  BY DEF Failure
<1> HIDE DEF failed, quota, f
<1>6. ASSUME NEW t \in TimeValue
      PROVE  Failed(t) \in ModelState /\ Failed(t).lastError = kind /\ StateFits(Failed(t))
  <2>1. Failed(t) \in ModelState /\ Failed(t).lastError = kind /\ Failed(t).quota = s.quota
    BY <1>1 DEF ModelState
  <2> QED
    BY <1>5, <2>1 DEF StateFits
<1>7. LET x == [exhausted EXCEPT !.nextRetryAfter = quota.nextRecoverAt]
      IN  x \in ModelState /\ x.lastError = kind /\ StateFits(x)
  <2>1. exhausted \in ModelState /\ exhausted.lastError = kind /\ exhausted.quota = quota
    BY <1>1, <1>2 DEF ModelState
  <2> HIDE DEF exhausted
  <2>2. LET x == [exhausted EXCEPT !.nextRetryAfter = quota.nextRecoverAt]
        IN  x \in ModelState /\ x.lastError = kind /\ x.quota = quota
    BY <1>2, <2>1 DEF ModelState
  <2> QED
    BY <1>2, <1>5, <2>2 DEF StateFits
<1> HIDE DEF Failed, exhausted
<1>8. f \in ModelState /\ StateFits(f) /\ f.lastError = kind
  BY <1>3, <1>4, <1>6, <1>7
<1> QED
  BY <1>8 DEF f
(* No other model's block changes. *)
OthersKept(auth, new, m) ==
  \A n \in Model \ {m} : Remaining(new, n) = Remaining(auth, n)

LEMMA RemainingIs ==
  ASSUME NEW auth, WellFormed(auth), NEW m
  PROVE  Remaining(auth, m) \in Nat /\ (ModelBlocked(auth, m, 0) <=> Remaining(auth, m) > 0)
<1>1. CASE ModelBlocked(auth, m, 0)
  <2>1. auth.states[m] \in ModelState /\ auth.states[m].nextRetryAfter > 0
    BY <1>1 DEF ModelBlocked, WellFormed, StatesFit
  <2>2. auth.states[m].nextRetryAfter \in Nat
    BY <2>1, StateType
  <2> QED
    BY <1>1, <2>1, <2>2 DEF Remaining
<1>2. CASE ~ModelBlocked(auth, m, 0)
  BY <1>2 DEF Remaining
<1> QED
  BY <1>1, <1>2

LEMMA SameStates ==
  ASSUME NEW auth, NEW new, new.states = auth.states, NEW m
  PROVE  Remaining(new, m) = Remaining(auth, m)
  BY DEF Remaining, ModelBlocked

LEMMA OthersAreKept ==
  ASSUME NEW auth, NEW new, NEW with, NEW m \in Model, NEW s,
         StatesFit(with),
         with = [n \in DOMAIN auth.states \cup {m} |-> IF n = m THEN s ELSE auth.states[n]],
         new.states = Released(with, 0)
  PROVE  OthersKept(auth, new, m)
<1>1. /\ DOMAIN new.states = DOMAIN with
      /\ \A n \in DOMAIN with :
           /\ StateBlocked(new.states[n]) <=> StateBlocked(with[n])
           /\ StateBlocked(with[n]) => new.states[n] = with[n]
  BY ReleasedIs
<1>2. \A n \in Model \ {m} : n \in DOMAIN with <=> n \in DOMAIN auth.states
  OBVIOUS
<1>3. \A n \in DOMAIN auth.states : n # m => with[n] = auth.states[n]
  OBVIOUS
<1>4. ASSUME NEW n \in Model \ {m} PROVE Remaining(new, n) = Remaining(auth, n)
  <2>1. CASE n \in DOMAIN auth.states
    <3>1. n \in DOMAIN with /\ n \in DOMAIN new.states /\ with[n] = auth.states[n]
      BY <1>1, <1>2, <1>3, <1>4, <2>1
    <3> QED
      BY <1>1, <2>1, <3>1, ModelBlockedIs DEF Remaining
  <2>2. CASE n \notin DOMAIN auth.states
    BY <1>1, <1>2, <1>4, <2>2, ModelBlockedIs DEF Remaining
  <2> QED
    BY <2>1, <2>2
<1> QED
  BY <1>4 DEF OthersKept

(* A result recorded for model m: a credential that agreed with its models  *)
(* does so after it, and one that was overtaken may.                        *)
Follows(auth, new, m) ==
  /\ OthersKept(auth, new, m)
  /\ Coherent(auth) => Coherent(new)
  /\ Overtaken(auth) => IF ShownClean(new) THEN Overtaken(new) ELSE Coherent(new)

LEMMA NotBoth ==
  ASSUME NEW auth, Coherent(auth)
  PROVE  ~ShownClean(auth) /\ ~Overtaken(auth) /\ WellFormed(auth)
  BY DEF Coherent, Overtaken, ShownClean, ActiveIsClean

LEMMA FailureIs ==
  ASSUME NEW auth, Coherent(auth) \/ Overtaken(auth),
         NEW m \in Model, NEW kind \in Failure, NEW retryAfter \in TimeValue
  PROVE  Follows(auth, RecordFailure(auth, m, kind, retryAfter, 0), m)
<1> DEFINE s == StateOf(auth, m)
           f == FailedState(auth, s, kind, retryAfter, 0)
           w1 == WithState(auth, m, f)
           w2 == [w1 EXCEPT !.lastError = kind, !.status = "error"]
           u == UpdateAggregatedAvailability(w2, 0)
<1>1. CASE kind = "requestMissing"
  <2>1. RecordFailure(auth, m, kind, retryAfter, 0) = auth
    BY <1>1 DEF RecordFailure
  <2>2. Overtaken(auth) => ShownClean(auth)
    BY DEF Overtaken
  <2> QED
    BY <2>1, <2>2 DEF Follows, OthersKept
<1>2. CASE kind # "requestMissing"
  <2>1. RecordFailure(auth, m, kind, retryAfter, 0) = u
    BY <1>2 DEF RecordFailure
  <2>2. auth \in AuthRecord(auth.states) /\ StatesFit(auth.states) /\ ~AuthDisabled(auth)
    BY DEF Coherent, Overtaken, WellFormed
  <2>3. s \in ModelState /\ StateFits(s)
    BY <2>2, CleanStateIs DEF StateOf, StatesFit
  <2> HIDE DEF s
  <2>4. f \in ModelState /\ StateFits(f)
    BY <2>2, <2>3, AuthFields, FailedStateIs
  <2> HIDE DEF f
  <2>5. /\ w1 \in AuthRecord(w1.states) /\ StatesFit(w1.states)
        /\ w1.states = [n \in DOMAIN auth.states \cup {m} |-> IF n = m THEN f ELSE auth.states[n]]
        /\ w1.disabled = auth.disabled
    BY <2>2, <2>4, WithStateIs
  <2> HIDE DEF w1
  <2>6. /\ w2 \in AuthRecord(w2.states) /\ w2.states = w1.states
        /\ w2.disabled = w1.disabled /\ w2.status = "error"
    BY <2>5 DEF AuthRecord
  <2> HIDE DEF w2
  <2>7. /\ u \in AuthRecord(u.states) /\ u.states = Released(w2.states, 0)
        /\ u.disabled = w2.disabled /\ u.status = w2.status
        /\ StatesFit(u.states) /\ Aggregated(u) /\ QuotaAgrees(u)
    BY <2>5, <2>6, UpdateIs
  <2> HIDE DEF u
  <2>8. ~AuthDisabled(u) /\ ActiveIsClean(u)
    BY <2>2, <2>5, <2>6, <2>7 DEF AuthDisabled, ActiveIsClean
  <2>9. Coherent(u)
    <3>1. DOMAIN w1.states = DOMAIN auth.states \cup {m}
      BY <2>5
    <3>2. DOMAIN Released(w1.states, 0) = DOMAIN w1.states
      BY DEF Released
    <3>3. DOMAIN u.states # {}
      BY <2>6, <2>7, <3>1, <3>2
    <3> QED
      BY <2>7, <2>8, <3>3 DEF Coherent, WellFormed
  <2>10. OthersKept(auth, u, m)
    <3>1. u.states = Released(w1.states, 0)
      BY <2>6, <2>7
    <3> QED
      BY <2>5, <3>1, OthersAreKept, Zenon
  <2> QED
    BY <2>1, <2>9, <2>10, NotBoth DEF Follows
<1> QED
  BY <1>1, <1>2

LEMMA SuccessIs ==
  ASSUME NEW auth, Coherent(auth) \/ Overtaken(auth), NEW m \in Model
  PROVE  Follows(auth, RecordSuccess(auth, m, 0), m)
<1> DEFINE w == WithState(auth, m, CleanState)
           u == UpdateAggregatedAvailability(w, 0)
           v == [u EXCEPT !.lastError = "none", !.status = "active"]
<1>1. RecordSuccess(auth, m, 0) = IF HasModelError(u, 0) THEN u ELSE v
  BY DEF RecordSuccess, ClearErrorUnlessModelError
<1>2. auth \in AuthRecord(auth.states) /\ StatesFit(auth.states) /\ ~AuthDisabled(auth)
  BY DEF Coherent, Overtaken, WellFormed
<1>3. /\ w \in AuthRecord(w.states) /\ StatesFit(w.states)
      /\ w.states = [n \in DOMAIN auth.states \cup {m} |-> IF n = m THEN CleanState ELSE auth.states[n]]
      /\ w.disabled = auth.disabled /\ w.status = auth.status /\ w.lastError = auth.lastError
  BY <1>2, CleanStateIs, WithStateIs
<1> HIDE DEF w
<1>4. /\ u \in AuthRecord(u.states) /\ u.states = Released(w.states, 0)
      /\ u.disabled = w.disabled /\ u.status = w.status /\ u.lastError = w.lastError
      /\ StatesFit(u.states) /\ Aggregated(u) /\ QuotaAgrees(u)
  BY <1>3, UpdateIs
<1> HIDE DEF u
<1>5. OthersKept(auth, u, m)
  BY <1>3, <1>4, OthersAreKept
<1>6. WellFormed(u) /\ DOMAIN u.states # {}
  <2>1. ~AuthDisabled(u)
    BY <1>2, <1>3, <1>4 DEF AuthDisabled
  <2>2. DOMAIN w.states = DOMAIN auth.states \cup {m}
    BY <1>3
  <2>3. DOMAIN Released(w.states, 0) = DOMAIN w.states
    BY DEF Released
  <2> QED
    BY <1>4, <2>1, <2>2, <2>3 DEF WellFormed
<1>7. ASSUME Coherent(auth) PROVE Coherent(u)
  <2>2. ASSUME u.status = "active"
        PROVE  u.lastError = "none" /\ \A n \in DOMAIN u.states : u.states[n] = CleanState
    <3>1. auth.lastError = "none" /\ \A n \in DOMAIN auth.states : auth.states[n] = CleanState
      BY <1>3, <1>4, <1>7, <2>2 DEF Coherent, ActiveIsClean
    <3>2. \A n \in DOMAIN w.states : w.states[n] = CleanState
      BY <1>3, <3>1
    <3>3. \A n \in DOMAIN u.states : u.states[n] = CleanState
      <4>1. /\ DOMAIN Released(w.states, 0) = DOMAIN w.states
            /\ \A n \in DOMAIN w.states : w.states[n] = CleanState => Released(w.states, 0)[n] = CleanState
        BY <1>3, ReleasedIs
      <4> QED
        BY <1>4, <3>2, <4>1
    <3> QED
      BY <1>3, <1>4, <3>1, <3>3
  <2>3. ActiveIsClean(u)
    BY <2>2 DEF ActiveIsClean
  <2> QED
    BY <1>4, <1>6, <2>3 DEF Coherent
<1>8. ASSUME Overtaken(auth) PROVE IF ShownClean(u) THEN Overtaken(u) ELSE Coherent(u)
  <2>1. u.status = "active" /\ u.lastError = "none"
    BY <1>3, <1>4, <1>8 DEF Overtaken, ShownClean
  <2>2. ShownClean(u) => Overtaken(u)
    BY <1>4, <1>6, <2>1 DEF Overtaken
  <2>3. ~ShownClean(u) => ActiveIsClean(u)
    BY <2>1 DEF ShownClean, ActiveIsClean
  <2> QED
    BY <1>4, <1>6, <2>2, <2>3 DEF Coherent
<1>9. ASSUME ~HasModelError(u, 0) PROVE Coherent(v) /\ OthersKept(auth, v, m)
  <2>1. /\ v \in AuthRecord(v.states) /\ v.states = u.states
        /\ v.disabled = u.disabled /\ v.status = "active" /\ v.lastError = "none"
        /\ v.quota = u.quota
        /\ v.unavailable = u.unavailable /\ v.nextRetryAfter = u.nextRetryAfter
    BY <1>4 DEF AuthRecord
  <2> HIDE DEF v
  <2>2. \A n \in DOMAIN u.states : u.states[n] = CleanState
    BY <1>4, <1>9 DEF HasModelError, StatesFit, StateFits
  <2>3. ActiveIsClean(v) /\ ~AuthDisabled(v)
    BY <1>6, <2>1, <2>2 DEF ActiveIsClean, AuthDisabled, WellFormed
  <2>4. Aggregated(v) /\ QuotaAgrees(v)
    BY <1>4, <2>1, ModelBlockedIs DEF Aggregated, QuotaAgrees
  <2>5. Coherent(v)
    BY <1>4, <2>1, <2>3, <2>4 DEF Coherent, WellFormed
  <2>6. OthersKept(auth, v, m)
    BY <1>5, <2>1, SameStates DEF OthersKept
  <2> QED
    BY <2>5, <2>6
<1> HIDE DEF v
<1>10. Follows(auth, u, m)
  BY <1>5, <1>7, <1>8 DEF Follows
<1>11. ~HasModelError(u, 0) => Follows(auth, v, m)
  BY <1>9, NotBoth DEF Follows
<1> QED
  BY <1>1, <1>10, <1>11
-----------------------------------------------------------------------------
(* What time does to a credential. *)

LEMMA CloserIs ==
  ASSUME NEW t \in TimeValue
  PROVE  /\ Closer(t) \in TimeValue
         /\ Closer(t) = IF t > 0 THEN t - 1 ELSE t
         /\ t \in Int /\ Closer(t) \in Int
  BY DEF Closer, TimeValue, ZeroTime

LEMMA CloserStateIs ==
  ASSUME NEW s \in ModelState, StateFits(s)
  PROVE  LET c == CloserState(s)
         IN  /\ c \in ModelState /\ StateFits(c)
             /\ c.unavailable = s.unavailable /\ c.nextRetryAfter = Closer(s.nextRetryAfter)
             /\ c.quota.exceeded = s.quota.exceeded
             /\ s = CleanState <=> c = CleanState
             /\ StateBlocked(c) => StateBlocked(s)
             /\ StateBlocked(s) /\ ~StateBlocked(c) => s.nextRetryAfter = 1
<1> DEFINE q == CloserQuota(s.quota)
           next == Closer(s.nextRetryAfter)
           c1 == [s EXCEPT !.nextRetryAfter = next]
           c == [c1 EXCEPT !.quota = q]
<1>1. CloserState(s) = c
  BY DEF CloserState, ModelState
<1>2. /\ s.quota \in Quota /\ s.quota.nextRecoverAt \in TimeValue /\ s.nextRetryAfter \in TimeValue
      /\ s.unavailable \in BOOLEAN
  BY StateType
<1>3. /\ q \in Quota /\ q.exceeded = s.quota.exceeded /\ q.backoffLevel = s.quota.backoffLevel
  <2>1. Closer(s.quota.nextRecoverAt) \in TimeValue
    BY <1>2, CloserIs
  <2> QED
    BY <1>2, <2>1 DEF CloserQuota, Quota
<1>4. next \in TimeValue /\ next \in Int /\ s.nextRetryAfter \in Int
      /\ next = IF s.nextRetryAfter > 0 THEN s.nextRetryAfter - 1 ELSE s.nextRetryAfter
  BY <1>2, CloserIs
<1> HIDE DEF q, next
<1>5. c1 \in ModelState /\ c1.nextRetryAfter = next /\ c1.unavailable = s.unavailable /\ c1.lastError = s.lastError
  BY <1>4 DEF ModelState
<1> HIDE DEF c1
<1>6. c \in ModelState /\ c.nextRetryAfter = next /\ c.unavailable = s.unavailable /\ c.lastError = s.lastError
      /\ c.quota = q
  BY <1>3, <1>5 DEF ModelState
<1>7. s = CleanState => c = CleanState
  <2> SUFFICES ASSUME s = CleanState PROVE c = s
    OBVIOUS
  <2>1. s.nextRetryAfter = ZeroTime /\ s.quota.nextRecoverAt = ZeroTime /\ ZeroTime = -1
    BY DEF CleanState, NoQuota, ZeroTime
  <2>2. next = s.nextRetryAfter /\ Closer(s.quota.nextRecoverAt) = s.quota.nextRecoverAt
    BY <2>1 DEF next, Closer
  <2>3. q = s.quota
    BY <1>2, <2>2 DEF q, CloserQuota, Quota
  <2>4. c1 = s
    BY <2>2 DEF c1, ModelState
  <2> QED
    BY <2>3, <2>4 DEF ModelState
<1> HIDE DEF c
<1>8. StateFits(c)
  <2>1. CASE s = CleanState
    BY <1>7, <2>1, CleanStateIs
  <2>2. CASE s # CleanState
    BY <1>3, <1>6, <2>2 DEF StateFits
  <2> QED
    BY <2>1, <2>2
<1>9. (StateBlocked(c) => StateBlocked(s)) /\ (StateBlocked(s) /\ ~StateBlocked(c) => s.nextRetryAfter = 1)
  BY <1>4, <1>6 DEF StateBlocked
<1>10. c = CleanState => s = CleanState
  BY <1>6, CleanStateIs DEF StateFits
<1> QED
  BY <1>1, <1>3, <1>6, <1>7, <1>8, <1>9, <1>10 DEF next

(* How a credential's blocks may change as time passes. *)
BlocksRunOut(auth, new) ==
  \A m \in Model :
    /\ ModelBlocked(new, m, 0) => ModelBlocked(auth, m, 0)
    /\ ModelBlocked(auth, m, 0) /\ ~ModelBlocked(new, m, 0) => auth.states[m].nextRetryAfter = 1
    /\ Remaining(new, m) = Closer(Remaining(auth, m))

LEMMA CloserAuthIs ==
  ASSUME NEW auth, WellFormed(auth)
  PROVE  LET new == CloserAuth(auth)
         IN  /\ WellFormed(new) /\ BlocksRunOut(auth, new)
             /\ Aggregated(auth) => Aggregated(new)
             /\ QuotaAgrees(auth) => QuotaAgrees(new)
             /\ ActiveIsClean(auth) => ActiveIsClean(new)
             /\ ShownClean(auth) => ShownClean(new)
             /\ DOMAIN new.states = DOMAIN auth.states
             /\ new.status = auth.status /\ new.lastError = auth.lastError
             /\ new.unavailable = auth.unavailable /\ new.quota.exceeded = auth.quota.exceeded
<1> DEFINE states == auth.states
           new == [m \in DOMAIN states |-> CloserState(states[m])]
           next == Closer(auth.nextRetryAfter)
           q == CloserQuota(auth.quota)
           v1 == [auth EXCEPT !.nextRetryAfter = next]
           v2 == [v1 EXCEPT !.quota = q]
           u == [v2 EXCEPT !.states = new]
<1>1. auth \in AuthRecord(auth.states) /\ StatesFit(states) /\ ~AuthDisabled(auth)
  BY DEF WellFormed
<1>2. CloserAuth(auth) = u
  BY <1>1 DEF CloserAuth, AuthRecord
<1>3. /\ auth.nextRetryAfter \in TimeValue /\ auth.quota \in Quota /\ auth.quota.nextRecoverAt \in TimeValue
      /\ auth.unavailable \in BOOLEAN
  BY <1>1, AuthFields DEF Quota
<1>4. q \in Quota /\ q.exceeded = auth.quota.exceeded
  <2>1. Closer(auth.quota.nextRecoverAt) \in TimeValue
    BY <1>3, CloserIs
  <2> QED
    BY <1>3, <2>1 DEF CloserQuota, Quota
<1>5. next \in TimeValue
  BY <1>3, CloserIs
<1>6. \A m \in DOMAIN states :
        /\ new[m] \in ModelState /\ StateFits(new[m])
        /\ new[m].unavailable = states[m].unavailable
        /\ new[m].nextRetryAfter = Closer(states[m].nextRetryAfter)
        /\ new[m].quota.exceeded = states[m].quota.exceeded
        /\ states[m] = CleanState <=> new[m] = CleanState
        /\ StateBlocked(new[m]) => StateBlocked(states[m])
        /\ StateBlocked(states[m]) /\ ~StateBlocked(new[m]) => states[m].nextRetryAfter = 1
  <2> SUFFICES ASSUME NEW m \in DOMAIN states
               PROVE  /\ new[m] \in ModelState /\ StateFits(new[m])
                      /\ new[m].unavailable = states[m].unavailable
                      /\ new[m].nextRetryAfter = Closer(states[m].nextRetryAfter)
                      /\ new[m].quota.exceeded = states[m].quota.exceeded
                      /\ states[m] = CleanState <=> new[m] = CleanState
                      /\ StateBlocked(new[m]) => StateBlocked(states[m])
                      /\ StateBlocked(states[m]) /\ ~StateBlocked(new[m]) => states[m].nextRetryAfter = 1
    OBVIOUS
  <2>1. states[m] \in ModelState /\ StateFits(states[m])
    BY <1>1 DEF StatesFit
  <2>2. new[m] = CloserState(states[m])
    OBVIOUS
  <2> HIDE DEF new, states
  <2> QED
    BY <2>1, <2>2, CloserStateIs
<1>7. DOMAIN new = DOMAIN states /\ new \in [DOMAIN new -> ModelState]
  BY <1>6
<1>8. StatesFit(new)
  <2> HIDE DEF new, states
  <2> QED
    BY <1>1, <1>6, <1>7 DEF StatesFit
<1> HIDE DEF new, next, q
<1>9. /\ v1 \in AuthRecord(v1.states)
      /\ v1.disabled = auth.disabled /\ v1.status = auth.status /\ v1.lastError = auth.lastError
      /\ v1.unavailable = auth.unavailable /\ v1.nextRetryAfter = next
  BY <1>1, <1>5, RetryReplaced
<1> HIDE DEF v1
<1>10. /\ v2 \in AuthRecord(v2.states) /\ v2.quota = q
       /\ v2.disabled = auth.disabled /\ v2.status = auth.status /\ v2.lastError = auth.lastError
       /\ v2.unavailable = auth.unavailable /\ v2.nextRetryAfter = next
  BY <1>4, <1>9, QuotaReplaced
<1> HIDE DEF v2
<1>11. /\ u \in AuthRecord(u.states) /\ u.quota = q /\ u.states = new
       /\ u.disabled = auth.disabled /\ u.status = auth.status /\ u.lastError = auth.lastError
       /\ u.unavailable = auth.unavailable /\ u.nextRetryAfter = next
  BY <1>10, StatesReplaced
<1> HIDE DEF u
<1>12. ~AuthDisabled(u) /\ (ActiveIsClean(auth) => ActiveIsClean(u)) /\ (ShownClean(auth) => ShownClean(u))
  BY <1>1, <1>6, <1>7, <1>11 DEF AuthDisabled, ActiveIsClean, ShownClean
<1>13. (QuotaAgrees(auth) => QuotaAgrees(u)) /\ u.quota.exceeded = auth.quota.exceeded
  BY <1>4, <1>6, <1>7, <1>11 DEF QuotaAgrees
<1>14. ASSUME Aggregated(auth) PROVE Aggregated(u)
  <2>1. CASE auth.unavailable
    <3>1. PICK k \in DOMAIN states : auth.nextRetryAfter = states[k].nextRetryAfter
      BY <1>14, <2>1 DEF Aggregated
    <3>2. next = new[k].nextRetryAfter
      BY <1>6, <3>1 DEF next
    <3>3. ASSUME NEW m \in DOMAIN states
          PROVE  new[m].unavailable /\ next <= new[m].nextRetryAfter
      <4>1. states[m].unavailable /\ auth.nextRetryAfter <= states[m].nextRetryAfter
        BY <1>14, <2>1 DEF Aggregated
      <4>2. states[m].nextRetryAfter \in TimeValue
        BY <1>1, StateType DEF StatesFit
      <4>3. Closer(auth.nextRetryAfter) <= Closer(states[m].nextRetryAfter)
        BY <1>3, <4>1, <4>2, CloserIs
      <4> QED
        BY <1>6, <4>1, <4>3 DEF next
    <3> QED
      BY <1>7, <1>11, <2>1, <3>2, <3>3 DEF Aggregated
  <2>2. CASE ~auth.unavailable
    <3>1. DOMAIN states = {} \/ \E m \in DOMAIN states : ~StateBlocked(states[m])
      BY <1>14, <2>2, ModelBlockedIs DEF Aggregated
    <3>2. DOMAIN states = {} \/ \E m \in DOMAIN states : ~StateBlocked(new[m])
      BY <1>6, <3>1
    <3> QED
      BY <1>7, <1>11, <2>2, <3>2, ModelBlockedIs DEF Aggregated
  <2> QED
    BY <2>1, <2>2
<1>15. WellFormed(u)
  BY <1>8, <1>11, <1>12 DEF WellFormed
<1>16. ASSUME NEW m \in Model PROVE Remaining(u, m) = Closer(Remaining(auth, m))
  <2>1. CASE m \in DOMAIN states
    <3>1. states[m].nextRetryAfter \in TimeValue
      BY <1>1, <2>1, StateType DEF StatesFit
    <3>2. /\ new[m].unavailable = states[m].unavailable
          /\ new[m].nextRetryAfter = Closer(states[m].nextRetryAfter)
      BY <1>6, <2>1
    <3> DEFINE t == states[m].nextRetryAfter
               c == Closer(t)
               on == states[m].unavailable
    <3>3. t \in Int /\ c = (IF t > 0 THEN t - 1 ELSE t) /\ Closer(0) = 0 /\ t >= -1
      BY <3>1 DEF Closer, TimeValue, ZeroTime
    <3>4. Remaining(auth, m) = (IF on /\ t > 0 THEN t ELSE 0)
      BY <2>1, ModelBlockedIs DEF Remaining, StateBlocked
    <3>5. Remaining(u, m) = (IF on /\ c > 0 THEN c ELSE 0)
      BY <1>7, <1>11, <2>1, <3>2, ModelBlockedIs DEF Remaining, StateBlocked
    <3> HIDE DEF t, c, on
    <3>6. CASE on /\ t > 0
      <4>1. c = t - 1 /\ Remaining(auth, m) = t /\ Closer(t) = t - 1
        BY <3>3, <3>4, <3>6 DEF Closer
      <4> QED
        BY <3>3, <3>5, <3>6, <4>1
    <3>7. CASE ~(on /\ t > 0)
      BY <3>3, <3>4, <3>5, <3>7
    <3> QED
      BY <3>6, <3>7
  <2>2. CASE m \notin DOMAIN states
    BY <1>7, <1>11, <2>2, ModelBlockedIs DEF Remaining, Closer
  <2> QED
    BY <2>1, <2>2
<1>17. BlocksRunOut(auth, u)
  BY <1>6, <1>7, <1>11, <1>16, ModelBlockedIs DEF BlocksRunOut
<1> QED
  BY <1>2, <1>7, <1>11, <1>12, <1>13, <1>14, <1>15, <1>17

LEMMA TimeKeeps ==
  ASSUME NEW auth
  PROVE  /\ Coherent(auth) => Coherent(CloserAuth(auth)) /\ BlocksRunOut(auth, CloserAuth(auth))
         /\ Overtaken(auth) => Overtaken(CloserAuth(auth)) /\ BlocksRunOut(auth, CloserAuth(auth))
<1> DEFINE new == CloserAuth(auth)
<1>1. ASSUME WellFormed(auth)
      PROVE  /\ WellFormed(new) /\ BlocksRunOut(auth, new)
             /\ Aggregated(auth) => Aggregated(new)
             /\ QuotaAgrees(auth) => QuotaAgrees(new)
             /\ ActiveIsClean(auth) => ActiveIsClean(new)
             /\ ShownClean(auth) => ShownClean(new)
             /\ DOMAIN new.states = DOMAIN auth.states
             /\ new.status = auth.status /\ new.lastError = auth.lastError
             /\ new.unavailable = auth.unavailable /\ new.quota.exceeded = auth.quota.exceeded
  BY <1>1, CloserAuthIs
<1> HIDE DEF new
<1>2. Coherent(auth) => Coherent(new) /\ BlocksRunOut(auth, new)
  BY <1>1 DEF Coherent
<1>3. Overtaken(auth) => Overtaken(new) /\ BlocksRunOut(auth, new)
  BY <1>1 DEF Overtaken
<1> QED
  BY <1>2, <1>3 DEF new
-----------------------------------------------------------------------------
(* The models of a request. *)

LEMMA PoolsTyped ==
  ASSUME NEW a \in Auth, NEW m \in Model
  PROVE  Pool[a][m] \in Seq(Model) /\ SelectionModel(a, m) \in Model
<1>1. Pool[a][m] \in Seq(Model)
  BY RequestsTyped
<1>2. ASSUME Len(Pool[a][m]) = 1 PROVE Pool[a][m][1] \in Model
  BY <1>1, <1>2, ElementOfSeq
<1> QED
  BY <1>1, <1>2 DEF SelectionModel

LEMMA StateModelTyped ==
  ASSUME NEW a \in Auth, NEW m \in Model, NEW u \in Model
  PROVE  StateModel(a, m, u) \in Model
  BY PoolsTyped DEF StateModel

LEMMA RotatedIs ==
  ASSUME NEW pool \in Seq(Model), NEW offset \in Nat
  PROVE  Rotated(pool, offset) \in Seq(Model) /\ Len(Rotated(pool, offset)) = Len(pool)
<1>1. Len(pool) \in Nat
  BY LenProperties
<1>2. ASSUME NEW i \in 1 .. Len(pool) PROVE pool[((i - 1 + offset) % Len(pool)) + 1] \in Model
  <2>1. (i - 1 + offset) % Len(pool) \in 0 .. (Len(pool) - 1)
    <3> DEFINE x == i - 1 + offset
               n == Len(pool)
    <3>1. x \in Int /\ n \in Nat /\ n > 0
      BY <1>1
    <3> HIDE DEF x, n
    <3>2. x % n \in 0 .. (n - 1)
      BY <3>1
    <3> QED
      BY <3>2 DEF x, n
  <2>2. ((i - 1 + offset) % Len(pool)) + 1 \in 1 .. Len(pool)
    BY <1>1, <2>1
  <2> QED
    BY <2>2, ElementOfSeq
<1> QED
  BY <1>1, <1>2, SeqDef DEF Rotated

(* The loop that keeps the elements whose place is not in B. *)
Keeps(pool, B, n, g) ==
  g = [i \in 0 .. n |-> IF i = 0 THEN <<>>
                        ELSE IF i \in B THEN g[i - 1] ELSE Append(g[i - 1], pool[i])]

LEMMA KeepsExists ==
  ASSUME NEW pool, NEW B, NEW n \in Nat
  PROVE  \E g : Keeps(pool, B, n, g)
<1> DEFINE Bad == {k \in Nat : ~ \E g : Keeps(pool, B, k, g)}
<1> SUFFICES ASSUME Bad # {} PROVE FALSE
  OBVIOUS
<1>1. PICK k \in Bad : \A j \in Bad : k <= j
  <2>1. Bad \in SUBSET Nat
    OBVIOUS
  <2> HIDE DEF Bad
  <2> QED
    BY <2>1, LeastNumber
<1>2. k # 0
  <2> DEFINE g == [i \in 0 .. 0 |-> <<>>]
  <2>1. Keeps(pool, B, 0, g)
    BY DEF Keeps
  <2> HIDE DEF g
  <2> QED
    BY <2>1
<1>3. k - 1 \in Nat /\ k \in Nat
  BY <1>1, <1>2
<1>4. k - 1 \notin Bad
  <2> HIDE DEF Bad
  <2> QED
    BY <1>1, <1>3
<1>5. PICK g : Keeps(pool, B, k - 1, g)
  BY <1>3, <1>4
<1> DEFINE h == [i \in 0 .. k |-> IF i = 0 THEN <<>>
                                  ELSE IF i \in B THEN g[i - 1] ELSE Append(g[i - 1], pool[i])]
           Element(i) == IF i = 0 THEN <<>>
                      ELSE IF i \in B THEN g[i - 1] ELSE Append(g[i - 1], pool[i])
<1>6. \A i \in 0 .. (k - 1) : h[i] = g[i]
  <2>1. \A i \in 0 .. k : h[i] = Element(i)
    OBVIOUS
  <2>2. g = [i \in 0 .. (k - 1) |-> Element(i)]
    BY <1>5 DEF Keeps
  <2> HIDE DEF h, Element
  <2>3. \A i \in 0 .. (k - 1) : g[i] = Element(i)
    BY <2>2, Zenon
  <2>4. \A i \in 0 .. (k - 1) : i \in 0 .. k
    BY <1>3
  <2> QED
    BY <2>1, <2>3, <2>4
<1>7. \A i \in 0 .. k : i # 0 => h[i - 1] = g[i - 1]
  <2> HIDE DEF h
  <2>1. \A i \in 0 .. k : i # 0 => i - 1 \in 0 .. (k - 1)
    BY <1>3
  <2> QED
    BY <1>6, <2>1
<1>8. Keeps(pool, B, k, h)
  <2>1. h = [i \in 0 .. k |-> IF i = 0 THEN <<>>
                              ELSE IF i \in B THEN g[i - 1] ELSE Append(g[i - 1], pool[i])]
    OBVIOUS
  <2> HIDE DEF h
  <2> QED
    BY <1>7, <2>1 DEF Keeps
<1> HIDE DEF h
<1> QED
  BY <1>1, <1>8

LEMMA KeepsType ==
  ASSUME NEW pool \in Seq(Model), NEW B, NEW g, Keeps(pool, B, Len(pool), g)
  PROVE  g[Len(pool)] \in Seq(Model)
<1> DEFINE n == Len(pool)
           Bad == {k \in 0 .. n : g[k] \notin Seq(Model)}
<1>1. n \in Nat
  BY LenProperties
<1>2. Bad = {}
  <2> SUFFICES ASSUME Bad # {} PROVE FALSE
    OBVIOUS
  <2>1. PICK k \in Bad : \A j \in Bad : k <= j
    <3>1. Bad \in SUBSET Nat
      BY <1>1
    <3> HIDE DEF Bad
    <3> QED
      BY <3>1, LeastNumber
  <2>2. k \in 0 .. n /\ g[k] \notin Seq(Model)
    OBVIOUS
  <2>3. k # 0
    BY <1>1, <2>2 DEF Keeps
  <2>4. k - 1 \in 0 .. n /\ k \in 1 .. n
    BY <1>1, <2>2, <2>3
  <2>5. g[k - 1] \in Seq(Model)
    <3>1. k - 1 \notin Bad
      <4> HIDE DEF Bad
      <4> QED
        BY <1>1, <2>1, <2>2, <2>4
    <3> QED
      BY <2>4, <3>1
  <2>6. g[k] = IF k \in B THEN g[k - 1] ELSE Append(g[k - 1], pool[k])
    BY <2>2, <2>3 DEF Keeps
  <2>7. pool[k] \in Model
    BY <2>4, ElementOfSeq
  <2>8. Append(g[k - 1], pool[k]) \in Seq(Model)
    BY <2>5, <2>7, AppendProperties
  <2> QED
    BY <2>2, <2>5, <2>6, <2>8
<1> QED
  BY <1>1, <1>2

LEMMA ExecutionModelsTyped ==
  ASSUME offsets \in [Auth -> [Model -> Nat]], NEW a \in Auth, NEW m \in Model
  PROVE  ExecutionModels(a, m) \in Seq(Model)
<1> DEFINE pool == Rotated(Pool[a][m], offsets[a][m])
           Skipped(i) == BlockedForModel(auths[a], StateModel(a, m, pool[i]), 0)
           B == {i \in 1 .. Len(pool) : Skipped(i)}
           Kept(g) == g = [i \in 0 .. Len(pool) |->
                             IF i = 0 THEN <<>>
                             ELSE IF Skipped(i) THEN g[i - 1] ELSE Append(g[i - 1], pool[i])]
           kept == CHOOSE g : Kept(g)
<1>1. pool \in Seq(Model) /\ Len(pool) \in Nat
  <2>1. offsets[a][m] \in Nat
    OBVIOUS
  <2> QED
    BY <2>1, PoolsTyped, RotatedIs, LenProperties
<1>2. ExecutionModels(a, m) = kept[Len(pool)]
  BY DEF ExecutionModels
<1> HIDE DEF pool, Skipped
<1>3. \A i \in 0 .. Len(pool) : i # 0 => (i \in B <=> Skipped(i))
  BY <1>1
<1>4. \A g : Kept(g) <=> Keeps(pool, B, Len(pool), g)
  BY <1>1, <1>3 DEF Keeps
<1>5. \E g : Kept(g)
  BY <1>1, <1>4, KeepsExists
<1> HIDE DEF Kept
<1>6. Kept(kept)
  BY <1>5
<1> HIDE DEF kept
<1> QED
  BY <1>1, <1>2, <1>4, <1>6, KeepsType
-----------------------------------------------------------------------------
(* What a step does to a request. *)

Errors == [kind: Failure \cup PickErrors \cup {"nil"}, retryAfter: TimeValue]
Places == {"pick", "prepare", "preparing", "unprepared", "call", "decide", "wait", "relay"} \cup Done

LEMMA RequestRecordIs ==
  RequestRecord =
    [pc: Places, attempt: Nat, tried: SUBSET Auth, attempted: SUBSET Auth, auth: Auth,
     models: Seq(Model), lastErr: Errors, wait: Nat, picks: Nat, waited: Nat, faulted: BOOLEAN]
  BY DEF RequestRecord, Places, Errors

LEMMA RequestFields ==
  ASSUME NEW q \in RequestRecord
  PROVE  /\ q.pc \in Places /\ q.attempt \in Nat /\ q.tried \in SUBSET Auth
         /\ q.attempted \in SUBSET Auth /\ q.auth \in Auth /\ q.models \in Seq(Model)
         /\ q.lastErr \in Errors /\ q.wait \in Nat /\ q.picks \in Nat /\ q.waited \in Nat
         /\ q.faulted \in BOOLEAN
  BY RequestRecordIs

LEMMA ErrorsTyped ==
  /\ NoError \in Errors
  /\ \A kind \in Failure \cup PickErrors, t \in TimeValue : Err(kind, t) \in Errors /\ Err(kind, t).kind = kind
<1>1. NoError \in Errors
  BY DEF NoError, Errors, TimeValue, ZeroTime, NoRetryAfter
<1>2. ASSUME NEW kind \in Failure \cup PickErrors, NEW t \in TimeValue
      PROVE  Err(kind, t) \in Errors /\ Err(kind, t).kind = kind
  BY DEF Err, Errors
<1> QED
  BY <1>1, <1>2

LEMMA SomeAuthIs == SomeAuth \in Auth
  BY SomeAuths DEF SomeAuth

LEMMA ProductsGrow ==
  ASSUME NEW x \in Nat, NEW y \in Nat, NEW z \in Nat, x <= y
  PROVE  x * z <= y * z /\ x * z \in Nat /\ (x + 1) * z = x * z + z
<1>1. y - x \in Nat /\ y = x + (y - x)
  OBVIOUS
<1>2. y * z = x * z + (y - x) * z
  BY <1>1
<1>3. (y - x) * z >= 0 /\ (y - x) * z \in Int /\ x * z \in Int /\ x * z >= 0
  BY <1>1
<1> QED
  BY <1>2, <1>3

LEMMA RetriesBounded ==
  /\ Max({Retries[a] : a \in Auth}) \in Nat
  /\ \A a \in Auth : Retries[a] <= Max({Retries[a2] : a2 \in Auth}) /\ Retries[a] \in Nat
<1> DEFINE T == {Retries[a] : a \in Auth}
<1>1. T \in SUBSET Nat /\ T # {}
  BY RetryConfig, SomeAuths
<1>2. Retries = [a \in Auth |-> Retries[a]]
  BY RetryConfig
<1>3. IsFiniteSet(T)
  BY <1>2, SomeAuths, ImageIsFinite
<1>4. \A a \in Auth : Retries[a] \in T /\ Retries[a] \in Nat
  BY RetryConfig
<1> HIDE DEF T
<1>5. Max(T) \in Nat /\ \A y \in T : y <= Max(T)
  BY <1>1, <1>3, MaxIs
<1> QED
  BY <1>4, <1>5 DEF T

(* What the invariant says of a request bounds its work. *)
LEMMA WorkFits ==
  ASSUME NEW q, RequestFits(q)
  PROVE  q.picks <= Cardinality(Auth) /\ q.waited <= WaitBound /\ WaitBound \in Nat
<1> DEFINE most == Max({Retries[a] : a \in Auth})
<1>1. q.attempt \in Nat /\ q.tried \in SUBSET Auth /\ q.waited \in Nat
  BY RequestFields DEF RequestFits
<1>2. q.picks <= Cardinality(Auth)
  BY <1>1, SomeAuths, FS_Subset DEF RequestFits
<1>3. most \in Nat /\ MaxWait \in Nat /\ WaitBound = most * MaxWait
  BY RetriesBounded, RetryConfig DEF WaitBound
<1>4. \E n \in Nat : n <= most /\ q.waited <= n * MaxWait
  <2>1. CASE q.pc = "wait"
    <3>1. PICK a \in Auth : q.attempt < Retries[a] /\ q.waited <= (q.attempt + 1) * MaxWait
      BY <2>1 DEF RequestFits, WaitFits, MayRetry
    <3>2. q.attempt + 1 <= most /\ q.attempt + 1 \in Nat
      BY <1>1, <1>3, <3>1, RetriesBounded
    <3> HIDE DEF most
    <3> QED
      BY <3>1, <3>2
  <2>2. CASE q.pc # "wait"
    <3>1. PICK a \in Auth : q.attempt <= Retries[a] /\ q.waited <= q.attempt * MaxWait
      BY <2>2 DEF RequestFits, WaitFits, MayHaveRetried
    <3>2. q.attempt <= most
      BY <1>1, <1>3, <3>1, RetriesBounded
    <3> HIDE DEF most
    <3> QED
      BY <1>1, <3>1, <3>2
  <2> QED
    BY <2>1, <2>2
<1> HIDE DEF most
<1>5. q.waited <= WaitBound /\ WaitBound \in Nat
  <2>1. PICK n \in Nat : n <= most /\ q.waited <= n * MaxWait
    BY <1>4
  <2>2. n * MaxWait <= most * MaxWait /\ n * MaxWait \in Nat /\ most * MaxWait \in Nat
    BY <1>3, <2>1, ProductsGrow
  <2> QED
    BY <1>1, <1>3, <2>1, <2>2
<1> QED
  BY <1>2, <1>5

LEMMA StartedIs ==
  /\ Started \in RequestRecord /\ Started.pc = "pick"
  /\ Started.tried = {} /\ Started.picks = 0 /\ ~Started.faulted
  /\ Started.waited = 0 /\ Started.attempt = 0
<1> DEFINE nobody == {}
           nothing == <<>>
           no == FALSE
<1>1. nobody \in SUBSET Auth /\ nothing \in Seq(Model) /\ no \in BOOLEAN /\ "pick" \in Places
  BY DEF Places
<1>2. Started = [pc |-> "pick", attempt |-> 0, tried |-> nobody, attempted |-> nobody,
                 auth |-> SomeAuth, models |-> nothing, lastErr |-> NoError, wait |-> 0,
                 picks |-> 0, waited |-> 0, faulted |-> no]
  BY DEF Started
<1> HIDE DEF nobody, nothing, no
<1>3. /\ Started \in RequestRecord /\ Started.pc = "pick"
      /\ Started.tried = nobody /\ Started.picks = 0 /\ Started.faulted = no
      /\ Started.waited = 0 /\ Started.attempt = 0
  BY <1>1, <1>2, SomeAuthIs, ErrorsTyped, RequestRecordIs
<1> QED
  BY <1>3 DEF nobody, no

LEMMA StartedFits ==
  ASSUME NEW outcome \in Done \cup {"pick"}
  PROVE  RequestFits([Started EXCEPT !.pc = outcome])
<1> DEFINE q == [Started EXCEPT !.pc = outcome]
<1>1. outcome \in Places /\ outcome \notin {"prepare", "preparing", "unprepared", "call", "relay", "wait"}
  BY DEF Places, Done
<1>2. /\ q \in RequestRecord /\ q.pc = outcome
      /\ q.tried = Started.tried /\ q.picks = Started.picks /\ q.faulted = Started.faulted
      /\ q.waited = Started.waited /\ q.attempt = Started.attempt
  BY <1>1, StartedIs, RequestRecordIs
<1> HIDE DEF q
<1>3. Cardinality(q.tried) = q.picks /\ ~q.faulted
  BY <1>2, StartedIs, FS_EmptySet
<1>4. WaitFits(q)
  <2>1. PICK a \in Auth : TRUE
    BY SomeAuths
  <2>2. 0 <= Retries[a] /\ 0 <= 0 * MaxWait
    BY RetryConfig
  <2> QED
    BY <1>1, <1>2, <2>2, StartedIs DEF WaitFits, MayHaveRetried
<1>5. RequestFits(q)
  BY <1>1, <1>2, <1>3, <1>4 DEF RequestFits
<1> QED
  BY <1>5 DEF q
(* A request that moves on within a round. *)
LEMMA StaysFit ==
  ASSUME NEW q, RequestFits(q), q.pc # "wait",
         NEW p \in RequestRecord, p.pc # "wait",
         p.pc \in {"prepare", "preparing", "call", "relay"} => p.models # <<>>,
         p.pc \in {"prepare", "preparing"} => p.auth \in Preparing,
         p.pc = "unprepared" => p.lastErr.kind \in Failure,
         p.tried = q.tried, p.picks = q.picks, p.waited = q.waited, p.attempt = q.attempt,
         ~p.faulted
  PROVE  RequestFits(p)
  BY DEF RequestFits, WaitFits

LEMMA RoundFailsFits ==
  ASSUME NEW q \in RequestRecord, WaitFits(q), q.pc # "wait", NEW err \in Errors,
         q.faulted => IsRequestInvalid(err.kind)
  PROVE  RequestFits(RoundFails(q, err)) /\ RoundFails(q, err).pc = "decide"
<1> DEFINE nobody == {}
           nothing == <<>>
           p == [q EXCEPT !.pc = "decide", !.tried = nobody, !.attempted = nobody, !.auth = SomeAuth,
                          !.models = nothing, !.picks = 0, !.lastErr = err]
<1>1. RoundFails(q, err) = p
  BY DEF RoundFails
<1>2. nobody \in SUBSET Auth /\ nothing \in Seq(Model) /\ "decide" \in Places
  BY DEF Places
<1> HIDE DEF nobody, nothing
<1>3. /\ p \in RequestRecord /\ p.pc = "decide" /\ p.tried = nobody /\ p.picks = 0
      /\ p.lastErr = err /\ p.faulted = q.faulted /\ p.waited = q.waited /\ p.attempt = q.attempt
  BY <1>2, SomeAuthIs, RequestRecordIs
<1> HIDE DEF p
<1>4. p.picks = Cardinality(p.tried)
  BY <1>3, FS_EmptySet DEF nobody
<1>5. WaitFits(p)
  BY <1>3 DEF WaitFits
<1>6. RequestFits(p)
  BY <1>3, <1>4, <1>5 DEF RequestFits
<1> QED
  BY <1>1, <1>3, <1>6

LEMMA AfterFailureFits ==
  ASSUME NEW q, RequestFits(q), q.pc = "call",
         NEW kind \in Failure, NEW err \in Errors, err.kind = kind
  PROVE  RequestFits(AfterFailure(q, kind, err)) /\ AfterFailure(q, kind, err).pc # "preparing"
<1> DEFINE fault == q.faulted \/ kind \in RequestFaults
           blamed == [q EXCEPT !.faulted = fault]
           nothing == <<>>
           next == [blamed EXCEPT !.models = Tail(q.models)]
           other == [blamed EXCEPT !.pc = "pick", !.lastErr = err, !.models = nothing]
<1>1. q \in RequestRecord /\ q.models \in Seq(Model) /\ q.models # <<>> /\ ~q.faulted /\ WaitFits(q)
  BY RequestFields DEF RequestFits
<1>2. fault \in BOOLEAN /\ (fault <=> IsRequestInvalid(kind))
  BY <1>1 DEF IsRequestInvalid, RequestFaults
<1>3. AfterFailure(q, kind, err) =
        IF IsRequestInvalid(kind) THEN RoundFails(blamed, err)
        ELSE IF Len(q.models) > 1 THEN next ELSE other
  BY <1>1, RequestRecordIs DEF AfterFailure
<1> HIDE DEF fault
<1>4. /\ blamed \in RequestRecord /\ blamed.pc = "call" /\ blamed.faulted = fault
      /\ blamed.tried = q.tried /\ blamed.picks = q.picks /\ blamed.waited = q.waited
      /\ blamed.attempt = q.attempt /\ blamed.models = q.models
  BY <1>1, <1>2, RequestRecordIs
<1> HIDE DEF blamed
<1>5. CASE IsRequestInvalid(kind)
  <2>1. WaitFits(blamed)
    BY <1>1, <1>4 DEF WaitFits
  <2>2. RequestFits(RoundFails(blamed, err)) /\ RoundFails(blamed, err).pc = "decide"
    BY <1>4, <1>5, <2>1, RoundFailsFits
  <2> QED
    BY <1>3, <1>5, <2>2
<1>6. CASE ~IsRequestInvalid(kind) /\ Len(q.models) > 1
  <2>1. Tail(q.models) \in Seq(Model) /\ Tail(q.models) # <<>>
    <3>1. Tail(q.models) \in Seq(Model) /\ Len(Tail(q.models)) = Len(q.models) - 1 /\ Len(q.models) \in Nat
      BY <1>1, HeadTailProperties, LenProperties
    <3> DEFINE n == Len(q.models)
    <3>2. n \in Nat /\ n > 1 /\ Len(Tail(q.models)) = n - 1
      BY <1>6, <3>1
    <3> HIDE DEF n
    <3>3. n - 1 # 0
      BY <3>2
    <3>4. Len(<<>>) = 0
      BY EmptySeq
    <3> QED
      BY <3>1, <3>2, <3>3, <3>4, Zenon
  <2> DEFINE rest == Tail(q.models)
  <2> HIDE DEF rest
  <2>2. /\ next \in RequestRecord /\ next.pc = "call" /\ next.faulted = fault /\ next.models = rest
        /\ next.tried = q.tried /\ next.picks = q.picks /\ next.waited = q.waited
        /\ next.attempt = q.attempt
    BY <1>4, <2>1, RequestRecordIs DEF rest
  <2> HIDE DEF next
  <2>3. RequestFits(next)
    BY <1>2, <1>6, <2>1, <2>2, StaysFit DEF rest
  <2> QED
    BY <1>3, <1>6, <2>2, <2>3
<1>7. CASE ~IsRequestInvalid(kind) /\ ~(Len(q.models) > 1)
  <2>1. nothing \in Seq(Model) /\ "pick" \in Places
    BY DEF Places
  <2> HIDE DEF nothing
  <2>2. /\ other \in RequestRecord /\ other.pc = "pick" /\ other.faulted = fault
        /\ other.tried = q.tried /\ other.picks = q.picks /\ other.waited = q.waited
        /\ other.attempt = q.attempt
    BY <1>4, <2>1, RequestRecordIs
  <2> HIDE DEF other
  <2>3. RequestFits(other)
    BY <1>2, <1>7, <2>2, StaysFit
  <2> QED
    BY <1>3, <1>7, <2>2, <2>3
<1> QED
  BY <1>5, <1>6, <1>7

(* A pick: one credential more is tried, and counted. *)
LEMMA TriedFits ==
  ASSUME NEW q, RequestFits(q), q.pc = "pick", NEW a \in Auth \ q.tried
  PROVE  RequestFits(Tried(q, a)) /\ Tried(q, a).pc = "pick"
<1> DEFINE tried == q.tried \cup {a}
           picks == AnotherPick(q.picks)
           p == [q EXCEPT !.picks = picks, !.tried = tried]
<1>1. q \in RequestRecord /\ ~q.faulted /\ WaitFits(q) /\ q.picks = Cardinality(q.tried)
      /\ q.tried \in SUBSET Auth /\ q.picks \in Nat
  BY RequestFields DEF RequestFits
<1>2. IsFiniteSet(q.tried) /\ IsFiniteSet(Auth) /\ tried \in SUBSET Auth
  BY <1>1, SomeAuths, FS_Subset
<1>3. Cardinality(tried) = q.picks + 1
  BY <1>1, <1>2, FS_AddElement
<1>4. Cardinality(tried) <= Cardinality(Auth) /\ Cardinality(Auth) \in Nat
  BY <1>2, FS_Subset, FS_CardinalityType
<1>5. picks = Cardinality(tried) /\ picks \in Nat
  <2>1. Min({q.picks + 1, Cardinality(Auth) + 1}) = q.picks + 1
    BY <1>1, <1>3, <1>4, MinOfTwo
  <2> QED
    BY <1>1, <1>3, <2>1 DEF AnotherPick
<1>6. Tried(q, a) = p
  BY DEF Tried
<1> HIDE DEF tried, picks
<1>7. /\ p \in RequestRecord /\ p.pc = "pick" /\ p.tried = tried /\ p.picks = picks
      /\ p.faulted = q.faulted /\ p.waited = q.waited /\ p.attempt = q.attempt
  BY <1>1, <1>2, <1>5, RequestRecordIs
<1> HIDE DEF p
<1>8. WaitFits(p)
  BY <1>1, <1>7 DEF WaitFits
<1> QED
  BY <1>1, <1>5, <1>6, <1>7, <1>8 DEF RequestFits

LEMMA AttemptedFits ==
  ASSUME NEW q, RequestFits(q), q.pc = "pick", NEW a \in Auth,
         NEW models \in Seq(Model), models # <<>>
  PROVE  RequestFits(Attempted(q, a, models)) /\ Attempted(q, a, models).pc # "preparing"
<1> DEFINE attempted == q.attempted \cup {a}
           place == IF a \in Preparing \ prepared THEN "prepare" ELSE "call"
           p == [q EXCEPT !.pc = place, !.auth = a, !.models = models, !.attempted = attempted]
<1>1. q \in RequestRecord /\ ~q.faulted /\ attempted \in SUBSET Auth
  BY RequestFields DEF RequestFits
<1>2. place \in Places /\ place \in {"prepare", "call"} /\ (place = "prepare" => a \in Preparing)
  BY DEF Places
<1>3. Attempted(q, a, models) = p
  BY DEF Attempted
<1> HIDE DEF attempted, place
<1>4. /\ p \in RequestRecord /\ p.pc = place /\ p.tried = q.tried /\ p.picks = q.picks
      /\ p.models = models /\ p.auth = a
      /\ p.faulted = q.faulted /\ p.waited = q.waited /\ p.attempt = q.attempt
  BY <1>1, <1>2, RequestRecordIs
<1> HIDE DEF p
<1>5. p.models # <<>>
  BY <1>4
<1> QED
  BY <1>1, <1>2, <1>3, <1>4, <1>5, StaysFit

-----------------------------------------------------------------------------
(* The steps of one request.  A step replaces the request, by one that is   *)
(* given up when an upstream blamed it, and at most one credential, by the  *)
(* result of a call under way.                                              *)
Recorded(r, m) ==
  /\ MayRecord(req[r].auth, m)
  /\ \E new : Follows(auths[req[r].auth], new, m) /\ MarkResult(r, m, new)
Blamed(q) == q.pc = "decide" /\ IsRequestInvalid(q.lastErr.kind)
MovesTo(r, p) ==
  /\ RequestFits(p) /\ p.pc # "preparing"
  /\ req' = [req EXCEPT ![r] = p]
  /\ Blamed(req[r]) => p.pc = "error"
Stepped(r) ==
  /\ \E p : MovesTo(r, p)
  /\ (auths' = auths /\ UNCHANGED preparations) \/ \E m \in Model : Recorded(r, m)
  /\ offsets' \in [Auth -> [Model -> Nat]]

LEMMA IInvFacts ==
  ASSUME IInv, NEW r \in Request
  PROVE  /\ RequestFits(req[r]) /\ req[r] \in RequestRecord /\ req[r].auth \in Auth
         /\ Coherent(auths[req[r].auth]) \/ Overtaken(auths[req[r].auth])
         /\ DOMAIN auths = Auth /\ offsets \in [Auth -> [Model -> Nat]] /\ Route[r] \in Model
         /\ req[r].pc \in {"call", "relay"} => CurrentModel(r) \in Model
<1>1. RequestFits(req[r]) /\ req[r] \in RequestRecord /\ Route[r] \in Model
  BY RequestsTyped DEF IInv, RequestFits
<1>2. req[r].auth \in Auth /\ req[r].models \in Seq(Model)
  BY <1>1, RequestFields
<1>3. ASSUME req[r].pc \in {"call", "relay"} PROVE CurrentModel(r) \in Model
  <2>1. req[r].models # <<>>
    BY <1>1, <1>3 DEF RequestFits
  <2>2. Head(req[r].models) \in Model
    BY <1>2, <2>1, HeadTailProperties
  <2> QED
    BY <1>1, <1>2, <2>2, StateModelTyped DEF CurrentModel
<1> QED
  BY <1>1, <1>2, <1>3 DEF IInv

LEMMA FailureIsRecorded ==
  ASSUME IInv, NEW r \in Request, req[r].pc \in {"call", "relay"},
         NEW kind \in Failure, NEW t \in TimeValue, MarkFailure(r, kind, t)
  PROVE  \E m \in Model : Recorded(r, m)
<1> DEFINE a == req[r].auth
           m == CurrentModel(r)
           new == RecordFailure(auths[a], m, kind, t, 0)
<1>1. (Coherent(auths[a]) \/ Overtaken(auths[a])) /\ m \in Model
  BY IInvFacts
<1>2. MarkResult(r, m, new)
  BY DEF MarkFailure
<1>3. MayRecord(a, m)
  BY DEF MayRecord
<1> HIDE DEF m
<1>4. Follows(auths[a], new, m)
  BY <1>1, FailureIs
<1> HIDE DEF new
<1>5. Recorded(r, m)
  BY <1>2, <1>3, <1>4 DEF Recorded
<1> QED
  BY <1>1, <1>5

LEMMA SuccessIsRecorded ==
  ASSUME IInv, NEW r \in Request, req[r].pc \in {"call", "relay"}, MarkSuccess(r)
  PROVE  \E m \in Model : Recorded(r, m)
<1> DEFINE a == req[r].auth
           m == CurrentModel(r)
           new == RecordSuccess(auths[a], m, 0)
<1>1. (Coherent(auths[a]) \/ Overtaken(auths[a])) /\ m \in Model
  BY IInvFacts
<1>2. MarkResult(r, m, new)
  BY DEF MarkSuccess
<1>3. MayRecord(a, m)
  BY DEF MayRecord
<1> HIDE DEF m
<1>4. Follows(auths[a], new, m)
  BY <1>1, SuccessIs
<1> HIDE DEF new
<1>5. Recorded(r, m)
  BY <1>2, <1>3, <1>4 DEF Recorded
<1> QED
  BY <1>1, <1>5

(* A request that ends. *)
LEMMA FinishedFits ==
  ASSUME NEW r \in Request, NEW outcome \in Done,
         req' = [req EXCEPT ![r] = Finished(outcome)], Blamed(req[r]) => outcome = "error"
  PROVE  \E p : MovesTo(r, p)
<1>1. RequestFits(Finished(outcome))
  BY StartedFits DEF Finished
<1>2. Finished(outcome).pc = outcome
  BY DEF Finished, Started
<1>3. outcome # "preparing"
  BY DEF Done
<1> QED
  BY <1>1, <1>2, <1>3 DEF MovesTo

LEMMA AnswersTypedIs ==
  ASSUME NEW kind \in Kinds, NEW t \in RetryAfters
  PROVE  kind \in Failure /\ t \in TimeValue /\ NoRetryAfter \in TimeValue
         /\ Err(kind, t) \in Errors /\ Err(kind, t).kind = kind
         /\ Err(kind, NoRetryAfter) \in Errors /\ Err(kind, NoRetryAfter).kind = kind
<1>1. kind \in Failure /\ t \in TimeValue /\ NoRetryAfter \in TimeValue
  BY AnswersTyped DEF TimeValue, ZeroTime, NoRetryAfter
<1> QED
  BY <1>1, ErrorsTyped

LEMMA CallSucceedsSteps ==
  ASSUME IInv, NEW r \in Request, CallSucceeds(r) PROVE Stepped(r)
<1>1. req[r].pc = "call" /\ MarkSuccess(r) /\ offsets' = offsets
      /\ req' = [req EXCEPT ![r] = Finished("served")]
  BY DEF CallSucceeds
<1>2. \E p : MovesTo(r, p)
  BY <1>1, FinishedFits DEF Blamed, Done
<1> QED
  BY <1>1, <1>2, SuccessIsRecorded, IInvFacts DEF Stepped

LEMMA RelayEndsSteps ==
  ASSUME IInv, NEW r \in Request, RelayEnds(r) PROVE Stepped(r)
<1>1. req[r].pc = "relay" /\ MarkSuccess(r) /\ offsets' = offsets
      /\ req' = [req EXCEPT ![r] = Finished("served")]
  BY DEF RelayEnds
<1>2. \E p : MovesTo(r, p)
  BY <1>1, FinishedFits DEF Blamed, Done
<1> QED
  BY <1>1, <1>2, SuccessIsRecorded, IInvFacts DEF Stepped

LEMMA RelayBreaksSteps ==
  ASSUME IInv, NEW r \in Request, NEW kind \in Kinds, RelayBreaks(r, kind) PROVE Stepped(r)
<1>1. req[r].pc = "relay" /\ MarkFailure(r, kind, NoRetryAfter) /\ offsets' = offsets
      /\ req' = [req EXCEPT ![r] = Finished("served")]
  BY DEF RelayBreaks
<1>2. \E p : MovesTo(r, p)
  BY <1>1, FinishedFits DEF Blamed, Done
<1>3. kind \in Failure /\ NoRetryAfter \in TimeValue
  BY AnswersTyped DEF TimeValue, ZeroTime, NoRetryAfter
<1> QED
  BY <1>1, <1>2, <1>3, FailureIsRecorded, IInvFacts DEF Stepped

LEMMA CancelledSteps ==
  ASSUME IInv, NEW r \in Request, Cancelled(r) PROVE Stepped(r)
<1>1. req[r].pc \in {"call", "relay", "wait"} /\ auths' = auths /\ UNCHANGED preparations /\ offsets' = offsets
      /\ req' = [req EXCEPT ![r] = Finished("cancelled")]
  BY DEF Cancelled
<1>2. \E p : MovesTo(r, p)
  BY <1>1, FinishedFits DEF Blamed, Done
<1> QED
  BY <1>1, <1>2, IInvFacts DEF Stepped

LEMMA CancelledAfterFailureSteps ==
  ASSUME IInv, NEW r \in Request, NEW kind \in Kinds, NEW t \in RetryAfters,
         CancelledAfterFailure(r, kind, t)
  PROVE  Stepped(r)
<1>1. req[r].pc = "call" /\ MarkFailure(r, kind, t) /\ offsets' = offsets
      /\ req' = [req EXCEPT ![r] = Finished("cancelled")]
  BY DEF CancelledAfterFailure
<1>2. \E p : MovesTo(r, p)
  BY <1>1, FinishedFits DEF Blamed, Done
<1> QED
  BY <1>1, <1>2, AnswersTypedIs, FailureIsRecorded, IInvFacts DEF Stepped

(* A failed call. *)
LEMMA FailedCallSteps ==
  ASSUME IInv, NEW r \in Request, req[r].pc = "call",
         NEW kind \in Failure, NEW t \in TimeValue, MarkFailure(r, kind, t),
         NEW err \in Errors, err.kind = kind,
         req' = [req EXCEPT ![r] = AfterFailure(@, kind, err)], offsets' = offsets
  PROVE  Stepped(r)
<1> DEFINE p == AfterFailure(req[r], kind, err)
<1>1. RequestFits(p) /\ p.pc # "preparing"
  BY IInvFacts, AfterFailureFits
<1>2. req' = [req EXCEPT ![r] = p]
  OBVIOUS
<1> HIDE DEF p
<1>3. MovesTo(r, p)
  BY <1>1, <1>2 DEF MovesTo, Blamed
<1> QED
  BY <1>3, FailureIsRecorded, IInvFacts DEF Stepped

LEMMA CallFailsSteps ==
  ASSUME IInv, NEW r \in Request, NEW kind \in Kinds, NEW t \in RetryAfters, CallFails(r, kind, t)
  PROVE  Stepped(r)
<1>1. /\ req[r].pc = "call" /\ MarkFailure(r, kind, t) /\ offsets' = offsets
      /\ req' = [req EXCEPT ![r] = AfterFailure(@, kind, Err(kind, t))]
  BY DEF CallFails
<1> QED
  BY <1>1, AnswersTypedIs, FailedCallSteps

LEMMA StreamBreaksSteps ==
  ASSUME IInv, NEW r \in Request, NEW kind \in Kinds, NEW t \in RetryAfters, StreamBreaks(r, kind, t)
  PROVE  Stepped(r)
<1> DEFINE wrapped == ~IsRequestInvalid(kind) /\ Len(req[r].models) = 1
           err == Err(kind, IF wrapped THEN NoRetryAfter ELSE t)
<1>1. /\ req[r].pc = "call" /\ MarkFailure(r, kind, t) /\ offsets' = offsets
      /\ req' = [req EXCEPT ![r] = AfterFailure(@, kind, err)]
  BY DEF StreamBreaks
<1>2. err \in Errors /\ err.kind = kind
  BY AnswersTypedIs
<1> HIDE DEF err
<1> QED
  BY <1>1, <1>2, AnswersTypedIs, FailedCallSteps

LEMMA StreamIsEmptySteps ==
  ASSUME IInv, NEW r \in Request, StreamIsEmpty(r)
  PROVE  Stepped(r)
<1>1. /\ req[r].pc = "call" /\ MarkFailure(r, "other", NoRetryAfter) /\ offsets' = offsets
      /\ req' = [req EXCEPT ![r] = AfterFailure(@, "other", Err("other", NoRetryAfter))]
  BY DEF StreamIsEmpty
<1>2. "other" \in Failure /\ NoRetryAfter \in TimeValue
  BY DEF Failure, TimeValue, ZeroTime, NoRetryAfter
<1>3. Err("other", NoRetryAfter) \in Errors /\ Err("other", NoRetryAfter).kind = "other"
  BY <1>2, ErrorsTyped
<1> QED
  BY <1>1, <1>2, <1>3, FailedCallSteps
(* A request that only changes its place. *)
LEMMA PlaceSteps ==
  ASSUME IInv, NEW r \in Request, req[r].pc \in {"call", "prepare"},
         NEW place \in {"call", "relay"},
         req[r].models # <<>>,
         req' = [req EXCEPT ![r].pc = place], auths' = auths, UNCHANGED preparations, offsets' = offsets
  PROVE  Stepped(r)
<1> DEFINE q == req[r]
           p == [q EXCEPT !.pc = place]
<1>1. RequestFits(q) /\ q \in RequestRecord /\ ~q.faulted /\ q.pc # "wait" /\ q.pc # "decide"
  BY IInvFacts DEF RequestFits
<1>2. req' = [req EXCEPT ![r] = p]
  OBVIOUS
<1>3. place \in Places
  BY DEF Places
<1>4. q.models # <<>> /\ ~Blamed(q)
  BY <1>1 DEF Blamed
<1> HIDE DEF q
<1>5. /\ p \in RequestRecord /\ p.pc = place /\ p.models = q.models /\ p.faulted = q.faulted
      /\ p.tried = q.tried /\ p.picks = q.picks /\ p.waited = q.waited /\ p.attempt = q.attempt
  BY <1>1, <1>3, RequestRecordIs
<1> HIDE DEF p
<1>6. p.pc # "wait" /\ p.models # <<>> /\ ~p.faulted
  BY <1>1, <1>4, <1>5
<1>7. RequestFits(p)
  BY <1>1, <1>5, <1>6, StaysFit, Zenon
<1>8. MovesTo(r, p)
  BY <1>2, <1>4, <1>5, <1>7 DEF MovesTo, q
<1> QED
  BY <1>8, IInvFacts DEF Stepped

LEMMA StreamOpensSteps ==
  ASSUME IInv, NEW r \in Request, StreamOpens(r) PROVE Stepped(r)
<1>1. req[r].pc = "call" /\ req' = [req EXCEPT ![r].pc = "relay"] /\ auths' = auths /\ UNCHANGED preparations /\ offsets' = offsets
  BY DEF StreamOpens
<1>2. req[r].models # <<>>
  BY <1>1, IInvFacts DEF RequestFits
<1> QED
  BY <1>1, <1>2, PlaceSteps
(* The failure of a preparation. *)
LEMMA MarkUnpreparedSteps ==
  ASSUME IInv, NEW r \in Request, MarkUnprepared(r) PROVE Stepped(r)
<1> DEFINE q == req[r]
           a == req[r].auth
           m == Route[r]
           new == RecordFailure(auths[a], m, q.lastErr.kind, NoRetryAfter, 0)
           nothing == <<>>
           p == [q EXCEPT !.pc = "pick", !.models = nothing]
<1>1. q.pc = "unprepared" /\ MarkResult(r, m, new) /\ offsets' = offsets
  BY DEF MarkUnprepared
<1>2. req' = [req EXCEPT ![r] = p]
  BY DEF MarkUnprepared, IInv
<1>3. RequestFits(q) /\ q \in RequestRecord /\ ~q.faulted /\ q.lastErr.kind \in Failure
      /\ (Coherent(auths[a]) \/ Overtaken(auths[a])) /\ m \in Model
  BY <1>1, IInvFacts DEF RequestFits
<1>4. MayRecord(a, m)
  BY <1>1 DEF MayRecord
<1>5. NoRetryAfter \in TimeValue
  BY DEF NoRetryAfter, TimeValue, ZeroTime
<1>6. Follows(auths[a], new, m)
  BY <1>3, <1>5, FailureIs
<1> HIDE DEF new, m
<1>7. Recorded(r, m)
  BY <1>1, <1>4, <1>6 DEF Recorded
<1>8. nothing \in Seq(Model) /\ "pick" \in Places /\ ~Blamed(q) /\ m \in Model
  BY <1>1, <1>3 DEF Places, Blamed
<1> HIDE DEF q, nothing
<1>9. /\ p \in RequestRecord /\ p.pc = "pick" /\ p.faulted = q.faulted
      /\ p.tried = q.tried /\ p.picks = q.picks /\ p.waited = q.waited /\ p.attempt = q.attempt
  BY <1>3, <1>8, RequestRecordIs
<1>10. q.pc # "wait"
  BY <1>1
<1> HIDE DEF p
<1>11. RequestFits(p)
  BY <1>3, <1>9, <1>10, StaysFit
<1>12. MovesTo(r, p)
  BY <1>2, <1>8, <1>9, <1>11 DEF MovesTo, q
<1> QED
  BY <1>1, <1>7, <1>8, <1>12, IInvFacts DEF Stepped

LEMMA PickErrorTyped ==
  ASSUME NEW r \in Request
  PROVE  PickError(r) \in Errors /\ Err("authNotFound", NoRetryAfter) \in Errors
<1>1. NoRetryAfter \in TimeValue /\ {"authNotFound", "authUnavailable", "modelCooldown"} \subseteq Failure \cup PickErrors
  BY DEF PickErrors, TimeValue, ZeroTime, NoRetryAfter
<1>2. {Err("authNotFound", NoRetryAfter), Err("modelCooldown", NoRetryAfter),
       Err("authUnavailable", NoRetryAfter)} \subseteq Errors
  BY <1>1, ErrorsTyped
<1> QED
  BY <1>2 DEF PickError

LEMMA EndRoundSteps ==
  ASSUME IInv, NEW r \in Request, EndRound(r) PROVE Stepped(r)
<1> DEFINE q == req[r]
           own == IF LimitReached(r) THEN Err("authNotFound", NoRetryAfter) ELSE PickError(r)
           err == IF q.lastErr # NoError THEN q.lastErr ELSE own
           p == RoundFails(q, err)
<1>1. req[r].pc = "pick" /\ req' = [req EXCEPT ![r] = p] /\ auths' = auths /\ UNCHANGED preparations /\ offsets' = offsets
  BY DEF EndRound
<1>2. q \in RequestRecord /\ WaitFits(q) /\ ~q.faulted /\ q.lastErr \in Errors
  BY <1>1, IInvFacts, RequestFields DEF RequestFits
<1>3. err \in Errors
  BY <1>2, PickErrorTyped
<1>4. ~Blamed(req[r])
  BY <1>1 DEF Blamed
<1> HIDE DEF err
<1>5. RequestFits(p) /\ p.pc = "decide"
  BY <1>1, <1>2, <1>3, RoundFailsFits
<1>6. MovesTo(r, p)
  BY <1>1, <1>4, <1>5 DEF MovesTo
<1> QED
  BY <1>1, <1>6, IInvFacts DEF Stepped

LEMMA PickSteps ==
  ASSUME IInv, NEW r \in Request, Pick(r) PROVE Stepped(r)
<1> DEFINE q == req[r]
           m == Route[r]
<1>1. PICK a \in Pickable(r) :
        LET models == ExecutionModels(a, m)
        IN  /\ offsets' = [offsets EXCEPT ![a][m] = (@ + 1) % Len(Pool[a][m])]
            /\ IF models = <<>>
               THEN req' = [req EXCEPT ![r] = Tried(@, a)]
               ELSE req' = [req EXCEPT ![r] = Attempted(Tried(@, a), a, models)]
  BY DEF Pick
<1> DEFINE models == ExecutionModels(a, m)
           p == IF models = <<>> THEN Tried(q, a) ELSE Attempted(Tried(q, a), a, models)
<1>2. req[r].pc = "pick" /\ auths' = auths /\ UNCHANGED preparations
  BY DEF Pick
<1>3. a \in Candidates(r)
  BY DEF Pickable, Best, Available
<1>4. a \in Auth \ q.tried /\ Pool[a][m] # <<>>
  BY <1>3 DEF Candidates
<1>5. RequestFits(q) /\ offsets \in [Auth -> [Model -> Nat]] /\ m \in Model
  BY IInvFacts
<1>6. models \in Seq(Model)
  BY <1>4, <1>5, ExecutionModelsTyped
<1>7. req' = [req EXCEPT ![r] = p]
  BY <1>1
<1>8. offsets' \in [Auth -> [Model -> Nat]]
  <2>1. Len(Pool[a][m]) \in Nat \ {0}
    BY <1>4, <1>5, PoolsTyped, EmptySeq
  <2> DEFINE n == Len(Pool[a][m])
             x == offsets[a][m] + 1
  <2>2. x \in Nat /\ n \in Nat /\ n > 0
    BY <1>4, <1>5, <2>1
  <2> HIDE DEF n, x
  <2>3. x % n \in Nat
    BY <2>2
  <2>4. offsets' = [offsets EXCEPT ![a] = [offsets[a] EXCEPT ![m] = x % n]]
    BY <1>1 DEF n, x
  <2>5. [offsets[a] EXCEPT ![m] = x % n] \in [Model -> Nat]
    BY <1>4, <1>5, <2>3
  <2> QED
    BY <1>4, <1>5, <2>4, <2>5
<1>9. ~Blamed(req[r])
  BY <1>2 DEF Blamed
<1>10. RequestFits(p) /\ p.pc # "preparing"
  <2>1. RequestFits(Tried(q, a)) /\ Tried(q, a).pc = "pick"
    BY <1>2, <1>4, <1>5, TriedFits
  <2> HIDE DEF models
  <2>2. models # <<>> => /\ RequestFits(Attempted(Tried(q, a), a, models))
                         /\ Attempted(Tried(q, a), a, models).pc # "preparing"
    BY <1>4, <1>6, <2>1, AttemptedFits
  <2> QED
    BY <2>1, <2>2
<1> HIDE DEF p
<1>11. MovesTo(r, p)
  BY <1>7, <1>9, <1>10 DEF MovesTo
<1> QED
  BY <1>2, <1>8, <1>11 DEF Stepped
(* The waits before another round are allowed, and there is none for a      *)
(* request an upstream blamed.                                              *)
LEMMA RetryWaitsAre ==
  ASSUME NEW r \in Request
  PROVE  /\ \A w \in RetryWaits(r) : w \in Nat /\ w <= MaxWait /\ MayRetry(req[r].attempt)
         /\ IsRequestInvalid(req[r].lastErr.kind) => RetryWaits(r) = {}
<1> DEFINE cooldowns == CooldownWaits(r)
           err == req[r].lastErr
<1>1. RetryWaits(r) =
        IF MaxWait = 0 \/ IsRequestInvalid(err.kind) THEN {}
        ELSE IF cooldowns # {} THEN {Min(cooldowns)} \cap 1 .. MaxWait
        ELSE IF err.kind \in {"quota", "modelCooldown"} /\ RetryAllowed(r)
        THEN {err.retryAfter} \cap 1 .. MaxWait
        ELSE {}
  BY DEF RetryWaits
<1>2. cooldowns # {} => MayRetry(req[r].attempt)
  BY DEF CooldownWaits, MayRetry
<1>3. RetryAllowed(r) => MayRetry(req[r].attempt)
  BY DEF RetryAllowed, MayRetry
<1>4. MaxWait \in Nat
  BY RetryConfig
<1> HIDE DEF cooldowns
<1>5. ASSUME NEW w \in RetryWaits(r) PROVE w \in 1 .. MaxWait /\ MayRetry(req[r].attempt)
  BY <1>1, <1>2, <1>3
<1>6. \A w \in RetryWaits(r) : w \in Nat /\ w <= MaxWait /\ MayRetry(req[r].attempt)
  BY <1>4, <1>5
<1> QED
  BY <1>1, <1>6

LEMMA GiveUpSteps ==
  ASSUME IInv, NEW r \in Request, GiveUp(r) PROVE Stepped(r)
<1>1. auths' = auths /\ UNCHANGED preparations /\ offsets' = offsets /\ req' = [req EXCEPT ![r] = Finished("error")]
  BY DEF GiveUp
<1>2. \E p : MovesTo(r, p)
  BY <1>1, FinishedFits DEF Done
<1> QED
  BY <1>1, <1>2, IInvFacts DEF Stepped

LEMMA StartWaitSteps ==
  ASSUME IInv, NEW r \in Request, StartWait(r) PROVE Stepped(r)
<1> DEFINE q == req[r]
<1>1. PICK w \in RetryWaits(r) : req' = [req EXCEPT ![r] = Waiting(q, w)]
  BY DEF StartWait
<1> DEFINE waited == Min({q.waited + w, WaitBound + 1})
           p == [q EXCEPT !.pc = "wait", !.wait = w, !.waited = waited]
<1>2. q.pc = "decide" /\ auths' = auths /\ UNCHANGED preparations /\ offsets' = offsets
  BY DEF StartWait
<1>3. w \in Nat /\ w <= MaxWait /\ MayRetry(q.attempt) /\ ~Blamed(q)
  BY RetryWaitsAre DEF Blamed
<1>4. RequestFits(q) /\ q \in RequestRecord
  BY IInvFacts
<1>5. q.waited \in Nat /\ q.attempt \in Nat /\ MaxWait \in Nat /\ WaitBound \in Nat
  BY <1>4, RequestFields, RetryConfig, WorkFits
<1>6. q.waited <= q.attempt * MaxWait /\ ~q.faulted /\ q.picks = Cardinality(q.tried)
  BY <1>2, <1>3, <1>4 DEF RequestFits, WaitFits, Blamed
<1>7. (q.attempt + 1) * MaxWait = q.attempt * MaxWait + MaxWait /\ q.attempt * MaxWait \in Nat
  BY <1>5, ProductsGrow
<1>8. waited \in Nat /\ waited <= q.waited + w
  BY <1>3, <1>5, MinOfTwo
<1>9. req' = [req EXCEPT ![r] = p]
  BY <1>1 DEF Waiting
<1>10. "wait" \in Places
  BY DEF Places
<1> HIDE DEF q, waited
<1>11. /\ p \in RequestRecord /\ p.pc = "wait" /\ p.waited = waited /\ p.tried = q.tried
       /\ p.picks = q.picks /\ p.faulted = q.faulted /\ p.attempt = q.attempt
  BY <1>3, <1>4, <1>8, <1>10, RequestRecordIs
<1> HIDE DEF p
<1>12. waited <= (q.attempt + 1) * MaxWait
  <2> DEFINE x == q.attempt * MaxWait
             y == (q.attempt + 1) * MaxWait
  <2>1. x \in Nat /\ y = x + MaxWait /\ q.waited <= x
    BY <1>6, <1>7
  <2> HIDE DEF x, y
  <2>2. waited <= y
    BY <1>3, <1>5, <1>8, <2>1
  <2> QED
    BY <2>2 DEF y
<1>13. WaitFits(p)
  BY <1>3, <1>11, <1>12 DEF WaitFits
<1>14. RequestFits(p)
  BY <1>6, <1>11, <1>13 DEF RequestFits
<1>15. MovesTo(r, p)
  BY <1>3, <1>9, <1>11, <1>14 DEF MovesTo, q
<1> QED
  BY <1>2, <1>15, IInvFacts DEF Stepped

LEMMA WaitOverSteps ==
  ASSUME IInv, NEW r \in Request, WaitOver(r) PROVE Stepped(r)
<1> DEFINE q == req[r]
           attempt == q.attempt + 1
           p == [q EXCEPT !.pc = "pick", !.attempt = attempt, !.lastErr = NoError]
<1>1. q.pc = "wait" /\ auths' = auths /\ UNCHANGED preparations /\ offsets' = offsets /\ req' = [req EXCEPT ![r] = NextRound(@)]
  BY DEF WaitOver
<1>2. NextRound(q) = p
  BY DEF NextRound
<1>3. RequestFits(q) /\ q \in RequestRecord /\ q.attempt \in Nat
  BY IInvFacts, RequestFields
<1>4. q.waited <= attempt * MaxWait /\ MayRetry(q.attempt) /\ ~q.faulted /\ q.picks = Cardinality(q.tried)
  BY <1>1, <1>3 DEF RequestFits, WaitFits
<1>5. MayHaveRetried(attempt) /\ attempt \in Nat
  <2>1. PICK a \in Auth : q.attempt < Retries[a]
    BY <1>4 DEF MayRetry
  <2>2. Retries[a] \in Nat
    BY RetryConfig
  <2>3. attempt <= Retries[a] /\ attempt \in Nat
    BY <1>3, <2>1, <2>2
  <2> QED
    BY <2>3 DEF MayHaveRetried
<1>6. "pick" \in Places /\ NoError \in Errors /\ ~Blamed(q)
  BY <1>1, ErrorsTyped DEF Places, Blamed
<1>7. req' = [req EXCEPT ![r] = p]
  BY <1>1, <1>2
<1> HIDE DEF q, attempt
<1>8. /\ p \in RequestRecord /\ p.pc = "pick" /\ p.attempt = attempt /\ p.tried = q.tried
      /\ p.picks = q.picks /\ p.faulted = q.faulted /\ p.waited = q.waited
  BY <1>3, <1>5, <1>6, RequestRecordIs
<1> HIDE DEF p
<1>9. WaitFits(p)
  BY <1>4, <1>5, <1>8 DEF WaitFits
<1>10. RequestFits(p)
  BY <1>4, <1>8, <1>9 DEF RequestFits
<1>11. MovesTo(r, p)
  BY <1>6, <1>7, <1>8, <1>10 DEF MovesTo, q
<1> QED
  BY <1>1, <1>11, IInvFacts DEF Stepped, q

(* Every step of a request but those of a preparation. *)
PreparationStep(r) ==
  \/ Prepare(r) \/ Prepared(r)
  \/ \E kind \in Kinds, retryAfter \in RetryAfters : PrepareFails(r, kind, retryAfter)

LEMMA AdvanceSteps ==
  ASSUME IInv, NEW r \in Request, Advance(r) \/ Cancelled(r)
  PROVE  Stepped(r) \/ PreparationStep(r)
<1>1. ASSUME Answer(r) PROVE Stepped(r) \/ PreparationStep(r)
  <2>1. ASSUME NEW kind \in Kinds, RelayBreaks(r, kind) PROVE Stepped(r)
    BY <2>1, RelayBreaksSteps
  <2>2. ASSUME NEW kind \in Kinds, NEW t \in RetryAfters,
               CallFails(r, kind, t) \/ StreamBreaks(r, kind, t) \/ CancelledAfterFailure(r, kind, t)
        PROVE  Stepped(r)
    BY <2>2, CallFailsSteps, StreamBreaksSteps, CancelledAfterFailureSteps
  <2>3. ASSUME CallSucceeds(r) \/ StreamIsEmpty(r) \/ StreamOpens(r) \/ RelayEnds(r)
        PROVE  Stepped(r)
    BY <2>3, CallSucceedsSteps, StreamIsEmptySteps, StreamOpensSteps, RelayEndsSteps
  <2>4. ASSUME NEW kind \in Kinds, NEW t \in RetryAfters, PrepareFails(r, kind, t)
        PROVE  PreparationStep(r)
    BY <2>4 DEF PreparationStep
  <2>5. ASSUME Prepared(r) PROVE PreparationStep(r)
    BY <2>5 DEF PreparationStep
  <2> QED
    BY <1>1, <2>1, <2>2, <2>3, <2>4, <2>5 DEF Answer
<1>2. ASSUME Prepare(r) PROVE PreparationStep(r)
  BY <1>2 DEF PreparationStep
<1> QED
  BY <1>1, <1>2, EndRoundSteps, PickSteps, MarkUnpreparedSteps, GiveUpSteps, StartWaitSteps, WaitOverSteps,
     CancelledSteps DEF Advance
-----------------------------------------------------------------------------
(* The invariant is inductive. *)

LEMMA FreshAuthIs ==
  ASSUME NEW c \in BOOLEAN
  PROVE  Coherent([FreshAuth EXCEPT !.coolingDisabled = c]) /\ FreshAuth.coolingDisabled = FALSE
<1> DEFINE nothing == <<>>
           no == FALSE
           auth == [FreshAuth EXCEPT !.coolingDisabled = c]
<1>1. FreshAuth = [disabled |-> no, status |-> "active", unavailable |-> no,
                   nextRetryAfter |-> ZeroTime, lastError |-> "none", quota |-> NoQuota,
                   coolingDisabled |-> no, states |-> nothing]
  BY DEF FreshAuth
<1>2. NoQuota \in Quota /\ ~NoQuota.exceeded /\ ZeroTime \in TimeValue
  BY DEF NoQuota, Quota, TimeValue, ZeroTime
<1>3. DOMAIN nothing = {} /\ no \in BOOLEAN /\ ~no
  OBVIOUS
<1>4. nothing \in [DOMAIN nothing -> ModelState]
  BY <1>3
<1>5. IsFiniteSet(DOMAIN nothing)
  BY <1>3, FS_EmptySet
<1> HIDE DEF nothing, no
<1>6. /\ auth \in AuthRecord(nothing)
      /\ auth.disabled = no /\ auth.status = "active" /\ auth.unavailable = no
      /\ auth.lastError = "none" /\ auth.quota = NoQuota /\ auth.states = nothing
  BY <1>1, <1>2, <1>3 DEF AuthRecord
<1> HIDE DEF auth
<1>7. StatesFit(nothing)
  BY <1>3, <1>4, <1>5 DEF StatesFit
<1>8. Coherent(auth)
  BY <1>2, <1>3, <1>6, <1>7 DEF Coherent, WellFormed, AuthDisabled, Aggregated, QuotaAgrees, ActiveIsClean
<1>9. FreshAuth.coolingDisabled = FALSE
  BY <1>1 DEF no
<1> QED
  BY <1>8, <1>9 DEF auth

LEMMA NoCopyIs == CopyTyped(NoCopy)
<1> DEFINE none == {}
           new == [FreshAuth EXCEPT !.coolingDisabled = FALSE]
<1>1. NoCopy = [auth |-> FreshAuth, since |-> none] /\ none \subseteq Model
  BY DEF NoCopy
<1> HIDE DEF none
<1>2. NoCopy.auth = FreshAuth /\ NoCopy.since = none /\ NoCopy = [auth |-> NoCopy.auth, since |-> NoCopy.since]
  BY <1>1
<1>3. Coherent(new) /\ FreshAuth.coolingDisabled = FALSE
  <2>1. FALSE \in BOOLEAN
    OBVIOUS
  <2> QED
    BY <2>1, FreshAuthIs
<1>4. new = FreshAuth
  BY <1>3 DEF FreshAuth
<1>5. Coherent(FreshAuth)
  BY <1>3, <1>4
<1> QED
  BY <1>1, <1>2, <1>5 DEF CopyTyped

LEMMA IInvInit == Init => IInv
<1> SUFFICES ASSUME Init PROVE IInv
  OBVIOUS
<1>1. ASSUME NEW a \in Auth PROVE Coherent(auths[a])
  <2>1. auths[a] = [FreshAuth EXCEPT !.coolingDisabled = a \in CoolingDisabled]
    BY DEF Init
  <2>2. (a \in CoolingDisabled) \in BOOLEAN
    OBVIOUS
  <2> QED
    BY <2>1, <2>2, FreshAuthIs
<1>2. [Started EXCEPT !.pc = "pick"] = Started
  BY StartedIs, RequestRecordIs
<1>3. RequestFits(Started)
  BY <1>2, StartedFits
<1>4. Started \in RequestRecord
  BY <1>3 DEF RequestFits
<1>5. req \in [Request -> RequestRecord] /\ \A r \in Request : RequestFits(req[r])
  BY <1>3, <1>4 DEF Init
<1>6. DOMAIN auths = Auth /\ offsets \in [Auth -> [Model -> Nat]] /\ stale = {}
  BY DEF Init
<1>7. PreparationsFit
  <2>1. \A r \in Request : copies[r] = NoCopy /\ req[r].pc = "pick"
    BY StartedIs DEF Init
  <2>2. \A r \in Request : CopyTyped(copies[r]) /\ CopyFits(r) /\ Alone(r)
    BY <2>1, NoCopyIs DEF CopyFits, Alone
  <2> QED
    BY <2>2 DEF Init, PreparationsFit
<1> QED
  BY <1>1, <1>5, <1>6, <1>7 DEF IInv

LEMMA MarkResultIs ==
  ASSUME NEW r \in Request, NEW m, NEW new, MarkResult(r, m, new), DOMAIN copies = Request
  PROVE  /\ auths' = [auths EXCEPT ![req[r].auth] = new]
         /\ prepared' = prepared /\ DOMAIN copies' = Request
         /\ stale' = IF ShownClean(new) THEN stale ELSE stale \ {req[r].auth}
         /\ \A x \in Request :
              copies'[x] = IF req[x].pc = "preparing" /\ req[x].auth = req[r].auth
                           THEN [copies[x] EXCEPT !.since = @ \cup {m}] ELSE copies[x]
  BY DEF MarkResult

LEMMA ResultsSince ==
  ASSUME NEW c, CopyTyped(c), NEW m \in Model
  PROVE  LET d == [c EXCEPT !.since = @ \cup {m}]
         IN  CopyTyped(d) /\ d.auth = c.auth /\ d.since = c.since \cup {m}
<1> DEFINE d == [c EXCEPT !.since = @ \cup {m}]
<1>1. c = [auth |-> c.auth, since |-> c.since] /\ c.since \subseteq Model /\ Coherent(c.auth)
  BY DEF CopyTyped
<1>2. d.auth = c.auth /\ d.since = c.since \cup {m} /\ d = [auth |-> d.auth, since |-> d.since]
  BY <1>1
<1> HIDE DEF d
<1>3. CopyTyped(d)
  BY <1>1, <1>2 DEF CopyTyped
<1> QED
  BY <1>2, <1>3 DEF d

(* A result recorded while others prepare. *)
LEMMA RecordedKeeps ==
  ASSUME IInv, NEW r \in Request, NEW m \in Model, Recorded(r, m),
         NEW p, MovesTo(r, p)
  PROVE  /\ DOMAIN auths' = Auth
         /\ \A a \in Auth : IF a \in stale' THEN Overtaken(auths'[a]) ELSE Coherent(auths'[a])
         /\ PreparationsFit'
         /\ \A a \in Auth, n \in Model :
               MayRecord(a, n) \/ Remaining(auths'[a], n) = Remaining(auths[a], n)
<1> DEFINE b == req[r].auth
<1>1. PICK new : Follows(auths[b], new, m) /\ MarkResult(r, m, new)
  BY DEF Recorded
<1>2. DOMAIN auths = Auth /\ b \in Auth /\ DOMAIN copies = Request /\ MayRecord(b, m)
  BY IInvFacts DEF IInv, PreparationsFit, Recorded
<1>3. /\ auths' = [auths EXCEPT ![b] = new] /\ prepared' = prepared /\ DOMAIN copies' = Request
      /\ stale' = IF ShownClean(new) THEN stale ELSE stale \ {b}
      /\ \A x \in Request :
            copies'[x] = IF req[x].pc = "preparing" /\ req[x].auth = b
                         THEN [copies[x] EXCEPT !.since = @ \cup {m}] ELSE copies[x]
  BY <1>1, <1>2, MarkResultIs
<1>4. /\ \A a \in Auth : IF a \in stale THEN Overtaken(auths[a]) ELSE Coherent(auths[a])
      /\ prepared \subseteq Preparing /\ stale \subseteq prepared
      /\ \A x \in Request : CopyTyped(copies[x]) /\ CopyFits(x) /\ Alone(x)
      /\ DOMAIN req = Request
  BY DEF IInv, PreparationsFit
<1>5. req' = [req EXCEPT ![r] = p] /\ p.pc # "preparing"
  BY DEF MovesTo
<1> HIDE DEF b
<1>6. ASSUME NEW a \in Auth PROVE IF a \in stale' THEN Overtaken(auths'[a]) ELSE Coherent(auths'[a])
  <2>1. CASE a # b
    BY <1>2, <1>3, <1>4, <2>1
  <2>2. CASE a = b
    <3>1. auths'[a] = new
      BY <1>2, <1>3, <2>2
    <3>2. CASE a \in stale
      BY <1>1, <1>3, <1>4, <2>2, <3>1, <3>2 DEF Follows
    <3>3. CASE a \notin stale
      BY <1>1, <1>3, <1>4, <2>2, <3>1, <3>3 DEF Follows
    <3> QED
      BY <3>2, <3>3
  <2> QED
    BY <2>1, <2>2
<1>7. ASSUME NEW a \in Auth, NEW n \in Model
      PROVE  (a = b /\ n = m) \/ Remaining(auths'[a], n) = Remaining(auths[a], n)
  <2>1. CASE a # b
    BY <1>2, <1>3, <2>1
  <2>2. CASE a = b /\ n # m
    BY <1>1, <1>2, <1>3, <2>2 DEF Follows, OthersKept
  <2> QED
    BY <2>1, <2>2
<1>8. ASSUME NEW x \in Request PROVE CopyTyped(copies'[x]) /\ CopyFits(x)' /\ Alone(x)'
  <2>1. CopyTyped(copies'[x])
    BY <1>3, <1>4, ResultsSince
  <2>2. Alone(x)'
    <3> SUFFICES ASSUME req'[x].pc = "preparing", NEW y \in Request,
                        req'[y].pc = "preparing", req'[y].auth = req'[x].auth
                 PROVE  y = x
      BY DEF Alone
    <3>1. x # r /\ y # r /\ req'[x] = req[x] /\ req'[y] = req[y]
      BY <1>4, <1>5
    <3> QED
      BY <1>4, <3>1 DEF Alone
  <2>3. ASSUME req'[x].pc = "preparing"
        PROVE  /\ req'[x].auth \notin prepared'
               /\ \A n \in Model \ copies'[x].since :
                     Remaining(copies'[x].auth, n) = Remaining(auths'[req'[x].auth], n)
    <3> DEFINE a == req[x].auth
    <3>1. x # r /\ req'[x] = req[x]
      BY <1>4, <1>5, <2>3
    <3>2. /\ a \notin prepared
          /\ \A n \in Model \ copies[x].since : Remaining(copies[x].auth, n) = Remaining(auths[a], n)
      BY <1>4, <2>3, <3>1 DEF CopyFits
    <3>3. a \in Auth /\ req'[x].auth = a
      BY <3>1, IInvFacts
    <3>4. /\ copies'[x].auth = copies[x].auth
          /\ copies'[x].since = IF a = b THEN copies[x].since \cup {m} ELSE copies[x].since
      <4> DEFINE c == copies[x]
                 d == [c EXCEPT !.since = @ \cup {m}]
      <4>1. CopyTyped(c)
        BY <1>4
      <4> HIDE DEF c
      <4>2. d.auth = c.auth /\ d.since = c.since \cup {m}
        BY <4>1, ResultsSince
      <4>3. copies'[x] = IF a = b THEN d ELSE c
        BY <1>3, <2>3, <3>1 DEF c
      <4> HIDE DEF d, a
      <4> QED
        BY <4>2, <4>3 DEF c
    <3> HIDE DEF a
    <3>5. \A n \in Model \ copies'[x].since : Remaining(copies'[x].auth, n) = Remaining(auths'[a], n)
      BY <1>7, <3>2, <3>3, <3>4
    <3> QED
      BY <1>3, <3>2, <3>3, <3>5
  <2> QED
    BY <2>1, <2>2, <2>3 DEF CopyFits
<1>9. PreparationsFit'
  BY <1>3, <1>4, <1>8 DEF PreparationsFit, CopyTyped
<1>10. \A a \in Auth, n \in Model : MayRecord(a, n) \/ Remaining(auths'[a], n) = Remaining(auths[a], n)
  BY <1>2, <1>7
<1> QED
  BY <1>2, <1>3, <1>6, <1>9, <1>10

LEMMA SteppedKeepsIInv ==
  ASSUME IInv, NEW r \in Request, Stepped(r)
  PROVE  IInv'
<1>1. PICK p : MovesTo(r, p) /\ RequestFits(p) /\ p.pc # "preparing" /\ req' = [req EXCEPT ![r] = p]
  BY DEF Stepped, MovesTo
<1>6. offsets' \in [Auth -> [Model -> Nat]]
  BY DEF Stepped
<1>2. p \in RequestRecord
  BY <1>1 DEF RequestFits
<1>3. req' \in [Request -> RequestRecord]
  BY <1>1, <1>2 DEF IInv
<1>4. \A x \in Request : RequestFits(req'[x])
  BY <1>1 DEF IInv
<1>5. CASE auths' = auths /\ UNCHANGED preparations
  <2>1. prepared' = prepared /\ copies' = copies /\ stale' = stale
    BY <1>5 DEF preparations
  <2>2. ASSUME NEW x \in Request PROVE CopyFits(x)' /\ Alone(x)'
    <3>1. CopyFits(x) /\ Alone(x) /\ DOMAIN req = Request
      BY DEF IInv, PreparationsFit
    <3>2. ASSUME req'[x].pc = "preparing" PROVE x # r /\ req'[x] = req[x]
      BY <1>1, <3>1, <3>2
    <3>3. CopyFits(x)'
      BY <1>5, <2>1, <3>1, <3>2 DEF CopyFits
    <3>4. Alone(x)'
      <4> SUFFICES ASSUME req'[x].pc = "preparing", NEW y \in Request,
                          req'[y].pc = "preparing", req'[y].auth = req'[x].auth
                   PROVE  y = x
        BY DEF Alone
      <4>1. req'[x] = req[x] /\ req'[y] = req[y]
        BY <1>1, <3>1
      <4> QED
        BY <3>1, <4>1 DEF Alone
    <3> QED
      BY <3>3, <3>4
  <2>3. PreparationsFit'
    BY <2>1, <2>2 DEF IInv, PreparationsFit
  <2> QED
    BY <1>3, <1>4, <1>5, <1>6, <2>1, <2>3 DEF IInv
<1>7. CASE \E m \in Model : Recorded(r, m)
  <2>1. PICK m \in Model : Recorded(r, m)
    BY <1>7
  <2>2. /\ DOMAIN auths' = Auth
        /\ \A a \in Auth : IF a \in stale' THEN Overtaken(auths'[a]) ELSE Coherent(auths'[a])
        /\ PreparationsFit'
    BY <1>1, <2>1, RecordedKeeps
  <2> QED
    BY <1>3, <1>4, <1>6, <2>2 DEF IInv
<1> QED
  BY <1>5, <1>7 DEF Stepped

(* A request that only moves on from or to its preparation. *)
LEMMA PreparingFits ==
  ASSUME IInv, NEW r \in Request, req[r].pc \in {"prepare", "preparing"}
  PROVE  /\ req[r].auth \in Preparing /\ ~Blamed(req[r]) /\ DOMAIN req = Request
         /\ \A place \in {"call", "preparing"} :
              LET p == [req[r] EXCEPT !.pc = place]
              IN  RequestFits(p) /\ p.pc = place /\ p.auth = req[r].auth
<1> DEFINE q == req[r]
<1>1. /\ RequestFits(q) /\ q \in RequestRecord /\ ~q.faulted /\ q.pc # "wait" /\ ~Blamed(q)
      /\ q.models # <<>> /\ q.auth \in Preparing /\ DOMAIN req = Request
  BY IInvFacts DEF RequestFits, Blamed, IInv
<1> HIDE DEF q
<1>2. ASSUME NEW place \in {"call", "preparing"}
      PROVE  LET p == [q EXCEPT !.pc = place]
             IN  RequestFits(p) /\ p.pc = place /\ p.auth = q.auth
  <2> DEFINE p == [q EXCEPT !.pc = place]
  <2>1. place \in Places
    BY DEF Places
  <2>2. /\ p \in RequestRecord /\ p.pc = place /\ p.models = q.models /\ p.faulted = q.faulted
        /\ p.tried = q.tried /\ p.picks = q.picks /\ p.waited = q.waited /\ p.attempt = q.attempt
        /\ p.auth = q.auth
    BY <1>1, <2>1, RequestRecordIs
  <2> HIDE DEF p
  <2>3. p.pc # "wait" /\ p.pc # "unprepared" /\ p.models # <<>> /\ ~p.faulted /\ p.auth \in Preparing
    BY <1>1, <2>2
  <2>4. RequestFits(p)
    BY <1>1, <2>2, <2>3, StaysFit
  <2> QED
    BY <2>2, <2>4 DEF p
<1> QED
  BY <1>1, <1>2 DEF q

(* What a preparation does: the request moves on, and a model is blocked or *)
(* freed only if a result for it came meanwhile.                            *)
PreparationKeeps(r) ==
  /\ \E p : RequestFits(p) /\ req' = [req EXCEPT ![r] = p]
  /\ ~Blamed(req[r])
  /\ IInv'
  /\ \A a \in Auth, m \in Model : MayUndo(a, m) \/ Remaining(auths'[a], m) = Remaining(auths[a], m)

(* The parts of the invariant a preparation must keep. *)
LEMMA PreparationMoves ==
  ASSUME IInv, NEW r \in Request, ~Blamed(req[r]),
         NEW p, RequestFits(p), req' = [req EXCEPT ![r] = p], offsets' = offsets,
         DOMAIN auths' = Auth,
         \A a \in Auth : IF a \in stale' THEN Overtaken(auths'[a]) ELSE Coherent(auths'[a]),
         prepared' \subseteq Preparing, stale' \subseteq prepared', DOMAIN copies' = Request,
         \A x \in Request : CopyTyped(copies'[x]) /\ CopyFits(x)' /\ Alone(x)',
         \A a \in Auth, m \in Model : MayUndo(a, m) \/ Remaining(auths'[a], m) = Remaining(auths[a], m)
  PROVE  PreparationKeeps(r)
<1>1. p \in RequestRecord
  BY DEF RequestFits
<1>2. req' \in [Request -> RequestRecord] /\ \A x \in Request : RequestFits(req'[x])
  BY <1>1 DEF IInv
<1>3. PreparationsFit'
  BY DEF PreparationsFit, CopyTyped
<1>4. IInv'
  BY <1>2, <1>3 DEF IInv
<1> QED
  BY <1>4 DEF PreparationKeeps

(* The others' copies, while the credentials they are of stay as they are. *)
LEMMA OtherCopies ==
  ASSUME IInv, NEW r \in Request, NEW p, req' = [req EXCEPT ![r] = p],
         NEW x \in Request \ {r}, copies'[x] = copies[x],
         req[x].pc = "preparing" =>
            req[x].auth \notin prepared' /\ auths'[req[x].auth] = auths[req[x].auth]
  PROVE  CopyTyped(copies'[x]) /\ CopyFits(x)' /\ req'[x] = req[x]
<1>1. CopyTyped(copies[x]) /\ CopyFits(x) /\ req'[x] = req[x]
  BY DEF IInv, PreparationsFit
<1>2. CopyFits(x)'
  BY <1>1 DEF CopyFits
<1> QED
  BY <1>1, <1>2

LEMMA StillAlone ==
  ASSUME IInv, NEW r \in Request, NEW p, req' = [req EXCEPT ![r] = p],
         p.pc # "preparing"
           \/ \A x \in Request \ {r} : ~(req[x].pc = "preparing" /\ req[x].auth = p.auth)
  PROVE  \A x \in Request : Alone(x)'
<1> SUFFICES ASSUME NEW x \in Request, NEW y \in Request,
                    req'[x].pc = "preparing", req'[y].pc = "preparing", req'[y].auth = req'[x].auth
             PROVE  y = x
  BY DEF Alone
<1>1. DOMAIN req = Request /\ Alone(x)
  BY DEF IInv, PreparationsFit
<1>2. req'[r] = p /\ \A z \in Request \ {r} : req'[z] = req[z]
  BY <1>1
<1>3. CASE x # r /\ y # r
  BY <1>1, <1>2, <1>3 DEF Alone
<1>4. CASE x = r /\ y # r
  BY <1>2, <1>4
<1>5. CASE x # r /\ y = r
  BY <1>2, <1>5
<1> QED
  BY <1>3, <1>4, <1>5

(* The lock is taken. *)
LEMMA PrepareKeeps ==
  ASSUME IInv, NEW r \in Request, Prepare(r) PROVE PreparationKeeps(r)
<1> DEFINE q == req[r]
           a == req[r].auth
           place == IF a \in prepared THEN "call" ELSE "preparing"
           p == [q EXCEPT !.pc = place]
           nothing == {}
           copy == [auth |-> auths[a], since |-> nothing]
<1>1. /\ q.pc = "prepare" /\ auths' = auths /\ offsets' = offsets /\ prepared' = prepared /\ stale' = stale
      /\ \A x \in Request : ~(req[x].pc = "preparing" /\ req[x].auth = a)
      /\ req' = [req EXCEPT ![r] = p]
      /\ copies' = IF a \in prepared THEN copies ELSE [copies EXCEPT ![r] = copy]
  BY DEF Prepare, preparations
<1>2. /\ a \in Preparing /\ ~Blamed(q) /\ DOMAIN req = Request
      /\ RequestFits(p) /\ p.pc = place /\ p.auth = a
  BY <1>1, PreparingFits
<1>3. /\ DOMAIN auths = Auth /\ a \in Auth /\ DOMAIN copies = Request
      /\ \A b \in Auth : IF b \in stale THEN Overtaken(auths[b]) ELSE Coherent(auths[b])
      /\ prepared \subseteq Preparing /\ stale \subseteq prepared
      /\ \A x \in Request : CopyTyped(copies[x]) /\ CopyFits(x)
  BY IInvFacts DEF IInv, PreparationsFit
<1> HIDE DEF p, a, q
<1>4. \A x \in Request : Alone(x)'
  BY <1>1, <1>2, StillAlone
<1>5. ASSUME NEW x \in Request, x # r PROVE CopyTyped(copies'[x]) /\ CopyFits(x)'
  <2>1. copies'[x] = copies[x]
    BY <1>1, <1>3, <1>5
  <2> QED
    BY <1>1, <1>3, <1>5, <2>1, OtherCopies DEF CopyFits
<1>6. CopyTyped(copies'[r]) /\ CopyFits(r)'
  <2>1. req'[r] = p
    BY <1>1, <1>2
  <2>2. CASE a \in prepared
    BY <1>1, <1>2, <1>3, <2>1, <2>2 DEF CopyFits
  <2>3. CASE a \notin prepared
    <3>1. copies'[r] = copy /\ nothing \subseteq Model
      BY <1>1, <1>3, <2>3
    <3>2. Coherent(auths[a])
      BY <1>3, <2>3
    <3> HIDE DEF nothing
    <3>3. copy.auth = auths[a] /\ copy.since = nothing /\ copy = [auth |-> copy.auth, since |-> copy.since]
      OBVIOUS
    <3> HIDE DEF copy
    <3>4. CopyTyped(copy)
      BY <3>1, <3>2, <3>3 DEF CopyTyped
    <3>5. CopyFits(r)'
      BY <1>1, <1>2, <2>1, <2>3, <3>1, <3>3 DEF CopyFits
    <3> QED
      BY <3>1, <3>4, <3>5
  <2> QED
    BY <2>2, <2>3
<1>7. \A x \in Request : CopyTyped(copies'[x]) /\ CopyFits(x)' /\ Alone(x)'
  BY <1>4, <1>5, <1>6
<1>8. DOMAIN copies' = Request
  BY <1>1, <1>3
<1>9. /\ DOMAIN auths' = Auth /\ prepared' \subseteq Preparing /\ stale' \subseteq prepared'
      /\ \A b \in Auth : IF b \in stale' THEN Overtaken(auths'[b]) ELSE Coherent(auths'[b])
      /\ \A b \in Auth, m \in Model : Remaining(auths'[b], m) = Remaining(auths[b], m)
  BY <1>1, <1>3
<1> QED
  BY <1>1, <1>2, <1>7, <1>8, <1>9, PreparationMoves DEF q

LEMMA PrepareFailsKeeps ==
  ASSUME IInv, NEW r \in Request, NEW kind \in Kinds, NEW t \in RetryAfters, PrepareFails(r, kind, t)
  PROVE  PreparationKeeps(r)
<1> DEFINE q == req[r]
           err == Err(kind, t)
           p == [q EXCEPT !.pc = "unprepared", !.lastErr = err]
<1>1. /\ q.pc = "preparing" /\ auths' = auths /\ offsets' = offsets /\ prepared' = prepared /\ stale' = stale
      /\ copies' = [copies EXCEPT ![r] = NoCopy]
  BY DEF PrepareFails
<1>2. req' = [req EXCEPT ![r] = p]
  BY DEF PrepareFails, IInv
<1>3. /\ DOMAIN auths = Auth /\ DOMAIN copies = Request /\ DOMAIN req = Request
      /\ \A b \in Auth : IF b \in stale THEN Overtaken(auths[b]) ELSE Coherent(auths[b])
      /\ prepared \subseteq Preparing /\ stale \subseteq prepared
      /\ \A x \in Request : CopyTyped(copies[x]) /\ CopyFits(x)
  BY DEF IInv, PreparationsFit
<1>4. RequestFits(q) /\ q \in RequestRecord /\ ~q.faulted /\ ~Blamed(q) /\ q.pc # "wait"
  BY <1>1, IInvFacts DEF RequestFits, Blamed
<1>5. err \in Errors /\ err.kind = kind /\ kind \in Failure /\ "unprepared" \in Places
  BY AnswersTypedIs DEF Places
<1> HIDE DEF q, err
<1>6. /\ p \in RequestRecord /\ p.pc = "unprepared" /\ p.lastErr = err /\ p.faulted = q.faulted
      /\ p.tried = q.tried /\ p.picks = q.picks /\ p.waited = q.waited /\ p.attempt = q.attempt
  BY <1>4, <1>5, RequestRecordIs
<1> HIDE DEF p
<1>7. RequestFits(p)
  BY <1>4, <1>5, <1>6, StaysFit
<1>8. \A x \in Request : Alone(x)'
  BY <1>2, <1>6, StillAlone
<1>9. ASSUME NEW x \in Request, x # r PROVE CopyTyped(copies'[x]) /\ CopyFits(x)'
  <2>1. copies'[x] = copies[x]
    BY <1>1, <1>3, <1>9
  <2> QED
    BY <1>1, <1>2, <1>3, <1>9, <2>1, OtherCopies DEF CopyFits
<1>10. CopyTyped(copies'[r]) /\ CopyFits(r)'
  BY <1>1, <1>2, <1>3, <1>6, NoCopyIs DEF CopyFits
<1>11. \A x \in Request : CopyTyped(copies'[x]) /\ CopyFits(x)' /\ Alone(x)'
  BY <1>8, <1>9, <1>10
<1>12. /\ DOMAIN copies' = Request /\ DOMAIN auths' = Auth
       /\ prepared' \subseteq Preparing /\ stale' \subseteq prepared'
       /\ \A b \in Auth : IF b \in stale' THEN Overtaken(auths'[b]) ELSE Coherent(auths'[b])
       /\ \A b \in Auth, m \in Model : Remaining(auths'[b], m) = Remaining(auths[b], m)
  BY <1>1, <1>3
<1> QED
  BY <1>1, <1>2, <1>4, <1>7, <1>11, <1>12, PreparationMoves DEF q

(* The copy stored over the record: it is the copy itself, or what the      *)
(* copy says over the states the record has.                                *)
LEMMA UpdatedIs ==
  ASSUME NEW existing, Coherent(existing), NEW copy, Coherent(copy)
  PROVE  LET new == Updated(existing, copy)
         IN  /\ IF ShownClean(new) THEN Overtaken(new) ELSE Coherent(new)
             /\ new.states = existing.states \/ new.states = copy.states
<1> DEFINE states == existing.states
           new == [copy EXCEPT !.states = states]
<1>1. CASE DOMAIN copy.states # {}
  <2>1. Updated(existing, copy) = copy
    BY <1>1 DEF Updated
  <2> QED
    BY <2>1, NotBoth
<1>2. CASE DOMAIN copy.states = {}
  <2>1. Updated(existing, copy) = new
    BY <1>2 DEF Updated
  <2>2. /\ copy \in AuthRecord(copy.states) /\ ~AuthDisabled(copy) /\ StatesFit(states)
        /\ ~copy.unavailable /\ ~copy.quota.exceeded
        /\ copy.status = "active" /\ copy.lastError = "none"
    BY <1>2 DEF Coherent, WellFormed, Aggregated, QuotaAgrees, ActiveIsClean
  <2>3. /\ new \in AuthRecord(new.states) /\ new.states = states
        /\ new.disabled = copy.disabled /\ new.status = copy.status /\ new.lastError = copy.lastError
        /\ new.quota = copy.quota /\ new.unavailable = copy.unavailable
    BY <2>2 DEF AuthRecord
  <2> HIDE DEF new, states
  <2>4. WellFormed(new)
    BY <2>2, <2>3 DEF WellFormed, AuthDisabled
  <2>5. ShownClean(new) => Overtaken(new)
    BY <2>2, <2>3, <2>4 DEF Overtaken
  <2>6. ASSUME ~ShownClean(new) PROVE Coherent(new)
    <3>1. \A m \in DOMAIN new.states : new.states[m] = CleanState
      BY <2>2, <2>3, <2>6 DEF ShownClean
    <3>2. Aggregated(new)
      BY <2>2, <2>3, <3>1, CleanStateIs, ModelBlockedIs DEF Aggregated
    <3>3. QuotaAgrees(new)
      BY <2>2, <2>3, <3>1, CleanStateIs DEF QuotaAgrees
    <3> QED
      BY <2>2, <2>3, <2>4, <3>1, <3>2, <3>3 DEF Coherent, ActiveIsClean
  <2> QED
    BY <2>1, <2>3, <2>5, <2>6 DEF states
<1> QED
  BY <1>1, <1>2

LEMMA PreparedKeeps ==
  ASSUME IInv, NEW r \in Request, Prepared(r) PROVE PreparationKeeps(r)
<1> DEFINE q == req[r]
           a == req[r].auth
           p == [q EXCEPT !.pc = "call"]
           copy == copies[r].auth
           new == Updated(auths[a], copy)
<1>1. /\ q.pc = "preparing" /\ offsets' = offsets /\ prepared' = prepared \cup {a}
      /\ auths' = [auths EXCEPT ![a] = new]
      /\ stale' = (IF ShownClean(new) THEN stale \cup {a} ELSE stale)
      /\ req' = [req EXCEPT ![r] = p]
      /\ copies' = [copies EXCEPT ![r] = NoCopy]
  BY DEF Prepared
<1>2. /\ a \in Preparing /\ ~Blamed(q) /\ DOMAIN req = Request
      /\ RequestFits(p) /\ p.pc = "call" /\ p.auth = a
  BY <1>1, PreparingFits
<1>3. /\ DOMAIN auths = Auth /\ a \in Auth /\ DOMAIN copies = Request
      /\ \A b \in Auth : IF b \in stale THEN Overtaken(auths[b]) ELSE Coherent(auths[b])
      /\ prepared \subseteq Preparing /\ stale \subseteq prepared
      /\ \A x \in Request : CopyTyped(copies[x]) /\ CopyFits(x) /\ Alone(x)
  BY IInvFacts DEF IInv, PreparationsFit
<1>4. /\ a \notin prepared /\ Coherent(auths[a]) /\ Coherent(copy)
      /\ \A m \in Model \ copies[r].since : Remaining(copy, m) = Remaining(auths[a], m)
  BY <1>1, <1>3 DEF CopyFits, CopyTyped
<1> HIDE DEF copy
<1>5. /\ IF ShownClean(new) THEN Overtaken(new) ELSE Coherent(new)
      /\ new.states = auths[a].states \/ new.states = copy.states
  BY <1>4, UpdatedIs
<1> HIDE DEF p, a, q, new
<1>6. \A x \in Request : Alone(x)'
  BY <1>1, <1>2, StillAlone
<1>7. ASSUME NEW x \in Request, x # r PROVE CopyTyped(copies'[x]) /\ CopyFits(x)'
  <2>1. copies'[x] = copies[x]
    BY <1>1, <1>3, <1>7
  <2>2. req[x].pc = "preparing" => req[x].auth # a
    BY <1>1, <1>3, <1>7 DEF Alone, q, a
  <2>3. req[x].pc = "preparing" => req[x].auth \notin prepared' /\ auths'[req[x].auth] = auths[req[x].auth]
    BY <1>1, <1>3, <2>2, IInvFacts DEF CopyFits
  <2> QED
    BY <1>1, <1>7, <2>1, <2>3, OtherCopies
<1>8. CopyTyped(copies'[r]) /\ CopyFits(r)'
  BY <1>1, <1>2, <1>3, NoCopyIs DEF CopyFits
<1>9. \A x \in Request : CopyTyped(copies'[x]) /\ CopyFits(x)' /\ Alone(x)'
  BY <1>6, <1>7, <1>8
<1>10. ASSUME NEW b \in Auth, NEW m \in Model
       PROVE  MayUndo(b, m) \/ Remaining(auths'[b], m) = Remaining(auths[b], m)
  <2>1. CASE b # a
    BY <1>1, <1>3, <2>1
  <2>2. CASE b = a /\ m \in copies[r].since
    BY <1>1, <2>2 DEF MayUndo, q, a
  <2>3. CASE b = a /\ m \notin copies[r].since
    <3>1. Remaining(new, m) = Remaining(auths[a], m) \/ Remaining(new, m) = Remaining(copy, m)
      BY <1>5, SameStates
    <3> QED
      BY <1>1, <1>3, <1>4, <2>3, <3>1
  <2> QED
    BY <2>1, <2>2, <2>3
<1>11. ASSUME NEW b \in Auth PROVE IF b \in stale' THEN Overtaken(auths'[b]) ELSE Coherent(auths'[b])
  <2>1. CASE b # a
    BY <1>1, <1>3, <2>1
  <2>2. CASE b = a
    <3>1. auths'[b] = new /\ a \notin stale
      BY <1>1, <1>3, <1>4, <2>2
    <3> QED
      BY <1>1, <1>5, <2>2, <3>1
  <2> QED
    BY <2>1, <2>2
<1>12. /\ DOMAIN copies' = Request /\ DOMAIN auths' = Auth
       /\ prepared' \subseteq Preparing /\ stale' \subseteq prepared'
  BY <1>1, <1>2, <1>3
<1> QED
  BY <1>1, <1>2, <1>9, <1>10, <1>11, <1>12, PreparationMoves DEF q

LEMMA PreparationStepKeeps ==
  ASSUME IInv, NEW r \in Request, PreparationStep(r) PROVE PreparationKeeps(r)
  BY PrepareKeeps, PreparedKeeps, PrepareFailsKeeps DEF PreparationStep

LEMMA TickIs ==
  ASSUME IInv, Tick
  PROVE  /\ IInv'
         /\ \A a \in Auth : auths'[a] = CloserAuth(auths[a]) /\ BlocksRunOut(auths[a], auths'[a])
         /\ \A r \in Request : req'[r].pc = req[r].pc
<1>1. /\ auths' = [a \in Auth |-> CloserAuth(auths[a])] /\ offsets' = offsets
      /\ prepared' = prepared /\ stale' = stale
      /\ copies' = [r \in Request |-> [copies[r] EXCEPT !.auth = CloserAuth(@)]]
  BY DEF Tick
<1>2. ASSUME NEW r \in Request
      PROVE  /\ RequestFits(req'[r]) /\ req'[r] \in RequestRecord
             /\ req'[r].pc = req[r].pc /\ req'[r].auth = req[r].auth
  <2> DEFINE q == req[r]
             wait == Closer(q.wait)
             p == [q EXCEPT !.wait = wait]
  <2>1. req'[r] = p
    BY DEF Tick
  <2>2. RequestFits(q) /\ q \in RequestRecord /\ q.wait \in Nat
    BY IInvFacts, RequestFields
  <2>3. wait \in Nat
    BY <2>2 DEF Closer
  <2> HIDE DEF q, wait
  <2>4. /\ p \in RequestRecord /\ p.pc = q.pc /\ p.models = q.models /\ p.tried = q.tried
        /\ p.picks = q.picks /\ p.faulted = q.faulted /\ p.lastErr = q.lastErr
        /\ p.waited = q.waited /\ p.attempt = q.attempt /\ p.auth = q.auth
    BY <2>2, <2>3, RequestRecordIs
  <2> HIDE DEF p
  <2>5. RequestFits(p)
    BY <2>2, <2>4 DEF RequestFits, WaitFits
  <2> QED
    BY <2>1, <2>4, <2>5 DEF q
<1>3. req' \in [Request -> RequestRecord]
  <2>1. req' = [r \in Request |-> req'[r]]
    BY DEF Tick
  <2> QED
    BY <1>2, <2>1
<1>4. ASSUME NEW a \in Auth
      PROVE  /\ IF a \in stale' THEN Overtaken(auths'[a]) ELSE Coherent(auths'[a])
             /\ BlocksRunOut(auths[a], auths'[a])
  BY <1>1, TimeKeeps DEF IInv
<1>5. ASSUME NEW r \in Request PROVE CopyTyped(copies'[r]) /\ CopyFits(r)' /\ Alone(r)'
  <2> DEFINE c == copies[r]
             auth == CloserAuth(c.auth)
             d == [c EXCEPT !.auth = auth]
  <2>1. copies'[r] = d
    BY <1>1
  <2>2. CopyTyped(c) /\ CopyFits(r) /\ Alone(r)
    BY DEF IInv, PreparationsFit
  <2>3. Coherent(auth) /\ BlocksRunOut(c.auth, auth)
    BY <2>2, TimeKeeps DEF CopyTyped
  <2> HIDE DEF c, auth
  <2>4. d.auth = auth /\ d.since = c.since /\ d = [auth |-> d.auth, since |-> d.since] /\ c.since \subseteq Model
    BY <2>2 DEF CopyTyped
  <2> HIDE DEF d
  <2>5. CopyTyped(d)
    BY <2>3, <2>4 DEF CopyTyped
  <2>6. ASSUME req'[r].pc = "preparing"
        PROVE  /\ req'[r].auth \notin prepared'
               /\ \A m \in Model \ d.since : Remaining(auth, m) = Remaining(auths'[req'[r].auth], m)
    <3> DEFINE a == req[r].auth
    <3>1. req'[r].auth = a /\ a \in Auth /\ req[r].pc = "preparing"
      BY <1>2, <2>6, IInvFacts
    <3>2. a \notin prepared /\ \A m \in Model \ c.since : Remaining(c.auth, m) = Remaining(auths[a], m)
      BY <2>2, <3>1 DEF CopyFits, c
    <3> HIDE DEF a
    <3>3. \A m \in Model : /\ Remaining(auth, m) = Closer(Remaining(c.auth, m))
                          /\ Remaining(auths'[a], m) = Closer(Remaining(auths[a], m))
      BY <1>4, <2>3, <3>1 DEF BlocksRunOut
    <3> QED
      BY <1>1, <2>4, <3>1, <3>2, <3>3
  <2>7. CopyFits(r)'
    BY <2>1, <2>4, <2>6 DEF CopyFits
  <2>8. Alone(r)'
    BY <1>2, <2>2 DEF Alone
  <2> QED
    BY <2>1, <2>5, <2>7, <2>8
<1>6. DOMAIN auths' = Auth /\ DOMAIN copies' = Request
  BY <1>1
<1>7. PreparationsFit'
  BY <1>1, <1>5, <1>6 DEF IInv, PreparationsFit, CopyTyped
<1>8. IInv'
  BY <1>1, <1>2, <1>3, <1>4, <1>6, <1>7 DEF IInv
<1> QED
  BY <1>1, <1>2, <1>4, <1>8

LEMMA IInvStep == IInv /\ [Next]_vars => IInv'
<1> SUFFICES ASSUME IInv, [Next]_vars PROVE IInv'
  OBVIOUS
<1>1. CASE Tick
  BY <1>1, TickIs
<1>2. CASE \E r \in Request : Advance(r) \/ Cancelled(r)
  BY <1>2, AdvanceSteps, SteppedKeepsIInv, PreparationStepKeeps DEF PreparationKeeps
<1>3. CASE UNCHANGED vars
  BY <1>3 DEF vars, preparations, IInv, PreparationsFit, CopyFits, Alone
<1> QED
  BY <1>1, <1>2, <1>3 DEF Next

LEMMA Invariant == Spec => []IInv
  BY IInvInit, IInvStep, PTL DEF Spec

LEMMA WellFormedIsTyped ==
  ASSUME NEW auth, WellFormed(auth) PROVE AuthTyped(auth)
<1>1. auth \in AuthRecord(auth.states) /\ StatesFit(auth.states)
  BY DEF WellFormed
<1> QED
  BY <1>1, AuthFields DEF AuthTyped, StatesFit

LEMMA AlwaysWellFormed ==
  ASSUME IInv, NEW a \in Auth PROVE WellFormed(auths[a])
  BY DEF IInv, Coherent, Overtaken

(* Every variable has its type. *)
THEOREM TypeCorrect == Spec => []TypeOK
<1>1. ASSUME IInv PROVE TypeOK
  <2>1. \A a \in Auth : AuthTyped(auths[a])
    BY <1>1, AlwaysWellFormed, WellFormedIsTyped
  <2>2. \A r \in Request : AuthTyped(copies[r].auth) /\ copies[r].since \subseteq Model
    BY <1>1, WellFormedIsTyped DEF IInv, PreparationsFit, CopyTyped, Coherent
  <2> QED
    BY <1>1, <2>1, <2>2 DEF IInv, PreparationsFit, TypeOK
<1> QED
  BY <1>1, Invariant, PTL

(* A credential is unavailable as a whole exactly while every model it has *)
(* a state for is, over quota exactly when one of them is, and active only *)
(* when none is left with a failure: in whatever order results arrive and  *)
(* however much time passes between them.  One whose preparation was       *)
(* overtaken may look better than its models, never worse.                 *)
THEOREM AggregateAgreesInvariant == Spec => []AggregateAgrees
<1>1. ASSUME IInv PROVE AggregateAgrees
  <2> SUFFICES ASSUME NEW a \in Auth
               PROVE  LET auth == auths[a]
                          models == DOMAIN auth.states
                          allBlocked == models # {} /\ \A m \in models : ModelBlocked(auth, m, 0)
                          someExceeded == \E m \in models : auth.states[m].quota.exceeded
                      IN  /\ BlockedAsWhole(auth, 0) => allBlocked
                          /\ auth.quota.exceeded => someExceeded
                          /\ auth.status = "active" => auth.lastError = "none"
                          /\ a \notin stale =>
                               /\ allBlocked => BlockedAsWhole(auth, 0)
                               /\ someExceeded => auth.quota.exceeded
                               /\ ~ShownClean(auth)
    BY DEF AggregateAgrees
  <2> DEFINE auth == auths[a]
             models == DOMAIN auth.states
             allBlocked == models # {} /\ \A m \in models : ModelBlocked(auth, m, 0)
             someExceeded == \E m \in models : auth.states[m].quota.exceeded
  <2>1. WellFormed(auth) /\ IF a \in stale THEN Overtaken(auth) ELSE Coherent(auth)
    BY <1>1, AlwaysWellFormed DEF IInv
  <2> HIDE DEF auth
  <2>2. auth.unavailable \in BOOLEAN /\ auth.nextRetryAfter \in Int
    BY <2>1, AuthFields DEF WellFormed, TimeValue, ZeroTime
  <2>3. \A m \in models : auth.states[m].nextRetryAfter \in Int
    BY <2>1, StateType DEF WellFormed, StatesFit
  <2>4. BlockedAsWhole(auth, 0) <=> auth.unavailable /\ auth.nextRetryAfter > 0
    BY <2>1 DEF BlockedAsWhole, WellFormed
  <2>5. ASSUME auth.unavailable, Aggregated(auth)
        PROVE  BlockedAsWhole(auth, 0) <=> allBlocked
    <3>1. /\ \A m \in models : auth.states[m].unavailable
                               /\ auth.nextRetryAfter <= auth.states[m].nextRetryAfter
          /\ \E m \in models : auth.nextRetryAfter = auth.states[m].nextRetryAfter
      BY <2>5 DEF Aggregated
    <3>2. auth.nextRetryAfter > 0 => \A m \in models : StateBlocked(auth.states[m])
      BY <2>2, <2>3, <3>1 DEF StateBlocked
    <3>3. models # {} /\ ((\A m \in models : StateBlocked(auth.states[m])) => auth.nextRetryAfter > 0)
      BY <3>1 DEF StateBlocked
    <3> QED
      BY <2>4, <2>5, <3>2, <3>3, ModelBlockedIs
  <2>6. CASE a \in stale
    <3>1. /\ auth.unavailable => Aggregated(auth)
          /\ auth.quota.exceeded => someExceeded
          /\ auth.lastError = "none"
      BY <2>1, <2>6 DEF Overtaken, QuotaAgrees
    <3>2. BlockedAsWhole(auth, 0) => allBlocked
      BY <2>4, <2>5, <3>1
    <3> HIDE DEF allBlocked, someExceeded
    <3> QED
      BY <2>6, <3>1, <3>2 DEF auth, allBlocked, someExceeded
  <2>7. CASE a \notin stale
    <3>1. Aggregated(auth) /\ (auth.quota.exceeded <=> someExceeded)
          /\ (auth.status = "active" => auth.lastError = "none") /\ ~ShownClean(auth)
      BY <2>1, <2>7, NotBoth DEF Coherent, QuotaAgrees, ActiveIsClean
    <3>2. BlockedAsWhole(auth, 0) <=> allBlocked
      <4>1. CASE auth.unavailable
        BY <2>5, <3>1, <4>1
      <4>2. CASE ~auth.unavailable
        BY <2>4, <3>1, <4>2 DEF Aggregated
      <4> QED
        BY <4>1, <4>2
    <3> HIDE DEF allBlocked, someExceeded
    <3> QED
      BY <3>1, <3>2 DEF auth, allBlocked, someExceeded
  <2> QED
    BY <2>6, <2>7
<1> QED
  BY <1>1, Invariant, PTL

(* Whatever cooldowns a request meets and makes, it picks each credential  *)
(* at most once in a round, waits no longer in all than max-retry-interval *)
(* for each retry it is allowed, and no backoff goes past the level whose  *)
(* cooldown reaches the ceiling.                                           *)
THEOREM WorkIsBoundedInvariant == Spec => []WorkIsBounded
<1>1. ASSUME IInv PROVE WorkIsBounded
  <2>1. \A r \in Request : req[r].picks <= Cardinality(Auth) /\ req[r].waited <= WaitBound
    BY <1>1, WorkFits DEF IInv
  <2>2. \A a \in Auth : \A m \in DOMAIN auths[a].states :
          LET level == auths[a].states[m].quota.backoffLevel
          IN  level > 0 => QuotaBackoffBase * 2^(level - 1) < QuotaBackoffMax
    BY <1>1, AlwaysWellFormed DEF WellFormed, StatesFit, StateFits
  <2> QED
    BY <2>1, <2>2 DEF WorkIsBounded
<1> QED
  BY <1>1, Invariant, PTL

(* A model becomes blocked only by a result of its own, and is freed by    *)
(* one or by time; what a preparation stores over the record undoes only   *)
(* results that were recorded while it was under way.                      *)
THEOREM OnlyItsResultsBlockAModelHolds == Spec => OnlyItsResultsBlockAModel
<1> DEFINE A == \A a \in Auth, m \in Model :
                  /\ ~ModelBlocked(auths[a], m, 0) /\ ModelBlocked(auths'[a], m, 0) =>
                        MayRecord(a, m) \/ MayUndo(a, m)
                  /\ ModelBlocked(auths[a], m, 0) /\ ~ModelBlocked(auths'[a], m, 0) =>
                        \/ MayRecord(a, m) \/ MayUndo(a, m)
                        \/ auths[a].states[m].nextRetryAfter = 1
<1>1. ASSUME IInv, [Next]_vars PROVE [A]_vars
  <2>1. CASE Tick
    <3>1. \A a \in Auth : BlocksRunOut(auths[a], auths'[a])
      BY <1>1, <2>1, TickIs
    <3> QED
      BY <3>1 DEF BlocksRunOut
  <2>2. ASSUME NEW r \in Request, Advance(r) \/ Cancelled(r) PROVE A
    <3>1. \A a \in Auth : WellFormed(auths[a]) /\ WellFormed(auths'[a])
      <4>1. IInv'
        BY <1>1, IInvStep
      <4>2. \A a \in Auth : WellFormed(auths'[a])
        BY <4>1 DEF IInv, Coherent, Overtaken
      <4> QED
        BY <1>1, <4>2, AlwaysWellFormed
    <3>2. \/ auths' = auths
          \/ \A a \in Auth, m \in Model :
               MayRecord(a, m) \/ MayUndo(a, m) \/ Remaining(auths'[a], m) = Remaining(auths[a], m)
      <4>1. CASE Stepped(r)
        BY <1>1, <4>1, RecordedKeeps DEF Stepped
      <4>2. CASE PreparationStep(r)
        BY <1>1, <4>2, PreparationStepKeeps DEF PreparationKeeps
      <4> QED
        BY <1>1, <2>2, <4>1, <4>2, AdvanceSteps
    <3>3. ASSUME NEW a \in Auth, NEW m \in Model
          PROVE  \/ MayRecord(a, m) \/ MayUndo(a, m)
                 \/ ModelBlocked(auths'[a], m, 0) <=> ModelBlocked(auths[a], m, 0)
      <4>1. CASE auths' = auths
        BY <4>1
      <4>2. CASE Remaining(auths'[a], m) = Remaining(auths[a], m)
        BY <3>1, <4>2, RemainingIs
      <4> QED
        BY <3>2, <4>1, <4>2
    <3> QED
      BY <3>3
  <2>3. CASE UNCHANGED vars
    BY <2>3
  <2> QED
    BY <1>1, <2>1, <2>2, <2>3 DEF Next
<1>2. OnlyItsResultsBlockAModel <=> [][A]_vars
  BY DEF OnlyItsResultsBlockAModel
<1> HIDE DEF A
<1> QED
  BY <1>1, <1>2, Invariant, PTL DEF Spec

(* A request that an upstream blamed is given up: nothing else happens to  *)
(* it.                                                                     *)
THEOREM FaultIsFinalHolds == Spec => FaultIsFinal
<1> DEFINE A == \A r \in Request : req[r].faulted => req'[r].pc \in {"decide", "error"}
<1>1. ASSUME IInv, [Next]_vars PROVE [A]_vars
  <2>1. \A r \in Request : req[r].faulted => Blamed(req[r])
    BY <1>1 DEF IInv, RequestFits, Blamed
  <2>2. CASE Tick
    BY <1>1, <2>1, <2>2, TickIs DEF Blamed
  <2>3. ASSUME NEW x \in Request, Advance(x) \/ Cancelled(x) PROVE A
    <3>1. \E p : req' = [req EXCEPT ![x] = p] /\ (Blamed(req[x]) => p.pc = "error")
      <4>1. CASE Stepped(x)
        BY <4>1 DEF Stepped, MovesTo
      <4>2. CASE PreparationStep(x)
        BY <1>1, <4>2, PreparationStepKeeps DEF PreparationKeeps
      <4> QED
        BY <1>1, <2>3, <4>1, <4>2, AdvanceSteps
    <3>2. PICK p : req' = [req EXCEPT ![x] = p] /\ (Blamed(req[x]) => p.pc = "error")
      BY <3>1
    <3>3. ASSUME NEW r \in Request, req[r].faulted PROVE req'[r].pc \in {"decide", "error"}
      <4>1. DOMAIN req = Request
        BY <1>1 DEF IInv
      <4>2. CASE r = x
        BY <2>1, <3>2, <3>3, <4>1, <4>2
      <4>3. CASE r # x
        BY <2>1, <3>2, <3>3, <4>1, <4>3 DEF Blamed
      <4> QED
        BY <4>2, <4>3
    <3> QED
      BY <3>3
  <2>4. CASE UNCHANGED vars
    BY <2>4
  <2> QED
    BY <1>1, <2>2, <2>3, <2>4 DEF Next
<1>2. FaultIsFinal <=> [][A]_vars
  BY DEF FaultIsFinal
<1> HIDE DEF A
<1> QED
  BY <1>1, <1>2, Invariant, PTL DEF Spec

=============================================================================
