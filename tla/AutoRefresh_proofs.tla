-------------------------- MODULE AutoRefresh_proofs --------------------------
(***************************************************************************)
(* Proofs about AutoRefresh: that the two functions which say when to look *)
(* at a credential and whether to refresh it agree, its type invariant,    *)
(* that a credential is refreshed by one worker at a time, that the loop   *)
(* does not handle a credential twice at one instant, and that it looks at *)
(* every credential in time.                                               *)
(***************************************************************************)
EXTENDS AutoRefresh, FiniteSetTheorems, SequenceTheorems, WellFoundedInduction, TLAPS

-----------------------------------------------------------------------------
(* Times. *)

LEMMA MinOfTwo ==
  ASSUME NEW x \in Int, NEW y \in Int
  PROVE  Min({x} \cup {y}) = IF x <= y THEN x ELSE y
<1> DEFINE least == IF x <= y THEN x ELSE y
<1>1. least \in {x} \cup {y} /\ \A z \in {x} \cup {y} : least <= z
  OBVIOUS
<1>2. ASSUME NEW v \in {x} \cup {y}, \A z \in {x} \cup {y} : v <= z
      PROVE  v = least
  BY <1>2
<1> HIDE DEF least
<1>3. Min({x} \cup {y}) = least
  BY <1>1, <1>2 DEF Min
<1> QED
  BY <1>3 DEF least

LEMMA MinOfOne ==
  ASSUME NEW x \in Int
  PROVE  Min({x} \cup {}) = x
  BY DEF Min

(* Every nonempty set of naturals has a minimum. *)
LEMMA MinOfNats ==
  ASSUME NEW S \in SUBSET Nat, S # {}
  PROVE  Min(S) \in S
<1>1. \E x \in S : \A y \in S : ~(<<y, x>> \in OpToRel(<, Nat))
  BY NatLessThanWellFounded, WFMin
<1>2. \E x \in S : \A y \in S : x <= y
  <2>1. PICK x \in S : \A y \in S : ~(<<y, x>> \in OpToRel(<, Nat))
    BY <1>1
  <2>2. OpToRel(<, Nat) = {ss \in Nat \X Nat : ss[1] < ss[2]}
    BY DEF OpToRel
  <2>3. ASSUME NEW y \in S PROVE x <= y
    <3>1. ASSUME y < x PROVE FALSE
      <4>1. <<y, x>> \in Nat \X Nat /\ <<y, x>>[1] < <<y, x>>[2]
        BY <3>1
      <4> QED
        BY <2>1, <2>2, <4>1
    <3> QED
      BY <3>1
  <2> QED
    BY <2>3
<1> QED
  BY <1>2 DEF Min

LEMMA SoonestType ==
  ASSUME NEW h \in [Auth -> Times]
  PROVE  Soonest(h) \in Times
<1> DEFINE set == {h[a] : a \in Auth} \ {None}
<1>1. set \in SUBSET Nat
  BY DEF Times
<1>2. CASE set = {}
  BY <1>2 DEF Soonest, Times
<1>3. CASE set # {}
  BY <1>1, <1>3, MinOfNats DEF Soonest, Times
<1> QED
  BY <1>2, <1>3

LEMMA PeriodsType ==
  /\ \A a \in Auth : Preferred[a] \in Nat /\ Lead[a] \in Nat
  /\ CheckInterval \in Nat \ {0} /\ PendingBackoff \in Nat \ {0}
  /\ FailureBackoff \in Nat \ {0} /\ IneffectiveBackoff \in Nat \ {0}
  /\ JobBuffer \in Nat \ {0} /\ MaxAge \in Nat
  BY PeriodsAssumption

(* A check by the preferred interval, worked out. *)
LEMMA PreferredCheck ==
  ASSUME NEW p \in Nat, NEW age \in Nat, NEW expiry \in Times
  PROVE  LET check == NotBeforeNow(Min({p - age} \cup
                          IF expiry = None THEN {} ELSE {expiry - p}))
         IN  /\ check \in Nat
             /\ check = 0 <=> age >= p \/ (expiry # None /\ expiry <= p)
<1>1. CASE expiry = None
  BY <1>1, MinOfOne DEF NotBeforeNow
<1>2. CASE expiry # None
  <2>1. expiry \in Nat
    BY <1>2 DEF Times
  <2>2. Min({p - age} \cup {expiry - p}) = IF p - age <= expiry - p THEN p - age ELSE expiry - p
    BY <2>1, MinOfTwo
  <2> QED
    BY <1>2, <2>1, <2>2 DEF NotBeforeNow
<1> QED
  BY <1>1, <1>2

LEMMA NextCheckType ==
  ASSUME NEW a \in Auth, NEW r \in Record
  PROVE  NextCheck(a, r) \in Times
<1>1. /\ r.hold \in Nat /\ r.expiry \in Times
      /\ r.age = None \/ r.age \in Nat
  BY PeriodsType DEF Record, Ages
<1>2. r.age # None => NotBeforeNow(Min({Preferred[a] - r.age} \cup
                          IF r.expiry = None THEN {} ELSE {r.expiry - Preferred[a]})) \in Nat
  BY <1>1, PeriodsType, PreferredCheck
<1>3. \A t \in Int : NotBeforeNow(t) \in Nat
  BY DEF NotBeforeNow
<1>4. r.expiry # None => r.expiry - Lead[a] \in Int
  BY <1>1, PeriodsType DEF Times
<1>5. r.age # None => Lead[a] - r.age \in Int
  BY <1>1, PeriodsType
<1> QED
  BY <1>1, <1>2, <1>3, <1>4, <1>5 DEF NextCheck, Times

(* nextRefreshCheckAt and shouldRefresh agree: the loop wants to look at a *)
(* credential now exactly when it would refresh it now.  Otherwise it      *)
(* would look at it again and again for nothing, or let a token expire.    *)
THEOREM ChecksAgree ==
  ASSUME NEW a \in Auth \ ApiKey, NEW r \in Record
  PROVE  NextCheck(a, r) = 0 <=> ShouldRefresh(a, r)
<1>1. /\ r.hold \in Nat /\ r.expiry \in Times
      /\ r.age = None \/ r.age \in Nat
  BY PeriodsType DEF Record, Ages
<1>2. Preferred[a] \in Nat /\ Lead[a] \in Nat
  BY PeriodsType
<1>3. None # 0
  BY DEF None
<1>4. CASE ~r.present \/ r.refused \/ r.hold > 0
  BY <1>1, <1>3, <1>4 DEF NextCheck, ShouldRefresh
<1>5. CASE r.present /\ ~r.refused /\ r.hold = 0 /\ Preferred[a] > 0
  <2>1. CASE r.age = None
    BY <1>5, <2>1 DEF NextCheck, ShouldRefresh
  <2>2. CASE r.age # None
    <3>1. NextCheck(a, r) = 0 <=> r.age >= Preferred[a] \/ (r.expiry # None /\ r.expiry <= Preferred[a])
      BY <1>1, <1>2, <1>5, <2>2, PreferredCheck DEF NextCheck
    <3> QED
      BY <1>5, <2>2, <3>1 DEF ShouldRefresh
  <2> QED
    BY <2>1, <2>2
<1>6. CASE r.present /\ ~r.refused /\ r.hold = 0 /\ Preferred[a] = 0
  <2>1. CASE Lead[a] = 0
    BY <1>3, <1>6, <2>1 DEF NextCheck, ShouldRefresh
  <2>2. CASE Lead[a] > 0 /\ r.expiry # None
    <3>1. r.expiry \in Nat
      BY <1>1, <2>2 DEF Times
    <3> QED
      BY <1>2, <1>6, <2>2, <3>1 DEF NextCheck, ShouldRefresh, NotBeforeNow
  <2>3. CASE Lead[a] > 0 /\ r.expiry = None
    BY <1>1, <1>2, <1>6, <2>3 DEF NextCheck, ShouldRefresh, NotBeforeNow
  <2> QED
    BY <1>2, <2>1, <2>2, <2>3
<1> QED
  BY <1>1, <1>2, <1>4, <1>5, <1>6 DEF Record

-----------------------------------------------------------------------------
(* Types. *)

Loops == [at : {"rebuild", "select", "drain", "dirty", "due", "mark", "again", "send"},
          todo : SUBSET Auth, auth : Auth \cup {NoAuth}]

LEMMA RecordUpdates ==
  ASSUME NEW r \in Record
  PROVE  /\ \A h \in Nat : [r EXCEPT !.hold = h] \in Record
         /\ \A b \in BOOLEAN : [r EXCEPT !.refused = b] \in Record
         /\ \A e \in Times, g \in Ages, h \in Nat :
               [r EXCEPT !.expiry = e, !.age = g, !.hold = h] \in Record
  BY DEF Record

LEMMA HoldField ==
  ASSUME NEW r \in Record, NEW h \in Nat
  PROVE  /\ [r EXCEPT !.hold = h].hold = h
         /\ r.hold = h => [r EXCEPT !.hold = h] = r
  BY DEF Record

LEMMA FreshType ==
  /\ Absent \in Record
  /\ \A a \in Auth : Fresh(a) \subseteq Record
<1>1. Absent \in Record
  BY DEF Absent, Record, Times, Ages
<1>2. ASSUME NEW a \in Auth, NEW e \in Expiries[a]
      PROVE  [Absent EXCEPT !.present = TRUE, !.expiry = e] \in Record
  <2>1. e \in Times
    BY PeriodsAssumption DEF Times
  <2> QED
    BY <1>1, <2>1 DEF Absent, Record
<1> QED
  BY <1>1, <1>2 DEF Fresh

LEMMA InitTypeOK == Init => TypeOK
<1> SUFFICES ASSUME Init PROVE TypeOK
  OBVIOUS
<1>1. record \in [Auth -> Record]
  <2>1. PICK stored \in SUBSET Auth :
          record \in {r \in [Auth -> {Absent} \cup UNION {Fresh(a) : a \in Auth}] :
                        \A a \in Auth : r[a] \in IF a \in stored THEN Fresh(a) ELSE {Absent}}
    BY DEF Init
  <2> QED
    BY <2>1, FreshType
<1>2. loop \in Loops /\ loop.at = "rebuild" /\ loop.auth = NoAuth
  BY DEF Init, Waiting, Loops
<1>3. worker \in [Worker -> [auth : Auth \cup {NoAuth}, expiry : Times]]
  BY DEF Init, IdleWorker, Times
<1>4. service \in [auth : Auth \cup {NoAuth}, hold : Nat, age : Ages]
  BY DEF Init, NoService, Ages
<1>5. jobs \in Seq(Auth) /\ Len(jobs) <= JobBuffer
  BY EmptySeq, PeriodsType DEF Init
<1>6. heap \in [Auth -> Times] /\ timer \in Times
  BY DEF Init, Times
<1> QED
  BY <1>1, <1>2, <1>3, <1>4, <1>5, <1>6 DEF Init, TypeOK, Loops

LEMMA LoopType ==
  ASSUME TypeOK, Loop
  PROVE  TypeOK'
<1> USE DEF TypeOK, Others
<1>1. \A a \in Auth : NextCheck(a, record[a]) \in Times
  BY NextCheckType
<1>2. ASSUME NEW a \in Auth, Upserted(a)
      PROVE  heap' \in [Auth -> Times]
  BY <1>1, <1>2 DEF Upserted
<1>3. CASE Rebuild
  <2>1. heap' \in [Auth -> Times]
    BY <1>1, <1>3 DEF Rebuild
  <2>2. timer' \in Times
    BY <1>3, <2>1, SoonestType DEF Rebuild
  <2> QED
    BY <1>3, <2>1, <2>2 DEF Rebuild, Waiting
<1>4. CASE WakeUp
  BY <1>4 DEF WakeUp
<1>5. CASE DrainDirty
  BY <1>5 DEF DrainDirty
<1>6. CASE ResetTimer
  <2>1. timer' \in Times
    BY <1>6, SoonestType DEF ResetTimer
  <2> QED
    BY <1>6, <2>1 DEF ResetTimer, Waiting
<1>7. ASSUME NEW a \in Auth, HandleDue(a)
      PROVE  TypeOK'
  <2>1. heap' \in [Auth -> Times]
    BY <1>1, <1>7, PeriodsType DEF HandleDue, Times
  <2>2. loop' \in Loops /\ ((loop'.auth # NoAuth) <=> (loop'.at \in {"mark", "again", "send"}))
    BY <1>7, AuthAssumption DEF HandleDue, Loops
  <2> QED
    BY <1>7, <2>1, <2>2 DEF HandleDue, Loops
<1>8. ASSUME NEW a \in Auth, Mark(a)
      PROVE  TypeOK'
  <2>1. [record[a] EXCEPT !.hold = PendingBackoff] \in Record
    BY RecordUpdates, PeriodsType
  <2>2. record' \in [Auth -> Record]
    BY <1>8, <2>1 DEF Mark
  <2> QED
    BY <1>8, <2>2 DEF Mark
<1>9. ASSUME NEW a \in Auth, HandleAgain(a)
      PROVE  TypeOK'
  <2>1. heap' \in [Auth -> Times]
    BY <1>2, <1>9 DEF HandleAgain
  <2> QED
    BY <1>9, <2>1 DEF HandleAgain
<1>10. ASSUME NEW a \in Auth, Send(a)
       PROVE  TypeOK'
  <2>1. jobs' \in Seq(Auth) /\ Len(jobs') <= JobBuffer
    BY <1>10, AppendProperties, PeriodsType DEF Send
  <2> QED
    BY <1>10, <2>1 DEF Send
<1>11. ASSUME NEW a \in Auth, ApplyDirty(a)
       PROVE  TypeOK'
  <2>1. heap' \in [Auth -> Times]
    BY <1>2, <1>11 DEF ApplyDirty
  <2> QED
    BY <1>11, <2>1 DEF ApplyDirty
<1> QED
  BY <1>3, <1>4, <1>5, <1>6, <1>7, <1>8, <1>9, <1>10, <1>11 DEF Loop

LEMMA SoonerType == \A t \in Times : Sooner(t) \in Times
  BY DEF Sooner, Times, None

LEMMA OlderType == \A t \in Ages : Older(t) \in Ages
<1> SUFFICES ASSUME NEW t \in 0 .. MaxAge PROVE Older(t) \in Ages
  BY DEF Older, Ages
<1>1. t + 1 \in Int /\ MaxAge \in Int /\ t + 1 \in Nat
  BY PeriodsType
<1>2. {t + 1, MaxAge} = {t + 1} \cup {MaxAge}
  OBVIOUS
<1>3. Min({t + 1, MaxAge}) = IF t + 1 <= MaxAge THEN t + 1 ELSE MaxAge
  BY <1>1, <1>2, MinOfTwo
<1> QED
  BY <1>1, <1>3, PeriodsType DEF Older, Ages, None

(* The record a refresh leaves. *)
LEMMA EndRefreshRecord ==
  ASSUME TypeOK, NEW w \in Worker, EndRefresh(w)
  PROVE  \E r \in Record : Finish(w, r)
<1> DEFINE a == worker[w].auth
<1>1. /\ a \in Auth \cup {NoAuth} /\ worker[w].expiry \in Times
      /\ a # NoAuth => record[a] \in Record
  BY DEF TypeOK
<1>2. ASSUME NEW e, RefreshSucceeds(w, e)
      PROVE  \E r \in Record : Finish(w, r)
  <2> DEFINE r == [present |-> TRUE, expiry |-> e, age |-> IF AgeMatters(a) THEN 0 ELSE None,
                   hold |-> 0, refused |-> FALSE]
             hold == IF ShouldRefresh(a, r) THEN IneffectiveBackoff ELSE 0
  <2>1. e \in Times
    BY <1>1, <1>2, PeriodsAssumption DEF RefreshSucceeds, Times
  <2>2. r \in Record
    BY <2>1, PeriodsType DEF Record, Ages
  <2>3. hold \in Nat
    BY PeriodsType
  <2>4. Finish(w, [r EXCEPT !.hold = hold])
    BY <1>2 DEF RefreshSucceeds
  <2> HIDE DEF r, hold
  <2>5. [r EXCEPT !.hold = hold] \in Record
    BY <2>2, <2>3 DEF Record
  <2> QED
    BY <2>4, <2>5
<1>3. ASSUME NEW unauthorized \in BOOLEAN, RefreshFails(w, unauthorized)
      PROVE  \E r \in Record : Finish(w, r)
  <2>1. [record[a] EXCEPT !.hold = IF unauthorized THEN 0 ELSE FailureBackoff,
                          !.refused = unauthorized] \in Record
    BY <1>1, <1>3, PeriodsType DEF RefreshFails, Record
  <2> QED
    BY <1>3, <2>1 DEF RefreshFails
<1>4. CASE RefreshCancelled(w)
  BY <1>1, <1>4 DEF RefreshCancelled
<1> QED
  BY <1>2, <1>3, <1>4 DEF EndRefresh

(* The record the service stores. *)
LEMMA ServiceStoresRecord ==
  ASSUME TypeOK, NEW a \in Auth, NEW f \in Fresh(a), NEW carried \in BOOLEAN,
         ServiceStores(a, f, carried)
  PROVE  \E r \in Record :
           /\ Stored(a, r, ~carried \/ service.hold < record[a].hold)
           /\ carried => r.hold = service.hold
<1>1. f \in Record
  BY FreshType
<1>2. service.hold \in Nat /\ service.age \in Ages
  BY DEF TypeOK
<1>3. [f EXCEPT !.hold = service.hold, !.age = service.age] \in Record
  BY <1>1, <1>2 DEF Record
<1>4. carried => [f EXCEPT !.hold = service.hold, !.age = service.age].hold = service.hold
  BY <1>1 DEF Record
<1> QED
  BY <1>1, <1>3, <1>4 DEF ServiceStores

LEMMA NextTypeOK == TypeOK /\ [Next]_vars => TypeOK'
<1> SUFFICES ASSUME TypeOK, [Next]_vars PROVE TypeOK'
  OBVIOUS
<1> USE DEF TypeOK, Others
<1>1. CASE Loop
  BY <1>1, LoopType
<1>2. CASE PopDue
  <2>1. heap' \in [Auth -> Times] /\ timer' \in Times
    BY <1>2 DEF PopDue, Times
  <2>2. Due \subseteq Auth
    BY DEF Due
  <2> QED
    BY <1>2, <2>1, <2>2 DEF PopDue
<1>3. CASE Tick
  <2>1. record' \in [Auth -> Record]
    <3>1. ASSUME NEW a \in Auth
          PROVE  [record[a] EXCEPT !.expiry = Sooner(@), !.age = Older(@), !.hold = Sooner(@)] \in Record
      <4>1. /\ Sooner(record[a].expiry) \in Times
            /\ Older(record[a].age) \in Ages
            /\ Sooner(record[a].hold) \in Nat
        BY SoonerType, OlderType DEF Record, Sooner
      <4>2. record[a] \in Record
        OBVIOUS
      <4> QED
        BY <4>1, <4>2, RecordUpdates
    <3> QED
      BY <1>3, <3>1 DEF Tick
  <2>2. heap' \in [Auth -> Times] /\ timer' \in Times
    BY <1>3, SoonerType DEF Tick
  <2>3. worker' \in [Worker -> [auth : Auth \cup {NoAuth}, expiry : Times]]
    <3>1. worker' = [v \in Worker |-> [worker[v] EXCEPT !.expiry = Sooner(@)]]
      BY <1>3 DEF Tick
    <3>2. ASSUME NEW v \in Worker
          PROVE  [worker[v] EXCEPT !.expiry = Sooner(@)] \in [auth : Auth \cup {NoAuth}, expiry : Times]
      <4>1. worker[v] \in [auth : Auth \cup {NoAuth}, expiry : Times]
        OBVIOUS
      <4> QED
        BY <4>1, SoonerType
    <3> QED
      BY <3>1, <3>2
  <2>4. service' \in [auth : Auth \cup {NoAuth}, hold : Nat, age : Ages]
    <3>1. Sooner(service.hold) \in Nat /\ Older(service.age) \in Ages
      BY OlderType DEF Sooner
    <3> QED
      BY <1>3, <3>1 DEF Tick
  <2> QED
    BY <1>3, <2>1, <2>2, <2>3, <2>4 DEF Tick
<1>4. ASSUME NEW w \in Worker, Take(w)
      PROVE  TypeOK'
  <2>1. Head(jobs) \in Auth /\ jobs' \in Seq(Auth) /\ Len(jobs') <= JobBuffer
    BY <1>4, HeadTailProperties, LenProperties, PeriodsType DEF Take
  <2>2. worker' \in [Worker -> [auth : Auth \cup {NoAuth}, expiry : Times]]
    BY <1>4, <2>1 DEF Take, Record
  <2> QED
    BY <1>4, <2>1, <2>2 DEF Take
<1>5. ASSUME NEW w \in Worker, EndRefresh(w)
      PROVE  TypeOK'
  <2>1. PICK r \in Record : Finish(w, r)
    BY <1>5, EndRefreshRecord
  <2>2. worker[w].auth \in Auth
    BY <1>5 DEF EndRefresh, RefreshSucceeds, RefreshFails, RefreshCancelled
  <2>3. IdleWorker \in [auth : Auth \cup {NoAuth}, expiry : Times]
    BY DEF IdleWorker, Times
  <2> QED
    BY <2>1, <2>2, <2>3 DEF Finish
<1>6. ASSUME NEW a \in Auth, QueueReschedule(a)
      PROVE  TypeOK'
  BY <1>6 DEF QueueReschedule
<1>7. ASSUME NEW a \in Auth, ServiceReads(a)
      PROVE  TypeOK'
  <2>1. record[a].hold \in Nat /\ record[a].age \in Ages
    BY DEF Record
  <2> QED
    BY <1>7, <2>1 DEF ServiceReads
<1>8. ASSUME NEW a \in Auth, NEW f \in Fresh(a), NEW carried \in BOOLEAN,
             ServiceStores(a, f, carried)
      PROVE  TypeOK'
  <2>1. PICK r \in Record : Stored(a, r, ~carried \/ service.hold < record[a].hold)
    BY <1>8, ServiceStoresRecord
  <2>2. NoService \in [auth : Auth \cup {NoAuth}, hold : Nat, age : Ages]
    BY DEF NoService, Ages
  <2> QED
    BY <2>1, <2>2 DEF Stored
<1>9. ASSUME NEW a \in Auth, RegisterExecutor(a)
      PROVE  TypeOK'
  BY <1>9 DEF RegisterExecutor
<1>10. ASSUME NEW a \in Auth, NEW unauthorized \in BOOLEAN, MarkResult(a, unauthorized)
       PROVE  TypeOK'
  <2>1. [record[a] EXCEPT !.refused = unauthorized] \in Record
    BY RecordUpdates
  <2>2. record' \in [Auth -> Record]
    BY <1>10, <2>1 DEF MarkResult
  <2> QED
    BY <1>10, <2>2 DEF MarkResult
<1>11. CASE UNCHANGED vars
  BY <1>11 DEF vars
<1> QED
  BY <1>1, <1>2, <1>3, <1>4, <1>5, <1>6, <1>7, <1>8, <1>9, <1>10, <1>11 DEF Next

(* The state of the refresh loop and of what it works on stays typed. *)
THEOREM TypeCorrect == Spec => []TypeOK
  BY InitTypeOK, NextTypeOK, PTL DEF Spec

-----------------------------------------------------------------------------
(* Counting the jobs and workers that hold a credential. *)

JobsOf(s, b) == {i \in DOMAIN s : s[i] = b}
HeldBy(f, b) == {w \in Worker : f[w].auth = b}
Sending(l, b) == IF l.at = "send" /\ l.auth = b THEN 1 ELSE 0

LEMMA JobsFinite ==
  ASSUME NEW s \in Seq(Auth), NEW b
  PROVE  IsFiniteSet(JobsOf(s, b)) /\ Cardinality(JobsOf(s, b)) \in Nat
<1>1. DOMAIN s = 1 .. Len(s) /\ Len(s) \in Nat
  BY LenProperties
<1>2. IsFiniteSet(1 .. Len(s))
  BY <1>1, FS_Interval
<1>3. JobsOf(s, b) \in SUBSET (1 .. Len(s))
  BY <1>1 DEF JobsOf
<1> QED
  BY <1>2, <1>3, FS_Subset, FS_CardinalityType

LEMMA HeldFinite ==
  ASSUME NEW f, NEW b
  PROVE  IsFiniteSet(HeldBy(f, b)) /\ Cardinality(HeldBy(f, b)) \in Nat
<1>1. HeldBy(f, b) \in SUBSET Worker
  BY DEF HeldBy
<1> QED
  BY <1>1, WorkerAssumption, FS_Subset, FS_CardinalityType

LEMMA InFlightIs ==
  \A b \in Auth : InFlight(b) = Cardinality(JobsOf(jobs, b)) + Cardinality(HeldBy(worker, b))
                                + Sending(loop, b)
  BY DEF InFlight, JobsOf, HeldBy, Sending

LEMMA InFlightNat ==
  ASSUME TypeOK
  PROVE  \A b \in Auth : InFlight(b) \in Nat
<1> SUFFICES ASSUME NEW b \in Auth PROVE InFlight(b) \in Nat
  OBVIOUS
<1>1. Cardinality(JobsOf(jobs, b)) \in Nat /\ Cardinality(HeldBy(worker, b)) \in Nat
  BY JobsFinite, HeldFinite DEF TypeOK
<1>2. Sending(loop, b) \in Nat
  BY DEF Sending
<1> QED
  BY <1>1, <1>2, InFlightIs

LEMMA CountAppend ==
  ASSUME NEW s \in Seq(Auth), NEW x \in Auth, NEW b \in Auth
  PROVE  Cardinality(JobsOf(Append(s, x), b)) =
            Cardinality(JobsOf(s, b)) + IF x = b THEN 1 ELSE 0
<1> DEFINE n == Len(s) + 1
<1>1. /\ DOMAIN s = 1 .. Len(s) /\ Len(s) \in Nat
      /\ DOMAIN Append(s, x) = 1 .. n
      /\ \A i \in 1 .. Len(s) : Append(s, x)[i] = s[i]
      /\ Append(s, x)[n] = x
  BY AppendProperties, LenProperties
<1>2. n \notin JobsOf(s, b)
  BY <1>1 DEF JobsOf
<1>3. JobsOf(Append(s, x), b) = IF x = b THEN JobsOf(s, b) \cup {n} ELSE JobsOf(s, b)
  BY <1>1 DEF JobsOf
<1>4. IsFiniteSet(JobsOf(s, b)) /\ Cardinality(JobsOf(s, b)) \in Nat
  BY JobsFinite
<1>5. Cardinality(JobsOf(s, b) \cup {n}) = Cardinality(JobsOf(s, b)) + 1
  BY <1>2, <1>4, FS_AddElement
<1> QED
  BY <1>3, <1>4, <1>5

LEMMA CountTail ==
  ASSUME NEW s \in Seq(Auth), s # <<>>, NEW b \in Auth
  PROVE  Cardinality(JobsOf(s, b)) =
            Cardinality(JobsOf(Tail(s), b)) + IF Head(s) = b THEN 1 ELSE 0
<1> DEFINE later == JobsOf(s, b) \ {1}
           next == [i \in JobsOf(Tail(s), b) |-> i + 1]
<1>1. /\ DOMAIN s = 1 .. Len(s) /\ Len(s) \in Nat \ {0}
      /\ Tail(s) \in Seq(Auth) /\ DOMAIN Tail(s) = 1 .. Len(s) - 1
      /\ \A i \in 1 .. Len(s) - 1 : Tail(s)[i] = s[i + 1]
      /\ Head(s) = s[1]
  BY HeadTailProperties, LenProperties, EmptySeq
<1>2. next \in Bijection(JobsOf(Tail(s), b), later)
  <2>1. \A i \in JobsOf(Tail(s), b) : i + 1 \in later /\ i \in Nat
    BY <1>1 DEF JobsOf
  <2>2. \A j \in later : j - 1 \in JobsOf(Tail(s), b) /\ j = (j - 1) + 1
    BY <1>1 DEF JobsOf
  <2>3. next \in [JobsOf(Tail(s), b) -> later]
    BY <2>1
  <2>4. \A i, j \in JobsOf(Tail(s), b) : next[i] = next[j] => i = j
    BY <2>1
  <2>5. \A j \in later : \E i \in JobsOf(Tail(s), b) : next[i] = j
    BY <2>2
  <2> QED
    BY <2>3, <2>4, <2>5 DEF Bijection, Injection, Surjection, IsInjective
<1>3. IsFiniteSet(JobsOf(Tail(s), b)) /\ IsFiniteSet(JobsOf(s, b))
  BY <1>1, JobsFinite
<1>4. Cardinality(later) = Cardinality(JobsOf(Tail(s), b))
  BY <1>2, <1>3, FS_Bijection DEF ExistsBijection
<1>5. 1 \in JobsOf(s, b) <=> Head(s) = b
  BY <1>1 DEF JobsOf
<1>6. Cardinality(JobsOf(s, b)) \in Nat
  BY JobsFinite
<1>7. Cardinality(later) = IF Head(s) = b THEN Cardinality(JobsOf(s, b)) - 1
                           ELSE Cardinality(JobsOf(s, b))
  BY <1>3, <1>5, FS_RemoveElement
<1> QED
  BY <1>4, <1>6, <1>7

(* A worker that changes hands. *)
LEMMA CountWorker ==
  ASSUME NEW f, NEW g, NEW w \in Worker, NEW b,
         \A v \in Worker \ {w} : g[v].auth = f[v].auth,
         f[w].auth # b, g[w].auth = b
  PROVE  Cardinality(HeldBy(g, b)) = Cardinality(HeldBy(f, b)) + 1
<1>1. HeldBy(g, b) = HeldBy(f, b) \cup {w} /\ w \notin HeldBy(f, b)
  BY DEF HeldBy
<1> QED
  BY <1>1, HeldFinite, FS_AddElement

LEMMA SameHeld ==
  ASSUME NEW f, NEW g, NEW b, \A v \in Worker : g[v].auth = b <=> f[v].auth = b
  PROVE  HeldBy(g, b) = HeldBy(f, b)
  BY DEF HeldBy

(* How the steps move a credential about. *)
LEMMA SendInFlight ==
  ASSUME TypeOK, NEW a \in Auth, Send(a), NEW b \in Auth
  PROVE  InFlight(b)' = InFlight(b)
<1>1. Cardinality(JobsOf(jobs', b)) = Cardinality(JobsOf(jobs, b)) + IF a = b THEN 1 ELSE 0
  BY CountAppend DEF Send, TypeOK
<1>2. Sending(loop, b) = IF a = b THEN 1 ELSE 0
  BY DEF Send, Sending
<1>3. Sending(loop', b) = 0
  BY DEF Send, Sending, TypeOK
<1>4. worker' = worker
  BY DEF Send, Others
<1>5. Cardinality(JobsOf(jobs, b)) \in Nat /\ Cardinality(HeldBy(worker, b)) \in Nat
  BY JobsFinite, HeldFinite DEF TypeOK
<1>6. InFlight(b)' = Cardinality(JobsOf(jobs', b)) + Cardinality(HeldBy(worker', b)) + Sending(loop', b)
  BY DEF InFlight, JobsOf, HeldBy, Sending
<1> QED
  BY <1>1, <1>2, <1>3, <1>4, <1>5, <1>6, InFlightIs

LEMMA TakeInFlight ==
  ASSUME TypeOK, NEW w \in Worker, Take(w), NEW b \in Auth
  PROVE  InFlight(b)' = InFlight(b)
<1>1. jobs # <<>> /\ jobs' = Tail(jobs) /\ loop' = loop /\ Head(jobs) \in Auth
  BY HeadTailProperties DEF Take, TypeOK
<1>2. worker[w].auth = NoAuth /\ worker'[w].auth = Head(jobs)
  BY DEF Take, IdleWorker, TypeOK
<1>3. \A v \in Worker \ {w} : worker'[v].auth = worker[v].auth
  BY DEF Take, TypeOK
<1>4. Cardinality(HeldBy(worker', b)) =
        Cardinality(HeldBy(worker, b)) + IF Head(jobs) = b THEN 1 ELSE 0
  <2>1. CASE Head(jobs) = b
    <3>1. worker[w].auth # b /\ worker'[w].auth = b
      BY <1>1, <1>2, <2>1, AuthAssumption
    <3> QED
      BY <1>3, <2>1, <3>1, CountWorker
  <2>2. CASE Head(jobs) # b
    <3>1. HeldBy(worker', b) = HeldBy(worker, b)
      BY <1>2, <1>3, <2>2, AuthAssumption, SameHeld
    <3> QED
      BY <2>2, <3>1, HeldFinite
  <2> QED
    BY <2>1, <2>2
<1>5. Cardinality(JobsOf(jobs, b)) =
        Cardinality(JobsOf(jobs', b)) + IF Head(jobs) = b THEN 1 ELSE 0
  BY <1>1, CountTail DEF TypeOK
<1>6. jobs' \in Seq(Auth)
  BY <1>1, HeadTailProperties DEF TypeOK
<1>7. Cardinality(JobsOf(jobs', b)) \in Nat /\ Cardinality(HeldBy(worker, b)) \in Nat
  BY <1>6, JobsFinite, HeldFinite
<1>8. Sending(loop', b) = Sending(loop, b) /\ Sending(loop, b) \in Nat
  BY <1>1 DEF Sending
<1>9. InFlight(b)' = Cardinality(JobsOf(jobs', b)) + Cardinality(HeldBy(worker', b)) + Sending(loop', b)
  BY DEF InFlight, JobsOf, HeldBy, Sending
<1> QED
  BY <1>4, <1>5, <1>7, <1>8, <1>9, InFlightIs

LEMMA FinishInFlight ==
  ASSUME TypeOK, NEW w \in Worker, NEW r, worker[w].auth # NoAuth, Finish(w, r), NEW b \in Auth
  PROVE  InFlight(b) = InFlight(b)' + IF worker[w].auth = b THEN 1 ELSE 0
<1>1. jobs' = jobs /\ loop' = loop
  BY DEF Finish
<1>2. worker'[w].auth = NoAuth
  BY DEF Finish, IdleWorker, TypeOK
<1>3. \A v \in Worker \ {w} : worker'[v].auth = worker[v].auth
  BY DEF Finish, TypeOK
<1>4. Cardinality(HeldBy(worker, b)) =
        Cardinality(HeldBy(worker', b)) + IF worker[w].auth = b THEN 1 ELSE 0
  <2>1. CASE worker[w].auth = b
    <3>1. worker'[w].auth # b
      BY <1>2, AuthAssumption
    <3>2. \A v \in Worker \ {w} : worker[v].auth = worker'[v].auth
      BY <1>3
    <3>3. Cardinality(HeldBy(worker, b)) = Cardinality(HeldBy(worker', b)) + 1
      BY <2>1, <3>1, <3>2, CountWorker
    <3> QED
      BY <2>1, <3>3
  <2>2. CASE worker[w].auth # b
    <3>1. HeldBy(worker', b) = HeldBy(worker, b)
      BY <1>2, <1>3, <2>2, AuthAssumption, SameHeld
    <3> QED
      BY <2>2, <3>1, HeldFinite
  <2> QED
    BY <2>1, <2>2
<1>5. /\ Cardinality(JobsOf(jobs, b)) \in Nat /\ Cardinality(HeldBy(worker', b)) \in Nat
      /\ Sending(loop, b) \in Nat
  BY JobsFinite, HeldFinite DEF TypeOK, Sending
<1>6. InFlight(b)' = Cardinality(JobsOf(jobs', b)) + Cardinality(HeldBy(worker', b)) + Sending(loop', b)
  BY DEF InFlight, JobsOf, HeldBy, Sending
<1> QED
  BY <1>1, <1>4, <1>5, <1>6, InFlightIs

LEMMA SameInFlight ==
  ASSUME NEW b \in Auth, jobs' = jobs, \A v \in Worker : worker'[v].auth = worker[v].auth,
         Sending(loop', b) = Sending(loop, b)
  PROVE  InFlight(b)' = InFlight(b)
<1>1. HeldBy(worker', b) = HeldBy(worker, b)
  BY DEF HeldBy
<1>2. InFlight(b)' = Cardinality(JobsOf(jobs', b)) + Cardinality(HeldBy(worker', b)) + Sending(loop', b)
  BY DEF InFlight, JobsOf, HeldBy, Sending
<1> QED
  BY <1>1, <1>2, InFlightIs

-----------------------------------------------------------------------------
(* One refresh at a time: a credential in flight, unless it is excused, is *)
(* so once and inside its pending window, and markRefreshPending marks     *)
(* none inside it.                                                         *)
HeldWhileInFlight ==
    \A b \in Auth :
        \/ b \in excused
        \/ InFlight(b) <= 1 /\ (InFlight(b) = 1 => record[b].hold > 0)

LEMMA InitHeld == Init => HeldWhileInFlight
<1> SUFFICES ASSUME Init, NEW b \in Auth PROVE InFlight(b) = 0
  BY DEF HeldWhileInFlight
<1>1. JobsOf(jobs, b) = {}
  BY DEF Init, JobsOf
<1>2. HeldBy(worker, b) = {}
  BY AuthAssumption DEF Init, HeldBy, IdleWorker
<1>3. Sending(loop, b) = 0
  BY DEF Init, Waiting, Sending
<1> QED
  BY <1>1, <1>2, <1>3, FS_EmptySet, InFlightIs

LEMMA HeldStays ==
  ASSUME HeldWhileInFlight, excused \subseteq excused',
         \A b \in Auth : \/ b \in excused'
                         \/ /\ InFlight(b)' = InFlight(b)
                            /\ InFlight(b) = 1 /\ record[b].hold > 0 => record'[b].hold > 0
  PROVE  HeldWhileInFlight'
  BY DEF HeldWhileInFlight

(* Steps that move nothing and change no record. *)
LEMMA HeldUnmoved ==
  ASSUME HeldWhileInFlight, record' = record, excused' = excused, jobs' = jobs,
         worker' = worker, \A b \in Auth : Sending(loop', b) = Sending(loop, b)
  PROVE  HeldWhileInFlight'
<1>1. \A b \in Auth : InFlight(b)' = InFlight(b)
  BY SameInFlight
<1> QED
  BY <1>1, HeldStays

LEMMA LoopHeld ==
  ASSUME TypeOK, HeldWhileInFlight, Loop
  PROVE  HeldWhileInFlight'
<1> USE DEF Others
<1>1. CASE Rebuild
  BY <1>1, HeldUnmoved DEF Rebuild, Waiting, Sending
<1>2. CASE WakeUp
  BY <1>2, HeldUnmoved DEF WakeUp, Sending, TypeOK
<1>3. CASE DrainDirty
  BY <1>3, HeldUnmoved DEF DrainDirty, Sending, TypeOK
<1>4. CASE ResetTimer
  BY <1>4, HeldUnmoved DEF ResetTimer, Waiting, Sending
<1>5. ASSUME NEW a \in Auth, HandleDue(a)
      PROVE  HeldWhileInFlight'
  BY <1>5, HeldUnmoved DEF HandleDue, Sending
<1>6. ASSUME NEW a \in Auth, HandleAgain(a)
      PROVE  HeldWhileInFlight'
  BY <1>6, HeldUnmoved DEF HandleAgain, Sending, TypeOK
<1>7. ASSUME NEW a \in Auth, ApplyDirty(a)
      PROVE  HeldWhileInFlight'
  BY <1>7, HeldUnmoved DEF ApplyDirty, Sending, TypeOK
<1>8. ASSUME NEW a \in Auth, Send(a)
      PROVE  HeldWhileInFlight'
  <2>1. record' = record /\ excused' = excused
    BY <1>8 DEF Send
  <2> QED
    BY <1>8, <2>1, SendInFlight, HeldStays
<1>9. ASSUME NEW a \in Auth, Mark(a)
      PROVE  HeldWhileInFlight'
  <2>1. CASE record[a].hold > 0
    BY <1>9, <2>1, HeldUnmoved DEF Mark, Sending, TypeOK
  <2>2. CASE ~(record[a].hold > 0)
    <3>1. /\ excused' = excused /\ jobs' = jobs /\ worker' = worker
          /\ record' = [record EXCEPT ![a].hold = PendingBackoff]
          /\ loop' = [loop EXCEPT !.at = "send"] /\ loop.at = "mark" /\ loop.auth = a
      BY <1>9, <2>2 DEF Mark
    <3>2. record'[a].hold > 0
      BY <3>1, PeriodsType DEF TypeOK, Record
    <3>3. \A b \in Auth \ {a} : record'[b] = record[b]
      BY <3>1 DEF TypeOK
    <3>4. \A b \in Auth \ {a} : InFlight(b)' = InFlight(b)
      BY <3>1, SameInFlight DEF Sending, TypeOK
    <3>5. InFlight(a)' = InFlight(a) + 1
      <4>1. Sending(loop, a) = 0 /\ Sending(loop', a) = 1
        BY <3>1 DEF Sending, TypeOK
      <4>2. InFlight(a)' = Cardinality(JobsOf(jobs', a)) + Cardinality(HeldBy(worker', a)) + Sending(loop', a)
        BY DEF InFlight, JobsOf, HeldBy, Sending
      <4>3. Cardinality(JobsOf(jobs, a)) \in Nat /\ Cardinality(HeldBy(worker, a)) \in Nat
        BY JobsFinite, HeldFinite DEF TypeOK
      <4> QED
        BY <3>1, <4>1, <4>2, <4>3, InFlightIs
    <3>6. a \in excused' \/ (InFlight(a)' <= 1 /\ (InFlight(a)' = 1 => record'[a].hold > 0))
      BY <2>2, <3>1, <3>2, <3>5, InFlightNat DEF HeldWhileInFlight
    <3> QED
      BY <3>1, <3>3, <3>4, <3>6 DEF HeldWhileInFlight
  <2> QED
    BY <2>1, <2>2
<1> QED
  BY <1>1, <1>2, <1>3, <1>4, <1>5, <1>6, <1>7, <1>8, <1>9 DEF Loop

LEMMA NextHeld == TypeOK /\ HeldWhileInFlight /\ [Next]_vars => HeldWhileInFlight'
<1> SUFFICES ASSUME TypeOK, HeldWhileInFlight, [Next]_vars PROVE HeldWhileInFlight'
  OBVIOUS
<1> USE DEF Others
<1>1. CASE Loop
  BY <1>1, LoopHeld
<1>2. CASE PopDue
  BY <1>2, HeldUnmoved DEF PopDue, Sending, TypeOK
<1>3. CASE Tick
  <2>1. /\ jobs' = jobs /\ loop' = loop
        /\ excused' = excused \cup {a \in Auth : record[a].hold = 1 /\ InFlight(a) > 0}
    BY <1>3 DEF Tick
  <2>2. \A v \in Worker : worker'[v].auth = worker[v].auth
    BY <1>3 DEF Tick, TypeOK
  <2>3. \A b \in Auth : InFlight(b)' = InFlight(b)
    BY <2>1, <2>2, SameInFlight
  <2>4. ASSUME NEW b \in Auth
        PROVE  record'[b].hold = Sooner(record[b].hold) /\ record[b].hold \in Nat
    <3>1. record[b] \in Record
      BY DEF TypeOK
    <3>2. record'[b] = [record[b] EXCEPT !.expiry = Sooner(@), !.age = Older(@), !.hold = Sooner(@)]
      BY <1>3 DEF Tick
    <3> QED
      BY <3>1, <3>2 DEF Record
  <2>5. ASSUME NEW b \in Auth, b \notin excused', InFlight(b) = 1, record[b].hold > 0
        PROVE  record'[b].hold > 0
    <3>1. record[b].hold # 1
      BY <2>1, <2>5
    <3> QED
      BY <2>4, <2>5, <3>1 DEF Sooner
  <2> QED
    BY <2>1, <2>3, <2>5, HeldStays
<1>4. ASSUME NEW w \in Worker, Take(w)
      PROVE  HeldWhileInFlight'
  <2>1. record' = record /\ excused' = excused
    BY <1>4 DEF Take
  <2> QED
    BY <1>4, <2>1, TakeInFlight, HeldStays
<1>5. ASSUME NEW w \in Worker, EndRefresh(w)
      PROVE  HeldWhileInFlight'
  <2>1. PICK r \in Record : Finish(w, r)
    BY <1>5, EndRefreshRecord
  <2>2. PICK a \in Auth : a = worker[w].auth /\ a # NoAuth
    BY <1>5 DEF EndRefresh, RefreshSucceeds, RefreshFails, RefreshCancelled, TypeOK
  <2>3. /\ record' = [record EXCEPT ![a] = r]
        /\ excused' = IF InFlight(a) = 1 THEN excused \ {a} ELSE excused
    BY <2>1, <2>2 DEF Finish
  <2>4. \A b \in Auth : InFlight(b) = InFlight(b)' + IF a = b THEN 1 ELSE 0
    BY <2>1, <2>2, FinishInFlight
  <2>5. \A b \in Auth : InFlight(b) \in Nat /\ InFlight(b)' \in Nat
    <3>1. TypeOK'
      BY <1>5, NextTypeOK DEF Next
    <3>2. \A b \in Auth : InFlight(b)' \in Nat
      <4>1. jobs' \in Seq(Auth)
        BY <3>1 DEF TypeOK
      <4>2. \A b \in Auth : InFlight(b)' = Cardinality(JobsOf(jobs', b)) + Cardinality(HeldBy(worker', b)) + Sending(loop', b)
        BY DEF InFlight, JobsOf, HeldBy, Sending
      <4> QED
        BY <4>1, <4>2, JobsFinite, HeldFinite DEF Sending
    <3> QED
      BY <3>2, InFlightNat
  <2>6. ASSUME NEW b \in Auth \ {a}
        PROVE  b \in excused' \/ (InFlight(b)' <= 1 /\ (InFlight(b)' = 1 => record'[b].hold > 0))
    <3>1. InFlight(b)' = InFlight(b) /\ record'[b] = record[b] /\ (b \in excused <=> b \in excused')
      BY <2>3, <2>4, <2>5 DEF TypeOK
    <3> QED
      BY <3>1 DEF HeldWhileInFlight
  <2>7. a \in excused' \/ (InFlight(a)' <= 1 /\ (InFlight(a)' = 1 => record'[a].hold > 0))
    <3>1. CASE InFlight(a) = 1
      BY <2>2, <2>4, <2>5, <3>1
    <3>2. CASE InFlight(a) # 1
      BY <2>2, <2>3, <2>4, <2>5, <3>2 DEF HeldWhileInFlight
    <3> QED
      BY <3>1, <3>2
  <2> QED
    BY <2>6, <2>7 DEF HeldWhileInFlight
<1>6. ASSUME NEW a \in Auth, QueueReschedule(a)
      PROVE  HeldWhileInFlight'
  BY <1>6, HeldUnmoved DEF QueueReschedule
<1>7. ASSUME NEW a \in Auth, ServiceReads(a)
      PROVE  HeldWhileInFlight'
  BY <1>7, HeldUnmoved DEF ServiceReads
<1>8. ASSUME NEW a \in Auth, NEW f \in Fresh(a), NEW carried \in BOOLEAN,
             ServiceStores(a, f, carried)
      PROVE  HeldWhileInFlight'
  <2> DEFINE stale == ~carried \/ service.hold < record[a].hold
  <2>1. PICK r \in Record : Stored(a, r, stale) /\ (carried => r.hold = service.hold)
    BY <1>8, ServiceStoresRecord
  <2>2. /\ record' = [record EXCEPT ![a] = r]
        /\ excused' = IF stale /\ InFlight(a) > 0 THEN excused \cup {a} ELSE excused
        /\ jobs' = jobs /\ worker' = worker /\ loop' = loop
    BY <2>1 DEF Stored
  <2>3. \A b \in Auth : InFlight(b)' = InFlight(b)
    BY <2>2, SameInFlight
  <2>4. record'[a] = r /\ \A b \in Auth \ {a} : record'[b] = record[b]
    BY <2>2 DEF TypeOK
  <2>5. a \notin excused' /\ InFlight(a) = 1 /\ record[a].hold > 0 => record'[a].hold > 0
    <3> SUFFICES ASSUME a \notin excused', InFlight(a) = 1, record[a].hold > 0
                 PROVE  r.hold > 0
      BY <2>4
    <3>1. ~stale
      BY <2>2
    <3>2. service.hold \in Nat /\ record[a].hold \in Nat
      BY DEF TypeOK, Record
    <3> QED
      BY <2>1, <3>1, <3>2
  <2>6. excused \subseteq excused'
    BY <2>2
  <2> HIDE DEF stale
  <2> QED
    BY <2>3, <2>4, <2>5, <2>6, HeldStays
<1>9. ASSUME NEW a \in Auth, RegisterExecutor(a)
      PROVE  HeldWhileInFlight'
  BY <1>9, HeldUnmoved DEF RegisterExecutor
<1>10. ASSUME NEW a \in Auth, NEW unauthorized \in BOOLEAN, MarkResult(a, unauthorized)
       PROVE  HeldWhileInFlight'
  <2>1. \A b \in Auth : record'[b].hold = record[b].hold
    BY <1>10 DEF MarkResult, TypeOK, Record
  <2>2. excused' = excused /\ jobs' = jobs /\ worker' = worker /\ loop' = loop
    BY <1>10 DEF MarkResult
  <2>3. \A b \in Auth : InFlight(b)' = InFlight(b)
    BY <2>2, SameInFlight
  <2> QED
    BY <2>1, <2>2, <2>3, HeldStays
<1>11. CASE UNCHANGED vars
  BY <1>11, HeldUnmoved DEF vars
<1> QED
  BY <1>1, <1>2, <1>3, <1>4, <1>5, <1>6, <1>7, <1>8, <1>9, <1>10, <1>11 DEF Next

(* A refresh token is not spent twice at a time, but for the ways excused  *)
(* names, whatever the number of credentials and workers, the size of the  *)
(* job channel and the backoffs.                                           *)
THEOREM OneRefreshAtATimeInvariant == Spec => []OneRefreshAtATime
<1>1. TypeOK /\ HeldWhileInFlight => OneRefreshAtATime
  BY DEF HeldWhileInFlight, OneRefreshAtATime
<1> QED
  BY <1>1, InitTypeOK, NextTypeOK, InitHeld, NextHeld, PTL DEF Spec

-----------------------------------------------------------------------------
(* No tight loop: what has been handled at this instant is not due again.  *)
(* Its record wants no check now, because ChecksAgree makes a check that   *)
(* is due a refresh, and a refresh, however it ends, leaves a hold or      *)
(* nothing to do; or the loop has still to come to it.                     *)
Unhandled(a) ==
    \/ loop.at \in {"due", "mark", "again", "send"} /\ a \in loop.todo
    \/ loop.at = "mark" /\ loop.auth = a
QuietOnceHandled ==
    /\ loop.auth \notin loop.todo
    /\ \A a \in busy \cap executors :
          /\ heap[a] # 0
          /\ NextCheck(a, record[a]) # 0 \/ Unhandled(a)

(* A record that is held, refused or needs no refresh is not due. *)
LEMMA NotDue ==
  ASSUME NEW a \in Auth, NEW r \in Record,
         r.hold > 0 \/ r.refused \/ ~ShouldRefresh(a, r)
  PROVE  NextCheck(a, r) # 0
<1>1. CASE a \in ApiKey \/ r.refused
  BY <1>1 DEF NextCheck, None
<1>2. CASE a \notin ApiKey /\ r.hold > 0
  <2>1. ~ShouldRefresh(a, r)
    BY <1>2 DEF ShouldRefresh, Record
  <2> QED
    BY <1>2, <2>1, ChecksAgree
<1>3. CASE a \notin ApiKey /\ ~ShouldRefresh(a, r)
  BY <1>3, ChecksAgree
<1> QED
  BY <1>1, <1>2, <1>3

(* What a refresh that is due leaves behind is not due. *)
LEMMA EndRefreshQuiet ==
  ASSUME TypeOK, NEW w \in Worker, EndRefresh(w), NEW a \in Auth
  PROVE  NextCheck(a, record'[a]) # 0 \/ record'[a] = record[a]
<1>1. CASE a # worker[w].auth
  BY <1>1 DEF EndRefresh, RefreshSucceeds, RefreshFails, RefreshCancelled, Finish, TypeOK
<1>2. CASE a = worker[w].auth
  <2>1. worker[w].expiry \in Times /\ record[a] \in Record
    BY DEF TypeOK
  <2>2. ASSUME NEW e, RefreshSucceeds(w, e)
        PROVE  NextCheck(a, record'[a]) # 0
    <3> DEFINE r == [present |-> TRUE, expiry |-> e, age |-> IF AgeMatters(a) THEN 0 ELSE None,
                     hold |-> 0, refused |-> FALSE]
               hold == IF ShouldRefresh(a, r) THEN IneffectiveBackoff ELSE 0
    <3>1. e \in Times
      BY <1>2, <2>1, <2>2, PeriodsAssumption DEF RefreshSucceeds, Times
    <3>2. r \in Record
      BY <3>1, PeriodsType DEF Record, Ages
    <3>3. record'[a] = [r EXCEPT !.hold = hold]
      BY <1>2, <2>2 DEF RefreshSucceeds, Finish, TypeOK
    <3>4. r.hold = 0
      OBVIOUS
    <3> HIDE DEF r
    <3>5. CASE ShouldRefresh(a, r)
      <4>1. /\ [r EXCEPT !.hold = IneffectiveBackoff] \in Record
            /\ [r EXCEPT !.hold = IneffectiveBackoff].hold > 0
        <5>1. IneffectiveBackoff \in Nat /\ IneffectiveBackoff > 0
          BY PeriodsType
        <5>2. [r EXCEPT !.hold = IneffectiveBackoff] \in Record
          BY <3>2, <5>1, RecordUpdates
        <5>3. [r EXCEPT !.hold = IneffectiveBackoff].hold = IneffectiveBackoff
          BY <3>2, <5>1, HoldField
        <5> QED
          BY <5>1, <5>2, <5>3
      <4> QED
        BY <3>3, <3>5, <4>1, NotDue
    <3>6. CASE ~ShouldRefresh(a, r)
      <4>1. record'[a] = r
        BY <3>2, <3>3, <3>4, <3>6, HoldField
      <4> QED
        BY <3>2, <3>6, <4>1, NotDue
    <3> QED
      BY <3>5, <3>6
  <2>3. ASSUME NEW unauthorized \in BOOLEAN, RefreshFails(w, unauthorized)
        PROVE  NextCheck(a, record'[a]) # 0
    <3> DEFINE r == [record[a] EXCEPT !.hold = IF unauthorized THEN 0 ELSE FailureBackoff,
                                      !.refused = unauthorized]
    <3>1. record'[a] = r
      BY <1>2, <2>3 DEF RefreshFails, Finish, TypeOK
    <3>2. r \in Record /\ (r.hold > 0 \/ r.refused)
      <4> DEFINE h == IF unauthorized THEN 0 ELSE FailureBackoff
      <4>1. h \in Nat /\ (unauthorized \/ h > 0)
        BY PeriodsType
      <4> HIDE DEF h
      <4>2. r \in Record /\ r.hold = h /\ r.refused = unauthorized
        <5>1. r = [record[a] EXCEPT !.hold = h, !.refused = unauthorized]
          BY DEF h
        <5> HIDE DEF r
        <5> QED
          BY <2>1, <4>1, <5>1 DEF Record
      <4> QED
        BY <4>1, <4>2
    <3> HIDE DEF r
    <3> QED
      BY <3>1, <3>2, NotDue
  <2>4. CASE RefreshCancelled(w)
    BY <1>2, <2>4 DEF RefreshCancelled, Finish, TypeOK
  <2> QED
    BY <2>2, <2>3, <2>4 DEF EndRefresh
<1> QED
  BY <1>1, <1>2

LEMMA InitQuiet == Init => QuietOnceHandled
  BY AuthAssumption DEF Init, QuietOnceHandled, Waiting

(* Steps of the loop, but PopDue and HandleDue. *)
LEMMA LoopQuiet ==
  ASSUME TypeOK, QuietOnceHandled,
         Rebuild \/ WakeUp \/ DrainDirty \/ ResetTimer
         \/ \E a \in Auth : Mark(a) \/ HandleAgain(a) \/ Send(a) \/ ApplyDirty(a)
  PROVE  QuietOnceHandled'
<1> USE DEF QuietOnceHandled, Others
<1>1. CASE Rebuild
  BY <1>1, AuthAssumption DEF Rebuild, Waiting, Unhandled, TypeOK
<1>2. CASE WakeUp
  BY <1>2 DEF WakeUp, Unhandled, TypeOK
<1>3. CASE DrainDirty
  <2>1. loop'.auth \notin loop'.todo
    BY <1>3, AuthAssumption DEF DrainDirty, TypeOK
  <2>2. \A a \in Auth : ~Unhandled(a)
    BY <1>3 DEF DrainDirty, Unhandled
  <2> QED
    BY <1>3, <2>1, <2>2 DEF DrainDirty, TypeOK
<1>4. CASE ResetTimer
  BY <1>4, AuthAssumption DEF ResetTimer, Waiting, Unhandled, TypeOK
<1>5. ASSUME NEW a \in Auth, Mark(a)
      PROVE  QuietOnceHandled'
  <2>1. /\ heap' = heap /\ busy' = busy /\ executors' = executors
        /\ loop'.todo = loop.todo /\ loop'.auth = loop.auth /\ loop.at = "mark" /\ loop.auth = a
        /\ loop'.at \in {"again", "send"}
        /\ \A b \in Auth \ {a} : record'[b] = record[b]
    BY <1>5 DEF Mark, TypeOK
  <2>2. NextCheck(a, record'[a]) # 0
    <3>1. CASE record[a].hold > 0
      <4>1. record'[a] = record[a] /\ record[a] \in Record
        BY <1>5, <3>1 DEF Mark, TypeOK
      <4> QED
        BY <3>1, <4>1, NotDue
    <3>2. CASE ~(record[a].hold > 0)
      <4>1. record'[a] = [record[a] EXCEPT !.hold = PendingBackoff] /\ record[a] \in Record
        BY <1>5, <3>2 DEF Mark, TypeOK
      <4>2. PendingBackoff \in Nat /\ PendingBackoff > 0
        BY PeriodsType
      <4>3. record'[a] \in Record /\ record'[a].hold > 0
        <5>1. record'[a] \in Record
          BY <4>1, <4>2, RecordUpdates
        <5>2. record'[a].hold = PendingBackoff
          BY <4>1, <4>2, HoldField
        <5> QED
          BY <4>2, <5>1, <5>2
      <4> QED
        BY <4>3, NotDue
    <3> QED
      BY <3>1, <3>2
  <2>3. \A b \in Auth \ {a} : Unhandled(b) => Unhandled(b)'
    BY <2>1 DEF Unhandled
  <2> QED
    BY <2>1, <2>2, <2>3 DEF TypeOK
<1>6. ASSUME NEW a \in Auth, HandleAgain(a)
      PROVE  QuietOnceHandled'
  <2>1. /\ record' = record /\ busy' = busy /\ executors' = executors
        /\ loop.at = "again" /\ loop.auth = a
        /\ loop'.todo = loop.todo /\ loop'.auth = NoAuth /\ loop'.at = "due"
        /\ heap' = [heap EXCEPT ![a] = NextCheck(a, record[a])]
    BY <1>6 DEF HandleAgain, Upserted, TypeOK
  <2>2. loop'.auth \notin loop'.todo
    BY <2>1, AuthAssumption DEF TypeOK
  <2>3. ~Unhandled(a)
    BY <2>1 DEF Unhandled
  <2>4. \A b \in Auth : Unhandled(b) => Unhandled(b)'
    BY <2>1 DEF Unhandled
  <2> QED
    BY <2>1, <2>2, <2>3, <2>4 DEF TypeOK
<1>7. ASSUME NEW a \in Auth, Send(a)
      PROVE  QuietOnceHandled'
  <2>1. /\ record' = record /\ busy' = busy /\ executors' = executors /\ heap' = heap
        /\ loop.at = "send" /\ loop'.todo = loop.todo /\ loop'.auth = NoAuth /\ loop'.at = "due"
    BY <1>7 DEF Send, TypeOK
  <2>2. loop'.auth \notin loop'.todo
    BY <2>1, AuthAssumption DEF TypeOK
  <2>3. \A b \in Auth : Unhandled(b) => Unhandled(b)'
    BY <2>1 DEF Unhandled
  <2> QED
    BY <2>1, <2>2, <2>3 DEF TypeOK
<1>8. ASSUME NEW a \in Auth, ApplyDirty(a)
      PROVE  QuietOnceHandled'
  <2>1. /\ record' = record /\ busy' = busy /\ executors' = executors
        /\ loop.at = "dirty" /\ loop'.at = "dirty" /\ loop'.auth = loop.auth
        /\ loop'.todo \subseteq loop.todo
        /\ heap' = [heap EXCEPT ![a] = NextCheck(a, record[a])]
    BY <1>8 DEF ApplyDirty, Upserted, TypeOK
  <2>2. \A b \in Auth : ~Unhandled(b)
    BY <2>1 DEF Unhandled
  <2> QED
    BY <2>1, <2>2 DEF TypeOK
<1> QED
  BY <1>1, <1>2, <1>3, <1>4, <1>5, <1>6, <1>7, <1>8

LEMMA HandleDueQuiet ==
  ASSUME TypeOK, QuietOnceHandled, NEW a \in Auth, HandleDue(a)
  PROVE  QuietOnceHandled'
<1> DEFINE next == NextCheck(a, record[a])
           refresh == next # None /\ ShouldRefresh(a, record[a]) /\ a \in executors
<1>1. /\ record' = record /\ busy' = busy /\ executors' = executors
      /\ loop.at = "due" /\ loop'.todo = loop.todo \ {a}
      /\ loop'.at = (IF refresh THEN "mark" ELSE "due")
      /\ loop'.auth = (IF refresh THEN a ELSE NoAuth)
      /\ heap' = [heap EXCEPT ![a] =
                    IF refresh THEN None
                    ELSE IF next # None /\ ShouldRefresh(a, record[a]) THEN CheckInterval
                    ELSE next]
  BY DEF HandleDue, TypeOK, Others
<1>2. loop'.auth \notin loop'.todo
  BY <1>1, AuthAssumption DEF TypeOK
<1>3. ASSUME NEW b \in busy \cap executors, b # a
      PROVE  heap'[b] # 0 /\ (NextCheck(b, record[b]) # 0 \/ Unhandled(b)')
  BY <1>1, <1>3 DEF QuietOnceHandled, Unhandled, TypeOK
<1>4. ASSUME a \in busy \cap executors
      PROVE  heap'[a] # 0 /\ (NextCheck(a, record[a]) # 0 \/ Unhandled(a)')
  <2>1. CASE refresh
    BY <1>1, <2>1 DEF TypeOK, Unhandled, None
  <2>2. CASE ~refresh
    <3>1. next = None \/ ~ShouldRefresh(a, record[a])
      BY <1>4, <2>2
    <3>2. next # 0
      BY <3>1, NotDue DEF TypeOK, None
    <3>3. heap'[a] = next
      BY <1>1, <2>2, <3>1 DEF TypeOK
    <3> QED
      BY <3>2, <3>3
  <2> QED
    BY <2>1, <2>2
<1> HIDE DEF next, refresh
<1> QED
  BY <1>1, <1>2, <1>3, <1>4 DEF QuietOnceHandled

LEMMA NextQuiet == TypeOK /\ QuietOnceHandled /\ [Next]_vars => QuietOnceHandled'
<1> SUFFICES ASSUME TypeOK, QuietOnceHandled, [Next]_vars PROVE QuietOnceHandled'
  OBVIOUS
<1>1. CASE Loop
  BY <1>1, LoopQuiet, HandleDueQuiet DEF Loop
<1>2. CASE PopDue
  <2>1. /\ record' = record /\ executors' = executors /\ busy' = busy \cup Due
        /\ heap' = [a \in Auth |-> IF a \in Due THEN None ELSE heap[a]]
        /\ loop.at = "select" /\ loop'.at = "due" /\ loop'.todo = Due /\ loop'.auth = loop.auth
    BY <1>2 DEF PopDue, Others, TypeOK
  <2>2. loop'.auth \notin loop'.todo
    BY <2>1, AuthAssumption DEF TypeOK, Due
  <2>3. ASSUME NEW a \in busy' \cap executors'
        PROVE  heap'[a] # 0 /\ (NextCheck(a, record'[a]) # 0 \/ Unhandled(a)')
    <3>1. a \in Auth
      BY <2>1, <2>3 DEF TypeOK, Due
    <3>2. CASE a \in Due
      BY <2>1, <3>1, <3>2 DEF Unhandled, None
    <3>3. CASE a \notin Due
      BY <2>1, <2>3, <3>1, <3>3 DEF QuietOnceHandled, Unhandled
    <3> QED
      BY <3>2, <3>3
  <2> QED
    BY <2>2, <2>3 DEF QuietOnceHandled
<1>3. CASE Tick
  BY <1>3 DEF Tick, QuietOnceHandled
<1>4. ASSUME NEW w \in Worker, Take(w)
      PROVE  QuietOnceHandled'
  BY <1>4 DEF Take, QuietOnceHandled, Unhandled
<1>5. ASSUME NEW w \in Worker, EndRefresh(w)
      PROVE  QuietOnceHandled'
  <2>1. heap' = heap /\ loop' = loop /\ busy' = busy /\ executors' = executors
    BY <1>5 DEF EndRefresh, RefreshSucceeds, RefreshFails, RefreshCancelled, Finish
  <2>2. \A a \in Auth : NextCheck(a, record'[a]) # 0 \/ record'[a] = record[a]
    BY <1>5, EndRefreshQuiet
  <2>3. \A a \in Auth : Unhandled(a)' <=> Unhandled(a)
    BY <2>1 DEF Unhandled
  <2> QED
    BY <2>1, <2>2, <2>3 DEF QuietOnceHandled, TypeOK
<1>6. ASSUME NEW a \in Auth, QueueReschedule(a)
      PROVE  QuietOnceHandled'
  BY <1>6 DEF QueueReschedule, QuietOnceHandled, Unhandled
<1>7. ASSUME NEW a \in Auth, ServiceReads(a)
      PROVE  QuietOnceHandled'
  BY <1>7 DEF ServiceReads, QuietOnceHandled, Unhandled
<1>8. ASSUME NEW a \in Auth, NEW f \in Fresh(a), NEW carried \in BOOLEAN,
             ServiceStores(a, f, carried)
      PROVE  QuietOnceHandled'
  <2>1. /\ heap' = heap /\ loop' = loop /\ busy' = busy \ {a} /\ executors' = executors
        /\ \A b \in Auth \ {a} : record'[b] = record[b]
    BY <1>8 DEF ServiceStores, Stored, TypeOK
  <2> QED
    BY <2>1 DEF QuietOnceHandled, Unhandled, TypeOK
<1>9. ASSUME NEW a \in Auth, RegisterExecutor(a)
      PROVE  QuietOnceHandled'
  BY <1>9 DEF RegisterExecutor, QuietOnceHandled, Unhandled
<1>10. ASSUME NEW a \in Auth, NEW unauthorized \in BOOLEAN, MarkResult(a, unauthorized)
       PROVE  QuietOnceHandled'
  <2>1. /\ heap' = heap /\ loop' = loop /\ busy' = busy \ {a} /\ executors' = executors
        /\ \A b \in Auth \ {a} : record'[b] = record[b]
    BY <1>10 DEF MarkResult, TypeOK
  <2> QED
    BY <2>1 DEF QuietOnceHandled, Unhandled, TypeOK
<1>11. CASE UNCHANGED vars
  BY <1>11 DEF vars, QuietOnceHandled, Unhandled
<1> QED
  BY <1>1, <1>2, <1>3, <1>4, <1>5, <1>6, <1>7, <1>8, <1>9, <1>10, <1>11 DEF Next

(* The loop does not handle a credential that has an executor as due twice *)
(* at one instant, whatever became of its refresh in between.              *)
THEOREM NoTightLoopInvariant == Spec => NoTightLoop
<1>1. TypeOK /\ QuietOnceHandled /\ [Next]_vars => [PopDue => Due \cap busy \cap executors = {}]_vars
  BY DEF QuietOnceHandled, Due
<1> QED
  BY <1>1, InitTypeOK, NextTypeOK, InitQuiet, NextQuiet, PTL DEF Spec, NoTightLoop

-----------------------------------------------------------------------------
(* No wake-up is lost.  A credential the loop is not bound to look at of   *)
(* its own accord is in the heap, early enough; and the heap is never      *)
(* later than the check its record would want if it were not refused, so   *)
(* that a refusal may come and go.                                         *)
Pending(a) == loop.at = "rebuild" \/ loop.auth = a \/ a \in loop.todo
Awaited(a) == Pending(a) \/ a \in owed \cup dirty
Willing(r) == [r EXCEPT !.refused = FALSE]
Early(a) ==
    LET n == NextCheck(a, Willing(record[a]))
    IN  n = None \/ heap[a] <= n + CheckInterval

Watched(a) ==
    /\ NextCheck(a, record[a]) # None =>
          Awaited(a) \/ a \in forgotten \/ heap[a] # None \/ InFlight(a) > 0
    /\ heap[a] # None => Awaited(a) \/ Early(a)

LoopAtRest ==
    /\ loop.at \in {"select", "drain"} => loop.todo = {}
    /\ loop.auth # NoAuth => heap[loop.auth] = None
    /\ dirty # {} => wake \/ loop.at = "drain"

TimerInTime ==
    loop.at = "select" =>
        \A a \in Auth : heap[a] # None => timer # None /\ timer <= heap[a]

LookedAt == LoopAtRest /\ TimerInTime /\ \A a \in Auth : Watched(a)

LEMMA SoonestLeast ==
  ASSUME NEW h \in [Auth -> Times], NEW a \in Auth, h[a] # None
  PROVE  Soonest(h) # None /\ Soonest(h) <= h[a]
<1> DEFINE set == {h[b] : b \in Auth} \ {None}
<1>1. set \in SUBSET Nat /\ h[a] \in set
  BY DEF Times
<1>2. Soonest(h) = Min(set)
  BY <1>1 DEF Soonest
<1> HIDE DEF set
<1>3. PICK x \in set : \A y \in set : x <= y
  <2>1. PICK x \in set : \A y \in set : ~(<<y, x>> \in OpToRel(<, Nat))
    BY <1>1, NatLessThanWellFounded, WFMin
  <2>2. ASSUME NEW y \in set, y < x PROVE FALSE
    <3>1. <<y, x>> \in Nat \X Nat /\ <<y, x>>[1] < <<y, x>>[2]
      BY <1>1, <2>2
    <3> QED
      BY <2>1, <3>1 DEF OpToRel
  <2> QED
    BY <1>1, <2>2
<1>4. Min(set) \in set /\ \A y \in set : Min(set) <= y
  BY <1>3 DEF Min
<1>5. Min(set) \in Nat /\ Min(set) <= h[a]
  BY <1>1, <1>4
<1> QED
  BY <1>2, <1>5 DEF None

LEMMA WillingIs ==
  ASSUME NEW a \in Auth, NEW r \in Record
  PROVE  /\ Willing(r) \in Record
         /\ NextCheck(a, Willing(r)) \in Times
         /\ NextCheck(a, r) # None => NextCheck(a, Willing(r)) = NextCheck(a, r)
<1>1. Willing(r) \in Record
  BY RecordUpdates DEF Willing
<1>2. NextCheck(a, r) # None => ~r.refused
  BY DEF NextCheck
<1>3. ~r.refused => Willing(r) = r
  BY DEF Willing, Record
<1> QED
  BY <1>1, <1>2, <1>3, NextCheckType

(* A moment later, the check a record wants has come closer by no more     *)
(* than that moment.                                                       *)
Later(r) == [r EXCEPT !.expiry = Sooner(@), !.age = Older(@), !.hold = Sooner(@)]

LEMMA LaterIs ==
  ASSUME NEW r \in Record
  PROVE  /\ Later(r) \in Record
         /\ Later(r).present = r.present /\ Later(r).refused = r.refused
         /\ Later(r).expiry = Sooner(r.expiry) /\ Later(r).age = Older(r.age)
         /\ Later(r).hold = Sooner(r.hold)
         /\ Willing(Later(r)) = Later(Willing(r))
<1>1. Sooner(r.expiry) \in Times /\ Older(r.age) \in Ages /\ Sooner(r.hold) \in Nat
  BY SoonerType, OlderType DEF Record, Sooner
<1>2. Later(r) = [r EXCEPT !.expiry = Sooner(r.expiry), !.age = Older(r.age),
                           !.hold = Sooner(r.hold)]
  BY DEF Later, Record
<1>3. Later(r) \in Record
  <2>1. \A e \in Times, g \in Ages, h \in Nat :
          [r EXCEPT !.expiry = e, !.age = g, !.hold = h] \in Record
    BY RecordUpdates
  <2> QED
    BY <1>1, <1>2, <2>1, Zenon
<1>4. Willing(Later(r)) = Later(Willing(r))
  BY DEF Willing, Later, Record
<1> QED
  BY <1>2, <1>3, <1>4 DEF Record

LEMMA OlderIs ==
  ASSUME NEW t \in Ages
  PROVE  /\ t = None => Older(t) = None
         /\ t # None => Older(t) # None /\ Older(t) \in Nat /\ Older(t) <= t + 1
<1>1. CASE t = None
  BY <1>1 DEF Older
<1>2. CASE t # None
  <2>1. t \in Nat /\ MaxAge \in Nat
    BY <1>2, PeriodsType DEF Ages
  <2>2. {t + 1, MaxAge} = {t + 1} \cup {MaxAge}
    OBVIOUS
  <2>3. Min({t + 1, MaxAge}) = IF t + 1 <= MaxAge THEN t + 1 ELSE MaxAge
    BY <2>1, <2>2, MinOfTwo
  <2> QED
    BY <1>2, <2>1, <2>3 DEF Older, None
<1> QED
  BY <1>1, <1>2

LEMMA CheckComesCloser ==
  ASSUME NEW a \in Auth, NEW r \in Record, NextCheck(a, Later(r)) # None
  PROVE  /\ NextCheck(a, r) \in Nat
         /\ NextCheck(a, Later(r)) \in Nat
         /\ NextCheck(a, r) <= NextCheck(a, Later(r)) + 1
<1> DEFINE s == Later(r)
           p == Preferred[a]
           n(x) == NextCheck(a, x)
<1>1. /\ s \in Record
      /\ s.present = r.present /\ s.refused = r.refused
      /\ s.expiry = Sooner(r.expiry) /\ s.age = Older(r.age) /\ s.hold = Sooner(r.hold)
  BY LaterIs
<1>2. n(s) \in Nat
  BY <1>1, NextCheckType DEF Times
<1>3. r.hold \in Nat /\ r.expiry \in Times /\ r.age \in Ages
  BY DEF Record
<1>4. p \in Nat /\ Lead[a] \in Nat
  BY PeriodsType
<1> HIDE DEF s
<1>5. r.present /\ ~r.refused /\ a \notin ApiKey
  BY <1>1 DEF NextCheck, s
<1>6. CASE r.hold > 0
  <2>1. n(r) = r.hold
    BY <1>5, <1>6 DEF NextCheck
  <2>2. s.hold = r.hold - 1
    BY <1>1, <1>6 DEF Sooner
  <2>3. s.hold > 0 => n(s) = s.hold
    BY <1>1, <1>5 DEF NextCheck
  <2> QED
    BY <1>2, <1>3, <2>1, <2>2, <2>3 DEF s
<1>7. CASE r.hold = 0
  <2>1. s.hold = 0
    BY <1>1, <1>7 DEF Sooner
  <2>2. /\ r.expiry = None => s.expiry = None
        /\ r.expiry # None => /\ r.expiry \in Nat /\ s.expiry \in Nat
                              /\ s.expiry <= r.expiry /\ r.expiry <= s.expiry + 1
                              /\ s.expiry # None
    BY <1>1, <1>3 DEF Sooner, Times, None
  <2>3. /\ r.age = None => s.age = None
        /\ r.age # None => /\ s.age # None /\ r.age \in Nat /\ s.age \in Nat
                           /\ s.age <= r.age + 1
    BY <1>1, <1>3, OlderIs DEF Ages
  <2>4. \A x \in Int, y \in Int : x <= y + 1 => NotBeforeNow(x) \in Nat /\ NotBeforeNow(x) <= NotBeforeNow(y) + 1
    BY DEF NotBeforeNow
  <2>5. CASE p > 0
    <3>1. CASE r.age = None
      BY <1>2, <1>5, <1>7, <2>5, <3>1 DEF NextCheck, s
    <3>2. CASE r.age # None
      <4> DEFINE x == Min({p - r.age} \cup IF r.expiry = None THEN {} ELSE {r.expiry - p})
                 y == Min({p - s.age} \cup IF s.expiry = None THEN {} ELSE {s.expiry - p})
      <4>1. n(r) = NotBeforeNow(x)
        BY <1>5, <1>7, <2>5, <3>2 DEF NextCheck
      <4>2. n(s) = NotBeforeNow(y)
        BY <1>1, <1>5, <2>1, <2>3, <2>5, <3>2 DEF NextCheck
      <4>3. x \in Int /\ y \in Int /\ x <= y + 1
        <5>1. CASE r.expiry = None
          <6>1. x = p - r.age /\ y = p - s.age
            BY <1>4, <2>2, <2>3, <3>2, <5>1, MinOfOne
          <6> QED
            BY <1>4, <2>3, <3>2, <6>1
        <5>2. CASE r.expiry # None
          <6>1. x = IF p - r.age <= r.expiry - p THEN p - r.age ELSE r.expiry - p
            BY <1>4, <2>2, <2>3, <3>2, <5>2, MinOfTwo
          <6>2. y = IF p - s.age <= s.expiry - p THEN p - s.age ELSE s.expiry - p
            BY <1>4, <2>2, <2>3, <3>2, <5>2, MinOfTwo
          <6> HIDE DEF x, y
          <6> QED
            BY <1>4, <2>2, <2>3, <3>2, <5>2, <6>1, <6>2
        <5> QED
          BY <5>1, <5>2
      <4> HIDE DEF x, y
      <4> QED
        BY <1>2, <2>4, <4>1, <4>2, <4>3 DEF s
    <3> QED
      BY <3>1, <3>2
  <2>6. CASE p = 0
    <3>1. Lead[a] > 0
      BY <1>1, <1>4, <1>5, <2>1, <2>6 DEF NextCheck, s
    <3>2. CASE r.expiry # None
      <4>1. n(r) = NotBeforeNow(r.expiry - Lead[a]) /\ n(s) = NotBeforeNow(s.expiry - Lead[a])
        BY <1>1, <1>5, <1>7, <2>1, <2>2, <2>6, <3>1, <3>2 DEF NextCheck
      <4> QED
        BY <1>2, <1>4, <2>2, <2>4, <3>2, <4>1 DEF s
    <3>3. CASE r.expiry = None /\ r.age # None
      <4>1. n(r) = NotBeforeNow(Lead[a] - r.age) /\ n(s) = NotBeforeNow(Lead[a] - s.age)
        BY <1>1, <1>5, <1>7, <2>1, <2>2, <2>3, <2>6, <3>1, <3>3 DEF NextCheck
      <4> QED
        BY <1>2, <1>4, <2>3, <2>4, <3>3, <4>1 DEF s
    <3>4. CASE r.expiry = None /\ r.age = None
      <4>1. n(r) = 0
        BY <1>5, <1>7, <2>6, <3>1, <3>4 DEF NextCheck
      <4> QED
        BY <1>2, <4>1 DEF s
    <3> QED
      BY <3>2, <3>3, <3>4
  <2> QED
    BY <1>4, <2>5, <2>6
<1> QED
  BY <1>3, <1>6, <1>7

LEMMA WatchedByCheck ==
  ASSUME NEW a \in Auth, record'[a] \in Record, heap'[a] = NextCheck(a, record'[a])
  PROVE  Watched(a)'
<1> DEFINE r == record'[a]
           n == NextCheck(a, Willing(r))
<1>1. heap'[a] # None => heap'[a] \in Nat /\ n = heap'[a]
  BY WillingIs, NextCheckType DEF Times
<1>2. heap'[a] # None => n = None \/ heap'[a] <= n + CheckInterval
  BY <1>1, PeriodsType
<1>3. NextCheck(a, r) # None => heap'[a] # None
  OBVIOUS
<1> QED
  BY <1>2, <1>3 DEF Watched, Early

LEMMA WatchedAwaited ==
  ASSUME NEW a \in Auth, Awaited(a)'
  PROVE  Watched(a)'
  BY DEF Watched

(* A step that leaves the record and the heap as they are. *)
LEMMA WatchedStays ==
  ASSUME NEW a \in Auth, Watched(a), record'[a] = record[a], heap'[a] = heap[a],
         Awaited(a) => Awaited(a)',
         a \in forgotten => a \in forgotten' \/ Awaited(a)',
         InFlight(a) > 0 => InFlight(a)' > 0 \/ Awaited(a)'
  PROVE  Watched(a)'
<1>1. Early(a)' <=> Early(a)
  BY DEF Early
<1> QED
  BY <1>1 DEF Watched

LEMMA InitLookedAt == Init => LookedAt
  BY DEF Init, LookedAt, LoopAtRest, TimerInTime, Watched, Awaited, Pending, Waiting

(* Steps of the loop. *)
LEMMA LoopLookedAt ==
  ASSUME TypeOK, LookedAt, Loop
  PROVE  LookedAt'
<1>1. ASSUME Rebuild
      PROVE  LookedAt'
  <2>1. /\ record' = record /\ dirty' = dirty /\ wake' = wake /\ loop.at = "rebuild"
        /\ heap' = [b \in Auth |-> NextCheck(b, record[b])]
        /\ timer' = Soonest(heap') /\ loop' = Waiting
    BY <1>1 DEF Rebuild
  <2>2. heap' \in [Auth -> Times]
    BY <2>1, NextCheckType DEF TypeOK
  <2>3. \A b \in Auth : Watched(b)'
    BY <2>1, WatchedByCheck DEF TypeOK
  <2>4. LoopAtRest'
    BY <2>1 DEF LookedAt, LoopAtRest, Waiting
  <2>5. TimerInTime'
    BY <2>1, <2>2, SoonestLeast DEF TimerInTime
  <2> QED
    BY <2>3, <2>4, <2>5 DEF LookedAt
<1>2. ASSUME WakeUp
      PROVE  LookedAt'
  <2>1. /\ record' = record /\ heap' = heap /\ dirty' = dirty /\ forgotten' = forgotten
        /\ owed' = owed /\ jobs' = jobs /\ worker' = worker
        /\ loop.at = "select" /\ loop' = [loop EXCEPT !.at = "drain"]
        /\ loop'.at = "drain" /\ loop'.todo = loop.todo /\ loop'.auth = loop.auth
    BY <1>2 DEF WakeUp, Others, TypeOK
  <2>2. \A b \in Auth : InFlight(b)' = InFlight(b)
    BY <2>1, SameInFlight DEF Sending
  <2>3. \A b \in Auth : Awaited(b) => Awaited(b)'
    BY <2>1 DEF Awaited, Pending
  <2>4. \A b \in Auth : Watched(b)'
    BY <2>1, <2>2, <2>3, WatchedStays DEF LookedAt
  <2> QED
    BY <2>1, <2>4 DEF LookedAt, LoopAtRest, TimerInTime
<1>3. ASSUME DrainDirty
      PROVE  LookedAt'
  <2>1. /\ record' = record /\ heap' = heap /\ dirty' = {} /\ forgotten' = forgotten
        /\ owed' = owed /\ jobs' = jobs /\ worker' = worker
        /\ loop' = [loop EXCEPT !.at = "dirty", !.todo = dirty]
        /\ loop'.at = "dirty" /\ loop'.todo = dirty /\ loop'.auth = loop.auth
        /\ loop.at \in {"drain", "due"} /\ loop.todo = {}
    BY <1>3 DEF DrainDirty, Others, TypeOK, LookedAt, LoopAtRest
  <2>2. \A b \in Auth : InFlight(b)' = InFlight(b)
    BY <2>1, SameInFlight DEF Sending
  <2>3. \A b \in Auth : Awaited(b) => Awaited(b)'
    BY <2>1 DEF Awaited, Pending
  <2>4. \A b \in Auth : Watched(b)'
    BY <2>1, <2>2, <2>3, WatchedStays DEF LookedAt
  <2> QED
    BY <2>1, <2>4 DEF LookedAt, LoopAtRest, TimerInTime
<1>4. ASSUME ResetTimer
      PROVE  LookedAt'
  <2>1. /\ record' = record /\ heap' = heap /\ dirty' = dirty /\ forgotten' = forgotten
        /\ owed' = owed /\ jobs' = jobs /\ worker' = worker /\ wake' = wake
        /\ loop' = Waiting /\ timer' = Soonest(heap)
        /\ loop.at = "dirty" /\ loop.todo = {} /\ loop.auth = NoAuth
    BY <1>4 DEF ResetTimer, Others, TypeOK
  <2>2. \A b \in Auth : InFlight(b)' = InFlight(b)
    BY <2>1, SameInFlight, AuthAssumption DEF Sending, Waiting
  <2>3. \A b \in Auth : Awaited(b) => Awaited(b)'
    BY <2>1, AuthAssumption DEF Awaited, Pending
  <2>4. \A b \in Auth : Watched(b)'
    BY <2>1, <2>2, <2>3, WatchedStays DEF LookedAt
  <2>5. TimerInTime'
    BY <2>1, SoonestLeast DEF TimerInTime, TypeOK
  <2>6. LoopAtRest'
    BY <2>1 DEF LookedAt, LoopAtRest, Waiting
  <2> QED
    BY <2>4, <2>5, <2>6 DEF LookedAt
<1>5. ASSUME NEW a \in Auth, HandleDue(a)
      PROVE  LookedAt'
  <2> DEFINE next == NextCheck(a, record[a])
             refresh == next # None /\ ShouldRefresh(a, record[a]) /\ a \in executors
  <2>1. /\ record' = record /\ dirty' = dirty /\ forgotten' = forgotten /\ wake' = wake
        /\ owed' = owed /\ jobs' = jobs /\ worker' = worker
        /\ loop.at = "due" /\ loop.auth = NoAuth /\ loop'.todo = loop.todo \ {a}
        /\ loop'.at = (IF refresh THEN "mark" ELSE "due")
        /\ loop'.auth = (IF refresh THEN a ELSE NoAuth)
        /\ heap' = [heap EXCEPT ![a] =
                      IF refresh THEN None
                      ELSE IF next # None /\ ShouldRefresh(a, record[a]) THEN CheckInterval
                      ELSE next]
    BY <1>5 DEF HandleDue, TypeOK, Others
  <2>2. ASSUME NEW b \in Auth \ {a} PROVE Watched(b)'
    <3>1. InFlight(b)' = InFlight(b)
      BY <2>1, SameInFlight DEF Sending
    <3>2. Awaited(b) => Awaited(b)'
      BY <2>1, AuthAssumption DEF Awaited, Pending
    <3>3. heap'[b] = heap[b]
      BY <2>1 DEF TypeOK
    <3> QED
      BY <2>1, <3>1, <3>2, <3>3, WatchedStays DEF LookedAt
  <2>3. Watched(a)'
    <3>1. CASE refresh
      BY <2>1, <3>1, WatchedAwaited DEF Awaited, Pending
    <3>2. CASE ~refresh /\ next # None /\ ShouldRefresh(a, record[a])
      <4>1. heap'[a] = CheckInterval
        BY <2>1, <3>2 DEF TypeOK
      <4>2. a \notin ApiKey /\ record[a] \in Record
        BY <3>2 DEF NextCheck, TypeOK
      <4>3. next = 0
        BY <3>2, <4>2, ChecksAgree
      <4>4. NextCheck(a, Willing(record[a])) = 0
        BY <3>2, <4>2, <4>3, WillingIs
      <4>5. Early(a)' /\ heap'[a] # None
        BY <2>1, <4>1, <4>4, PeriodsType DEF Early, None
      <4> QED
        BY <4>5 DEF Watched
    <3>3. CASE ~refresh /\ ~(next # None /\ ShouldRefresh(a, record[a]))
      <4>1. heap'[a] = NextCheck(a, record'[a]) /\ record'[a] \in Record
        BY <2>1, <3>3 DEF TypeOK
      <4> QED
        BY <4>1, WatchedByCheck
    <3> QED
      BY <3>1, <3>2, <3>3
  <2>4. LoopAtRest'
    <3>1. loop'.auth # NoAuth => heap'[loop'.auth] = None
      BY <2>1 DEF TypeOK
    <3> QED
      BY <2>1, <3>1 DEF LookedAt, LoopAtRest
  <2>5. TimerInTime'
    BY <2>1 DEF TimerInTime
  <2> QED
    BY <2>2, <2>3, <2>4, <2>5 DEF LookedAt
<1>6. ASSUME NEW a \in Auth, Mark(a)
      PROVE  LookedAt'
  <2>1. /\ heap' = heap /\ forgotten' = forgotten
        /\ owed' = owed /\ jobs' = jobs /\ worker' = worker
        /\ loop.at = "mark" /\ loop.auth = a /\ loop'.auth = a /\ loop'.todo = loop.todo
        /\ loop'.at \in {"again", "send"}
        /\ dirty \subseteq dirty'
        /\ (dirty' = dirty /\ wake' = wake) \/ wake'
        /\ \A b \in Auth \ {a} : record'[b] = record[b]
    BY <1>6 DEF Mark, TypeOK, Others
  <2>2. ASSUME NEW b \in Auth \ {a} PROVE Watched(b)'
    <3>1. InFlight(b)' = InFlight(b)
      BY <2>1, SameInFlight DEF Sending
    <3>2. Awaited(b) => Awaited(b)'
      BY <2>1 DEF Awaited, Pending
    <3> QED
      BY <2>1, <3>1, <3>2, WatchedStays DEF LookedAt
  <2>3. Watched(a)'
    BY <2>1, WatchedAwaited DEF Awaited, Pending
  <2>4. LoopAtRest' /\ TimerInTime'
    BY <2>1 DEF LookedAt, LoopAtRest, TimerInTime
  <2> QED
    BY <2>2, <2>3, <2>4 DEF LookedAt
<1>7. ASSUME NEW a \in Auth, HandleAgain(a)
      PROVE  LookedAt'
  <2>1. /\ record' = record /\ dirty' = dirty /\ forgotten' = forgotten /\ wake' = wake
        /\ owed' = owed /\ jobs' = jobs /\ worker' = worker
        /\ loop.at = "again" /\ loop.auth = a /\ loop'.auth = NoAuth /\ loop'.todo = loop.todo
        /\ loop'.at = "due"
        /\ heap' = [heap EXCEPT ![a] = NextCheck(a, record[a])]
    BY <1>7 DEF HandleAgain, Upserted, TypeOK, Others
  <2>2. ASSUME NEW b \in Auth \ {a} PROVE Watched(b)'
    <3>1. InFlight(b)' = InFlight(b)
      BY <2>1, SameInFlight DEF Sending
    <3>2. Awaited(b) => Awaited(b)'
      BY <2>1 DEF Awaited, Pending
    <3>3. heap'[b] = heap[b]
      BY <2>1 DEF TypeOK
    <3> QED
      BY <2>1, <3>1, <3>2, <3>3, WatchedStays DEF LookedAt
  <2>3. Watched(a)'
    <3>1. heap'[a] = NextCheck(a, record'[a]) /\ record'[a] \in Record
      BY <2>1 DEF TypeOK
    <3> QED
      BY <3>1, WatchedByCheck
  <2>4. LoopAtRest' /\ TimerInTime'
    BY <2>1 DEF LookedAt, LoopAtRest, TimerInTime
  <2> QED
    BY <2>2, <2>3, <2>4 DEF LookedAt
<1>8. ASSUME NEW a \in Auth, Send(a)
      PROVE  LookedAt'
  <2>1. /\ record' = record /\ heap' = heap /\ dirty' = dirty /\ forgotten' = forgotten
        /\ owed' = owed /\ worker' = worker /\ wake' = wake
        /\ loop.at = "send" /\ loop.auth = a /\ loop'.auth = NoAuth /\ loop'.todo = loop.todo
        /\ loop'.at = "due"
    BY <1>8 DEF Send, TypeOK, Others
  <2>2. \A b \in Auth : InFlight(b)' = InFlight(b)
    BY <1>8, SendInFlight
  <2>3. ASSUME NEW b \in Auth \ {a} PROVE Watched(b)'
    <3>1. Awaited(b) => Awaited(b)'
      BY <2>1 DEF Awaited, Pending
    <3> QED
      BY <2>1, <2>2, <3>1, WatchedStays DEF LookedAt
  <2>4. Watched(a)'
    <3>1. InFlight(a) > 0
      <4>1. Sending(loop, a) = 1
        BY <2>1 DEF Sending
      <4>2. Cardinality(JobsOf(jobs, a)) \in Nat /\ Cardinality(HeldBy(worker, a)) \in Nat
        BY JobsFinite, HeldFinite DEF TypeOK
      <4> QED
        BY <4>1, <4>2, InFlightIs
    <3>2. heap'[a] = None
      BY <2>1, AuthAssumption DEF LookedAt, LoopAtRest
    <3> QED
      BY <2>2, <3>1, <3>2 DEF Watched
  <2>5. LoopAtRest' /\ TimerInTime'
    BY <2>1 DEF LookedAt, LoopAtRest, TimerInTime
  <2> QED
    BY <2>3, <2>4, <2>5 DEF LookedAt
<1>9. ASSUME NEW a \in Auth, ApplyDirty(a)
      PROVE  LookedAt'
  <2>1. /\ record' = record /\ dirty' = dirty /\ forgotten' = forgotten /\ wake' = wake
        /\ owed' = owed /\ jobs' = jobs /\ worker' = worker
        /\ loop.at = "dirty" /\ loop.auth = NoAuth /\ loop'.auth = NoAuth
        /\ loop'.todo = loop.todo \ {a} /\ loop'.at = "dirty"
        /\ heap' = [heap EXCEPT ![a] = NextCheck(a, record[a])]
    BY <1>9 DEF ApplyDirty, Upserted, TypeOK, Others
  <2>2. ASSUME NEW b \in Auth \ {a} PROVE Watched(b)'
    <3>1. InFlight(b)' = InFlight(b)
      BY <2>1, SameInFlight DEF Sending
    <3>2. Awaited(b) => Awaited(b)'
      BY <2>1 DEF Awaited, Pending
    <3>3. heap'[b] = heap[b]
      BY <2>1 DEF TypeOK
    <3> QED
      BY <2>1, <3>1, <3>2, <3>3, WatchedStays DEF LookedAt
  <2>3. Watched(a)'
    <3>1. heap'[a] = NextCheck(a, record'[a]) /\ record'[a] \in Record
      BY <2>1 DEF TypeOK
    <3> QED
      BY <3>1, WatchedByCheck
  <2>4. LoopAtRest' /\ TimerInTime'
    BY <2>1 DEF LookedAt, LoopAtRest, TimerInTime
  <2> QED
    BY <2>2, <2>3, <2>4 DEF LookedAt
<1> QED
  BY <1>1, <1>2, <1>3, <1>4, <1>5, <1>6, <1>7, <1>8, <1>9 DEF Loop

(* Steps that leave the loop and its heap alone. *)
LEMMA LoopAlone ==
  ASSUME LookedAt, loop' = loop, heap' = heap, timer' = timer,
         \/ dirty' = dirty /\ wake' = wake
         \/ wake',
         \A b \in Auth : Watched(b)'
  PROVE  LookedAt'
  BY DEF LookedAt, LoopAtRest, TimerInTime

LEMMA TickLookedAt ==
  ASSUME TypeOK, LookedAt, Tick
  PROVE  LookedAt'
<1>1. /\ jobs' = jobs /\ loop' = loop /\ dirty' = dirty /\ wake' = wake /\ owed' = owed
      /\ forgotten' = forgotten /\ timer' = Sooner(timer)
      /\ \A v \in Worker : worker'[v].auth = worker[v].auth
      /\ \A b \in Auth : heap'[b] = Sooner(heap[b]) /\ record'[b] = Later(record[b])
  BY DEF Tick, TypeOK, Later
<1>2. \A b \in Auth : InFlight(b)' = InFlight(b)
  BY <1>1, SameInFlight
<1>3. \A x \in Times : Sooner(x) \in Times /\ (Sooner(x) = None <=> x = None)
  BY DEF Sooner, Times, None
<1>4. \A b \in Auth : heap[b] \in Times /\ record[b] \in Record
  BY DEF TypeOK
<1>5. ASSUME NEW b \in Auth PROVE Watched(b)'
  <2>1. Awaited(b)' <=> Awaited(b)
    BY <1>1 DEF Awaited, Pending
  <2>2. NextCheck(b, record'[b]) # None => NextCheck(b, record[b]) # None
    BY <1>1, <1>4, CheckComesCloser DEF None
  <2>3. ASSUME heap'[b] # None, Early(b) PROVE Early(b)'
    <3> DEFINE r == Willing(record[b])
               n == NextCheck(b, r)
               later == NextCheck(b, Later(r))
    <3>1. Willing(record'[b]) = Later(r) /\ r \in Record
      BY <1>1, <1>4, LaterIs, WillingIs
    <3>2. heap[b] \in Nat /\ heap'[b] = Sooner(heap[b])
      BY <1>1, <1>3, <1>4, <2>3 DEF Times
    <3>3. CASE later = None
      BY <3>1, <3>3 DEF Early
    <3>4. CASE later # None
      <4>1. n \in Nat /\ later \in Nat /\ n <= later + 1
        BY <3>1, <3>4, CheckComesCloser
      <4>2. heap[b] <= n + CheckInterval
        BY <2>3, <4>1 DEF Early, None
      <4>3. heap'[b] <= later + CheckInterval
        <5> HIDE DEF n, later
        <5> QED
          BY <3>2, <4>1, <4>2, PeriodsType DEF Sooner
      <4> QED
        BY <3>1, <4>3 DEF Early
    <3> QED
      BY <3>3, <3>4
  <2> QED
    BY <1>1, <1>2, <1>3, <1>4, <2>1, <2>2, <2>3 DEF LookedAt, Watched
<1>6. TimerInTime'
  <2>1. \A x, y \in Times : x # None /\ y # None /\ x <= y => Sooner(x) <= Sooner(y)
    BY DEF Sooner, Times
  <2>2. timer \in Times
    BY DEF TypeOK
  <2> QED
    BY <1>1, <1>3, <1>4, <2>1, <2>2 DEF LookedAt, TimerInTime
<1>7. LoopAtRest'
  BY <1>1, <1>3, <1>4, AuthAssumption DEF LookedAt, LoopAtRest, TypeOK
<1> QED
  BY <1>5, <1>6, <1>7 DEF LookedAt

LEMMA MarkResultLookedAt ==
  ASSUME TypeOK, LookedAt, NEW a \in Auth, NEW unauthorized \in BOOLEAN,
         MarkResult(a, unauthorized)
  PROVE  LookedAt'
<1>1. /\ loop' = loop /\ heap' = heap /\ timer' = timer /\ dirty' = dirty /\ wake' = wake
      /\ jobs' = jobs /\ worker' = worker /\ owed' = owed
      /\ record'[a] = [record[a] EXCEPT !.refused = unauthorized]
      /\ \A b \in Auth \ {a} : record'[b] = record[b] /\ (b \in forgotten => b \in forgotten')
  BY DEF MarkResult, TypeOK
<1>2. \A b \in Auth : InFlight(b)' = InFlight(b)
  BY <1>1, SameInFlight
<1>3. \A b \in Auth : Awaited(b)' <=> Awaited(b)
  BY <1>1 DEF Awaited, Pending
<1>4. \A b \in Auth \ {a} : Watched(b)'
  BY <1>1, <1>2, <1>3, WatchedStays DEF LookedAt
<1>5. Willing(record'[a]) = Willing(record[a])
  BY <1>1 DEF Willing, TypeOK, Record
<1>6. heap'[a] # None => Awaited(a)' \/ Early(a)'
  BY <1>1, <1>3, <1>5 DEF LookedAt, Watched, Early
<1>7. ASSUME NextCheck(a, record'[a]) # None
      PROVE  Awaited(a)' \/ a \in forgotten' \/ heap'[a] # None \/ InFlight(a)' > 0
  <2>1. ~unauthorized
    BY <1>1, <1>7 DEF NextCheck, TypeOK, Record
  <2>2. CASE Tracked(a)
    BY <1>1, <1>2, <1>3, <2>2 DEF Tracked, Awaited, Pending
  <2>3. CASE ~Tracked(a)
    BY <1>7, <2>1, <2>3 DEF MarkResult
  <2> QED
    BY <2>2, <2>3
<1>8. Watched(a)'
  BY <1>6, <1>7 DEF Watched
<1> QED
  BY <1>1, <1>4, <1>8, LoopAlone

LEMMA NextLookedAt == TypeOK /\ LookedAt /\ [Next]_vars => LookedAt'
<1> SUFFICES ASSUME TypeOK, LookedAt, [Next]_vars PROVE LookedAt'
  OBVIOUS
<1>1. CASE Loop
  BY <1>1, LoopLookedAt
<1>2. CASE PopDue
  <2>1. /\ record' = record /\ dirty' = dirty /\ wake' = wake /\ owed' = owed
        /\ forgotten' = forgotten /\ jobs' = jobs /\ worker' = worker
        /\ loop.at = "select" /\ loop'.at = "due" /\ loop'.todo = Due
        /\ loop'.auth = NoAuth /\ loop.auth = NoAuth
        /\ heap' = [b \in Auth |-> IF b \in Due THEN None ELSE heap[b]]
    BY <1>2 DEF PopDue, Others, TypeOK
  <2>2. \A b \in Auth : InFlight(b)' = InFlight(b)
    BY <2>1, SameInFlight DEF Sending
  <2>3. loop.todo = {}
    BY <2>1 DEF LookedAt, LoopAtRest
  <2>4. ASSUME NEW b \in Auth PROVE Watched(b)'
    <3>1. CASE b \in Due
      BY <2>1, <3>1, WatchedAwaited DEF Awaited, Pending
    <3>2. CASE b \notin Due
      <4>1. heap'[b] = heap[b]
        BY <2>1, <3>2
      <4>2. Awaited(b) => Awaited(b)'
        BY <2>1, <2>3, AuthAssumption DEF Awaited, Pending
      <4> QED
        BY <2>1, <2>2, <4>1, <4>2, WatchedStays DEF LookedAt
    <3> QED
      BY <3>1, <3>2
  <2>5. LoopAtRest' /\ TimerInTime'
    BY <2>1 DEF LookedAt, LoopAtRest, TimerInTime
  <2> QED
    BY <2>4, <2>5 DEF LookedAt
<1>3. CASE Tick
  BY <1>3, TickLookedAt
<1>4. ASSUME NEW w \in Worker, Take(w)
      PROVE  LookedAt'
  <2>1. /\ record' = record /\ heap' = heap /\ dirty' = dirty /\ wake' = wake
        /\ timer' = timer /\ loop' = loop /\ owed' = owed /\ forgotten' = forgotten
    BY <1>4 DEF Take
  <2>2. \A b \in Auth : InFlight(b)' = InFlight(b)
    BY <1>4, TakeInFlight
  <2>3. \A b \in Auth : Awaited(b) => Awaited(b)'
    BY <2>1 DEF Awaited, Pending
  <2>4. \A b \in Auth : Watched(b)'
    BY <2>1, <2>2, <2>3, WatchedStays DEF LookedAt
  <2> QED
    BY <2>1, <2>4, LoopAlone
<1>5. ASSUME NEW w \in Worker, EndRefresh(w)
      PROVE  LookedAt'
  <2>1. PICK r \in Record : Finish(w, r)
    BY <1>5, EndRefreshRecord
  <2>2. PICK a \in Auth : a = worker[w].auth /\ a # NoAuth
    BY <1>5 DEF EndRefresh, RefreshSucceeds, RefreshFails, RefreshCancelled, TypeOK
  <2>3. /\ record' = [record EXCEPT ![a] = r] /\ owed' = owed \cup {a}
        /\ heap' = heap /\ dirty' = dirty /\ wake' = wake
        /\ timer' = timer /\ loop' = loop /\ forgotten' = forgotten
    BY <2>1, <2>2 DEF Finish
  <2>4. ASSUME NEW b \in Auth \ {a} PROVE Watched(b)'
    <3>1. InFlight(b) = InFlight(b)' + 0
      BY <2>1, <2>2, FinishInFlight
    <3>2. InFlight(b) > 0 => InFlight(b)' > 0
      <4>1. jobs' \in Seq(Auth) /\ InFlight(b)' \in Int
        <5>1. jobs' \in Seq(Auth)
          BY <2>1 DEF Finish, TypeOK
        <5>2. InFlight(b)' = Cardinality(JobsOf(jobs', b)) + Cardinality(HeldBy(worker', b)) + Sending(loop', b)
          BY DEF InFlight, JobsOf, HeldBy, Sending
        <5> QED
          BY <5>1, <5>2, JobsFinite, HeldFinite DEF Sending
      <4> QED
        BY <3>1, <4>1
    <3>3. Awaited(b) => Awaited(b)'
      BY <2>3 DEF Awaited, Pending
    <3>4. record'[b] = record[b]
      BY <2>3 DEF TypeOK
    <3> QED
      BY <2>3, <3>2, <3>3, <3>4, WatchedStays DEF LookedAt
  <2>5. Watched(a)'
    BY <2>3, WatchedAwaited DEF Awaited
  <2> QED
    BY <2>3, <2>4, <2>5, LoopAlone
<1>6. ASSUME NEW a \in Auth, QueueReschedule(a)
      PROVE  LookedAt'
  <2>1. /\ record' = record /\ heap' = heap /\ dirty' = dirty \cup {a} /\ wake' = TRUE
        /\ timer' = timer /\ loop' = loop /\ owed' = owed \ {a}
        /\ forgotten' = forgotten \ {a} /\ jobs' = jobs /\ worker' = worker
    BY <1>6 DEF QueueReschedule
  <2>2. \A b \in Auth : InFlight(b)' = InFlight(b)
    BY <2>1, SameInFlight
  <2>3. \A b \in Auth : Awaited(b) => Awaited(b)'
    BY <2>1 DEF Awaited, Pending
  <2>4. \A b \in Auth : b \in forgotten => b \in forgotten' \/ Awaited(b)'
    BY <2>1 DEF Awaited
  <2>5. \A b \in Auth : Watched(b)'
    BY <2>1, <2>2, <2>3, <2>4, WatchedStays DEF LookedAt
  <2> QED
    BY <2>1, <2>5, LoopAlone
<1>7. ASSUME NEW a \in Auth, ServiceReads(a) \/ RegisterExecutor(a)
      PROVE  LookedAt'
  <2>1. /\ record' = record /\ heap' = heap /\ dirty' = dirty /\ wake' = wake
        /\ timer' = timer /\ loop' = loop /\ owed' = owed /\ forgotten' = forgotten
        /\ jobs' = jobs /\ worker' = worker
    BY <1>7 DEF ServiceReads, RegisterExecutor
  <2>2. \A b \in Auth : InFlight(b)' = InFlight(b)
    BY <2>1, SameInFlight
  <2>3. \A b \in Auth : Awaited(b) => Awaited(b)'
    BY <2>1 DEF Awaited, Pending
  <2>4. \A b \in Auth : Watched(b)'
    BY <2>1, <2>2, <2>3, WatchedStays DEF LookedAt
  <2> QED
    BY <2>1, <2>4, LoopAlone
<1>8. ASSUME NEW a \in Auth, NEW f \in Fresh(a), NEW carried \in BOOLEAN,
             ServiceStores(a, f, carried)
      PROVE  LookedAt'
  <2>1. /\ heap' = heap /\ dirty' = dirty /\ wake' = wake /\ timer' = timer /\ loop' = loop
        /\ owed' = owed \cup {a} /\ forgotten' = forgotten
        /\ jobs' = jobs /\ worker' = worker
        /\ \A b \in Auth \ {a} : record'[b] = record[b]
    BY <1>8 DEF ServiceStores, Stored, TypeOK
  <2>2. \A b \in Auth : InFlight(b)' = InFlight(b)
    BY <2>1, SameInFlight
  <2>3. \A b \in Auth : Awaited(b) => Awaited(b)'
    BY <2>1 DEF Awaited, Pending
  <2>4. \A b \in Auth \ {a} : Watched(b)'
    BY <2>1, <2>2, <2>3, WatchedStays DEF LookedAt
  <2>5. Watched(a)'
    BY <2>1, WatchedAwaited DEF Awaited
  <2> QED
    BY <2>1, <2>4, <2>5, LoopAlone
<1>9. ASSUME NEW a \in Auth, NEW unauthorized \in BOOLEAN, MarkResult(a, unauthorized)
      PROVE  LookedAt'
  BY <1>9, MarkResultLookedAt
<1>10. CASE UNCHANGED vars
  <2>1. \A b \in Auth : InFlight(b)' = InFlight(b)
    BY <1>10, SameInFlight DEF vars
  <2>2. \A b \in Auth : Watched(b)'
    BY <1>10, <2>1, WatchedStays DEF vars, LookedAt, Awaited, Pending
  <2> QED
    BY <1>10, <2>2, LoopAlone DEF vars
<1> QED
  BY <1>1, <1>2, <1>3, <1>4, <1>5, <1>6, <1>7, <1>8, <1>9, <1>10 DEF Next

(* No wake-up is lost: while the loop waits, every credential that has a   *)
(* next check is looked at by then, but for those LooksInTime names,       *)
(* whatever the periods, the backoffs and the number of credentials.       *)
THEOREM LooksInTimeInvariant == Spec => []LooksInTime
<1>1. TypeOK /\ LookedAt => LooksInTime
  <2> SUFFICES ASSUME TypeOK, LookedAt, loop.at = "select", NEW a \in Auth,
                      NextCheck(a, record[a]) # None, a \notin owed \cup forgotten,
                      InFlight(a) = 0
               PROVE  \/ a \in dirty /\ wake
                      \/ /\ a \notin dirty /\ heap[a] # None
                         /\ timer # None /\ timer <= heap[a]
                         /\ heap[a] <= NextCheck(a, record[a]) + CheckInterval
    BY DEF LooksInTime
  <2>1. CASE a \in dirty
    BY <2>1 DEF LookedAt, LoopAtRest
  <2>2. CASE a \notin dirty
    <3>1. ~Awaited(a)
      BY <2>2, AuthAssumption DEF Awaited, Pending, LookedAt, LoopAtRest, TypeOK
    <3>2. heap[a] # None /\ Early(a)
      BY <3>1 DEF LookedAt, Watched
    <3>3. timer # None /\ timer <= heap[a]
      BY <3>2 DEF LookedAt, TimerInTime
    <3>4. NextCheck(a, Willing(record[a])) = NextCheck(a, record[a])
      BY WillingIs DEF TypeOK
    <3> QED
      BY <2>2, <3>2, <3>3, <3>4 DEF Early
  <2> QED
    BY <2>1, <2>2
<1> QED
  BY <1>1, InitTypeOK, NextTypeOK, InitLookedAt, NextLookedAt, PTL DEF Spec
=============================================================================
