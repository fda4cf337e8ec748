--------------------------- MODULE AuthSync_proofs ---------------------------
(***************************************************************************)
(* Proofs about AuthSync, for any number of goroutines and models: the     *)
(* manager, the scheduler and the registry come back into agreement after  *)
(* a call that nothing overlapped.                                         *)
(*                                                                         *)
(* The argument follows the one call that is undisturbed.  Alone says that *)
(* nobody else is running then, and Stage what holds of the three tables   *)
(* and of what the call carries, for each sequence of steps the call has   *)
(* still to make.  Calls that overlap promise nothing: Begin empties       *)
(* settled when there is another, and only an undisturbed call adds to it. *)
(***************************************************************************)
EXTENDS AuthSync, TLAPS

(* What the last calls left in agreement. *)
SchedulerAgrees == "scheduler" \in settled => entry = EntryOf(record)
RegistrationAgrees ==
  "registration" \in settled /\ (record.disabled \/ ~record.present) => serves = {}
MarksAgree ==
  "marks" \in settled =>
    /\ marks \subseteq Failing(record)
    /\ Suspending(record) \cap serves \subseteq marks
Agree == SchedulerAgrees /\ RegistrationAgrees /\ MarksAgree

(* No disabled credential has models registered, and none is suspended. *)
Registered == (record.disabled => serves = {}) /\ marks = {}
Gone == serves = {} /\ marks = {}
Publishing(c) == c.held = Blocking(record) /\ ~c.live

(* An update, from its start to the registration, and a catalog refresh as *)
(* far as its second look.                                                 *)
Updating(c) ==
  \/ /\ c.todo = <<"update", "publish", "register", "supported",
                   "reconcile", "publish", "clone", "publish">>
     /\ c.auth.present
  \/ /\ c.todo = <<"publish", "register", "supported",
                   "reconcile", "publish", "clone", "publish">>
     /\ record.present /\ c.auth.disabled = record.disabled
Cataloguing(c) ==
  /\ c.todo \in {<<"register", "supported", "reconcile", "publish", "latest">>,
                 <<"supported", "reconcile", "publish", "latest">>,
                 <<"reconcile", "publish", "latest">>,
                 <<"publish", "latest">>, <<"latest">>}
  /\ record.present /\ ~record.disabled /\ ~c.live

(* The registration that ends both, and what follows it. *)
Registering(c) ==
  /\ record.present /\ ~c.live
  /\ \/ /\ c.todo = <<"register", "supported", "reconcile", "publish", "clone", "publish">>
        /\ c.auth.disabled = record.disabled
     \/ /\ c.todo = <<"supported", "reconcile", "publish", "clone", "publish">>
        /\ Registered
     \/ /\ c.todo = <<"reconcile", "publish", "clone", "publish">>
        /\ Registered
     \/ /\ c.todo = <<"publish", "clone", "publish">>
        /\ Registered /\ Failing(record) = {}
     \/ /\ c.todo = <<"clone", "publish">>
        /\ Registered /\ Failing(record) = {}
     \/ /\ c.todo = <<"publish">>
        /\ Registered /\ Failing(record) = {} /\ Publishing(c)

Removing(c) ==
  /\ Gone
  /\ \/ /\ c.todo = <<"get", "update", "publish">>
        /\ "scheduler" \in settled /\ ~record.present => entry = EntryOf(record)
     \/ /\ c.todo = <<"update", "publish">>
        /\ c.auth.disabled
     \/ /\ c.todo = <<"publish">>
        /\ c.live /\ record.disabled

(* A credential that is stored with another flag, or with new tokens. *)
Storing(c) ==
  /\ RegistrationAgrees /\ MarksAgree
  /\ \/ /\ c.todo = <<"update", "publish">>
        /\ c.auth.states = record.states
        /\ c.call = "refresh" => c.auth = record
        /\ c.call = "toggle" => "registration" \notin settled
     \/ c.todo = <<"publish">> /\ c.live
Refreshed(c) == Agree /\ c.todo = <<"refreshed">> /\ c.auth = record

(* A result between the record and the registry, which may still be wrong   *)
(* about the model m of a result that concerns it.                          *)
AgreeBut(m) ==
  "marks" \in settled =>
    /\ marks \ {m} \subseteq Failing(record)
    /\ (Suspending(record) \cap serves) \ {m} \subseteq marks
Marking(c, m) ==
  /\ RegistrationAgrees /\ AgreeBut(m)
  /\ \/ /\ c.todo = <<"publish", "suspend">>
        /\ Publishing(c) /\ m \in Suspending(record)
     \/ /\ c.todo = <<"publish", "resume">>
        /\ Publishing(c) /\ m \notin Failing(record)
     \/ /\ c.todo = <<"publish">>
        /\ Publishing(c) /\ MarksAgree
     \/ /\ c.todo = <<"suspend">>
        /\ entry = EntryOf(record) /\ m \in Suspending(record)
     \/ /\ c.todo = <<"resume">>
        /\ entry = EntryOf(record) /\ m \notin Failing(record)

Picking(c) ==
  /\ Agree
  /\ \/ c.todo = <<"clone", "publish", "pickAgain">> /\ record.present /\ ~c.live
     \/ c.todo = <<"publish", "pickAgain">> /\ Publishing(c)
     \/ c.todo = <<"pickAgain">> /\ entry = EntryOf(record)

(* Where the undisturbed call is, and what holds there. *)
Stage(c) ==
  \/ /\ c.todo = Program(c.call) /\ ~c.live
     /\ Agree
     /\ c.call = "modify" => c.auth.present
     /\ c.call = "toggle" => "registration" \notin settled
  \/ c.call = "modify" /\ Updating(c)
  \/ c.call = "catalog" /\ Cataloguing(c)
  \/ c.call \in {"modify", "catalog"} /\ Registering(c)
  \/ c.call = "remove" /\ Removing(c)
  \/ c.call \in {"toggle", "refresh"} /\ Storing(c)
  \/ c.call = "refresh" /\ Refreshed(c)
  \/ c.call = "result" /\ \E m \in Model : c.models = {m} /\ Marking(c, m)
  \/ c.call = "pick" /\ Picking(c)

(* A result and a pick have a model; nobody but a result records one, and   *)
(* neither of them gets a credential or a list of the registry's models.   *)
(* Something always follows the reconciliation.                            *)
Fits(step, call) ==
  /\ step = "record" => call = "result"
  /\ step = "get" => call \in Modifying \cup {"toggle", "catalog", "refresh"}
  /\ step \in {"supported", "reconcile", "latest"} => call \notin {"result", "pick"}
Fitting(t, call) == \A i \in DOMAIN t : /\ Fits(t[i], call)
                                        /\ t[i] = "reconcile" => i + 1 \in DOMAIN t
Sound(c) ==
  /\ c.call = "none" => c = Idle
  /\ c.call \in {"result", "pick"} => \E m \in Model : c.models = {m}
  /\ Fitting(c.todo, c.call)
Typed == TypeOK /\ \A p \in Process : Sound(process[p])

(* A credential that is stored is there, and so it is for good; until it is, *)
(* nobody has anything to publish.  A credential is fetched, as the first   *)
(* thing but for a removal, just before it is stored or refreshed.         *)
Ordered(c) ==
  \A i \in DOMAIN c.todo : i + 1 \in DOMAIN c.todo =>
    /\ c.todo[i + 1] \in {"update", "refreshed"} => c.todo[i] = "get" /\ c.call # "catalog"
    /\ c.todo[i + 1] = "get" => c.todo[i] = "unregister" /\ c.call = "remove"
Bringing(c) ==
  /\ c.todo # <<>>
  /\ Head(c.todo) \in {"update", "refreshed"} \/ (Head(c.todo) = "get" /\ c.call = "modify")
  => c.auth.present
Carried == \A p \in Process : Ordered(process[p]) /\ Bringing(process[p])
Absent == ~record.present =>
  entry = NoAuthEntry /\ \A p \in Process : ~process[p].held.present

Alone ==
  /\ solo = Nobody => AtRest \/ settled = {}
  /\ solo # Nobody => /\ process[solo].call # "none"
                      /\ \A q \in Process \ {solo} : process[q] = Idle
                      /\ Stage(process[solo])

IInv == Typed /\ Carried /\ Absent /\ Alone /\ (AtRest => Agree)
-----------------------------------------------------------------------------
(* Sequences of steps, and the calls they are of.                          *)
LEMMA OneIsSome == \A x : <<x>> # <<>>
  OBVIOUS

LEMMA SomethingLeft ==
  ASSUME NEW s \in Seq(Steps), 1 + 1 \in DOMAIN s
  PROVE  Tail(s) # <<>>
<1>1. Len(s) >= 2 /\ s # <<>>
  OBVIOUS
<1>2. Len(Tail(s)) = Len(s) - 1 /\ Len(s) \in Nat
  BY <1>1
<1>3. Len(<<>>) = 0
  OBVIOUS
<1>4. Tail(s) = <<>> => Len(Tail(s)) = 0
  BY <1>3
<1> QED BY <1>1, <1>2, <1>4

LEMMA RestOfSteps ==
  ASSUME NEW s \in Seq(Steps), s # <<>>
  PROVE  /\ Tail(s) \in Seq(Steps)
         /\ \A i \in DOMAIN Tail(s) :
              /\ i + 1 \in DOMAIN s /\ Tail(s)[i] = s[i + 1]
              /\ (i + 1) + 1 \in DOMAIN s => i + 1 \in DOMAIN Tail(s)
OBVIOUS

CallNames == Modifying \cup {"toggle", "catalog", "refresh", "result", "pick"}

LEMMA ProgramOK ==
  ASSUME NEW call \in CallNames
  PROVE  /\ Program(call) \in Seq(Steps) /\ Program(call) # <<>>
         /\ Fitting(Program(call), call)
<1>1. CASE call = "modify"
  <2>1. Program(call) = <<"get", "update", "publish", "register", "supported",
                          "reconcile", "publish", "clone", "publish">>
    BY <1>1 DEF Program
  <2>2. Program(call) \in Seq(Steps) /\ Program(call) # <<>>
    BY <2>1 DEF Steps
  <2>3. \A i \in DOMAIN Program(call) : Program(call)[i] \in
                {"get", "update", "publish", "register",
                 "supported", "reconcile", "clone"}
    BY <2>1
  <2>4. \A i \in DOMAIN Program(call) :
          Program(call)[i] = "reconcile" => i + 1 \in DOMAIN Program(call)
    BY <2>1
  <2> QED BY <1>1, <2>2, <2>3, <2>4 DEF Fits, Fitting, Modifying
<1>2. CASE call = "remove"
  <2>1. Program(call) = <<"unregister", "get", "update", "publish">>
    BY <1>2 DEF Program
  <2>2. Program(call) \in Seq(Steps) /\ Program(call) # <<>>
    BY <2>1 DEF Steps
  <2>3. \A i \in DOMAIN Program(call) : Program(call)[i] \in
                {"unregister", "get", "update", "publish"}
    BY <2>1
  <2> QED BY <1>2, <2>2, <2>3 DEF Fits, Fitting, Modifying
<1>3. CASE call = "toggle"
  <2>1. Program(call) = <<"get", "update", "publish">>
    BY <1>3 DEF Program
  <2>2. Program(call) \in Seq(Steps) /\ Program(call) # <<>>
    BY <2>1 DEF Steps
  <2>3. \A i \in DOMAIN Program(call) : Program(call)[i] \in
                {"get", "update", "publish"}
    BY <2>1
  <2> QED BY <1>3, <2>2, <2>3 DEF Fits, Fitting, Modifying
<1>4. CASE call = "catalog"
  <2>1. Program(call) = <<"get", "register", "supported", "reconcile", "publish", "latest">>
    BY <1>4 DEF Program
  <2>2. Program(call) \in Seq(Steps) /\ Program(call) # <<>>
    BY <2>1 DEF Steps
  <2>3. \A i \in DOMAIN Program(call) : Program(call)[i] \in
                {"get", "register", "supported", "reconcile",
                 "publish", "latest"}
    BY <2>1
  <2>4. \A i \in DOMAIN Program(call) :
          Program(call)[i] = "reconcile" => i + 1 \in DOMAIN Program(call)
    BY <2>1
  <2> QED BY <1>4, <2>2, <2>3, <2>4 DEF Fits, Fitting, Modifying
<1>5. CASE call = "refresh"
  <2>1. Program(call) = <<"get", "refreshed">>
    BY <1>5 DEF Program
  <2>2. Program(call) \in Seq(Steps) /\ Program(call) # <<>>
    BY <2>1 DEF Steps
  <2>3. \A i \in DOMAIN Program(call) : Program(call)[i] \in
                {"get", "refreshed"}
    BY <2>1
  <2> QED BY <1>5, <2>2, <2>3 DEF Fits, Fitting, Modifying
<1>6. CASE call = "result"
  <2>1. Program(call) = <<"record">>
    BY <1>6 DEF Program
  <2>2. Program(call) \in Seq(Steps) /\ Program(call) # <<>>
    BY <2>1 DEF Steps
  <2>3. \A i \in DOMAIN Program(call) : Program(call)[i] \in
                {"record"}
    BY <2>1
  <2> QED BY <1>6, <2>2, <2>3 DEF Fits, Fitting, Modifying
<1>7. CASE call = "pick"
  <2>1. Program(call) = <<"pick">>
    BY <1>7 DEF Program
  <2>2. Program(call) \in Seq(Steps) /\ Program(call) # <<>>
    BY <2>1 DEF Steps
  <2>3. \A i \in DOMAIN Program(call) : Program(call)[i] \in
                {"pick"}
    BY <2>1
  <2> QED BY <1>7, <2>2, <2>3 DEF Fits, Fitting, Modifying
<1> QED BY <1>1, <1>2, <1>3, <1>4, <1>5, <1>6, <1>7 DEF CallNames, Modifying

-----------------------------------------------------------------------------
(* Records and entries.                                                    *)
LEMMA RecordFields ==
  ASSUME NEW r \in Record
  PROVE  /\ r.present \in BOOLEAN /\ r.disabled \in BOOLEAN
         /\ r.states \in [Model -> State]
         /\ r = [present |-> r.present, disabled |-> r.disabled, states |-> r.states]
BY DEF Record

LEMMA RecordMade ==
  ASSUME NEW present \in BOOLEAN, NEW disabled \in BOOLEAN, NEW states \in [Model -> State]
  PROVE  [present |-> present, disabled |-> disabled, states |-> states] \in Record
BY DEF Record

(* Two fields at a time are one and then the other. *)
LEMMA RecordFlags ==
  ASSUME NEW r \in Record, NEW v \in BOOLEAN, NEW w \in BOOLEAN
  PROVE  /\ [r EXCEPT !.disabled = w] =
              [present |-> r.present, disabled |-> w, states |-> r.states]
         /\ [r EXCEPT !.present = v, !.disabled = w] =
              [present |-> v, disabled |-> w, states |-> r.states]
<1> DEFINE e == [present |-> v, disabled |-> r.disabled, states |-> r.states]
<1>1. [r EXCEPT !.present = v] = e
  BY RecordFields
<1>2. [r EXCEPT !.present = v, !.disabled = w] = [[r EXCEPT !.present = v] EXCEPT !.disabled = w]
  OBVIOUS
<1>3. [e EXCEPT !.disabled = w] = [present |-> v, disabled |-> w, states |-> r.states]
  OBVIOUS
<1>4. [r EXCEPT !.disabled = w] = [present |-> r.present, disabled |-> w, states |-> r.states]
  BY RecordFields
<1> HIDE DEF e
<1> QED BY <1>1, <1>2, <1>3, <1>4

(* A record with other states. *)
LEMMA RecordStates ==
  ASSUME NEW r \in Record, NEW states \in [Model -> State]
  PROVE  LET d == [r EXCEPT !.states = states]
         IN  d \in Record /\ d.present = r.present /\ d.disabled = r.disabled /\ d.states = states
<1>1. [r EXCEPT !.states = states] =
        [present |-> r.present, disabled |-> r.disabled, states |-> states]
  BY RecordFields
<1> QED BY <1>1, RecordMade, RecordFields

LEMMA SimpleRecords ==
  /\ NoRecord \in Record
  /\ \A disabled \in BOOLEAN :
        FromFile(disabled) \in Record /\ FromFile(disabled).present
<1>1. NoRecord \in Record
  <2>1. NoStates \in [Model -> State]
    BY DEF NoStates, State
  <2> QED BY <2>1, RecordMade DEF NoRecord
<1>2. ASSUME NEW disabled \in BOOLEAN, NEW present \in BOOLEAN
      PROVE  LET d == [NoRecord EXCEPT !.present = present, !.disabled = disabled]
             IN  d \in Record /\ d.present = present
  <2>1. [NoRecord EXCEPT !.present = present, !.disabled = disabled] =
          [present |-> present, disabled |-> disabled, states |-> NoRecord.states]
    BY <1>1, RecordFlags, Zenon
  <2> QED BY <1>1, <2>1, RecordFields, RecordMade
<1>3. ASSUME NEW disabled \in BOOLEAN
      PROVE  FromFile(disabled) \in Record /\ FromFile(disabled).present
  <2> DEFINE present == TRUE
  <2>1. present \in BOOLEAN /\ present
    OBVIOUS
  <2>2. FromFile(disabled) = [NoRecord EXCEPT !.present = present, !.disabled = disabled]
    BY DEF FromFile
  <2> HIDE DEF present
  <2>3. FromFile(disabled) \in Record /\ FromFile(disabled).present = present
    BY <1>2, <2>1, <2>2, Zenon
  <2> QED BY <2>1, <2>3, Zenon
<1> QED BY <1>1, <1>3

LEMMA EnablingOK ==
  ASSUME NEW r \in Record
  PROVE  Enabling(r) \in Record /\ Enabling(r).disabled = r.disabled
<1>1. ASSUME NEW disabled \in BOOLEAN
      PROVE  /\ [NoRecord EXCEPT !.disabled = disabled] \in Record
             /\ [NoRecord EXCEPT !.disabled = disabled].disabled = disabled
  <2> DEFINE d == [NoRecord EXCEPT !.disabled = disabled]
  <2>1. d = [present |-> NoRecord.present, disabled |-> disabled, states |-> NoRecord.states]
    BY SimpleRecords, RecordFlags, Zenon
  <2>2. NoRecord \in Record
    BY SimpleRecords
  <2> HIDE DEF d
  <2>3. d \in Record
    BY <2>1, <2>2, RecordFields, RecordMade
  <2>4. d.disabled = disabled
    BY <2>1
  <2> QED BY <2>3, <2>4 DEF d
<1> QED BY <1>1, RecordFields DEF Enabling

(* What the scheduler reads of a record is kept. *)
LEMMA BlockingOK ==
  ASSUME NEW r \in Record
  PROVE  /\ Blocking(r) \in Record /\ Blocking(r).present = r.present
         /\ EntryOf(Blocking(r)) = EntryOf(r)
<1> DEFINE states == [m \in Model |-> IF m \in Blocked(r) THEN "cooling" ELSE "none"]
           d == [r EXCEPT !.states = states]
<1>1. states \in [Model -> State]
  BY DEF State
<1>2. \A m \in Model : states[m] \in {"cooling", "suspending"} <=> m \in Blocked(r)
  OBVIOUS
<1>3. Blocking(r) = d
  BY DEF Blocking
<1> HIDE DEF states
<1>4. d \in Record /\ d.present = r.present /\ d.disabled = r.disabled /\ d.states = states
  BY <1>1, RecordStates
<1> HIDE DEF d
<1>5. Blocked(d) = Blocked(r)
  BY <1>2, <1>4 DEF Blocked
<1> QED BY <1>3, <1>4, <1>5 DEF EntryOf

LEMMA DisablingOK ==
  ASSUME NEW r \in Record, NEW disabled \in BOOLEAN
  PROVE  LET d == [r EXCEPT !.disabled = disabled]
         IN  d \in Record /\ d.disabled = disabled /\ d.present = r.present
             /\ d.states = r.states
<1>1. [r EXCEPT !.disabled = disabled] =
        [present |-> r.present, disabled |-> disabled, states |-> r.states]
  BY RecordFields
<1> QED BY <1>1, RecordMade, RecordFields

LEMMA TakingStatesOK ==
  ASSUME NEW r \in Record, NEW s \in Record
  PROVE  LET d == [r EXCEPT !.states = s.states]
         IN  d \in Record /\ d.disabled = r.disabled /\ d.present = r.present /\ d.states = s.states
  BY RecordFields, RecordStates

LEMMA StoredOK ==
  ASSUME NEW r \in Record, record \in Record
  PROVE  /\ Stored(r) \in Record
         /\ Stored(r).disabled = r.disabled /\ Stored(r).present = r.present
         /\ r.disabled \/ r.states = record.states => Stored(r) = r
<1>1. CASE Stored(r) = r
  BY <1>1
<1>2. CASE Stored(r) # r
  <2>1. Stored(r) = [r EXCEPT !.states = record.states] /\ ~r.disabled
    BY <1>2 DEF Stored
  <2>2. r.states # record.states
    <3> SUFFICES ASSUME r.states = record.states PROVE FALSE
      OBVIOUS
    <3>1. [r EXCEPT !.states = r.states] = r
      BY RecordFields
    <3> QED BY <1>2, <2>1, <3>1
  <2> QED BY <2>1, <2>2, TakingStatesOK
<1> QED BY <1>1, <1>2

LEMMA ReconciledOK ==
  ASSUME NEW r \in Record, NEW models \in SUBSET Model
  PROVE  LET d == Reconciled(r, models)
         IN  d \in Record /\ d.disabled = r.disabled /\ d.present = r.present
             /\ Failing(d) = {}
<1> DEFINE states == [m \in Model |-> IF m \in models /\ r.states[m] # "none" THEN "clean" ELSE "none"]
           d == [r EXCEPT !.states = states]
<1>1. states \in [Model -> State] /\ \A m \in Model : states[m] \in {"clean", "none"}
  BY DEF State
<1>2. Reconciled(r, models) = d
  BY DEF Reconciled
<1> HIDE DEF states
<1>3. d \in Record /\ d.present = r.present /\ d.disabled = r.disabled /\ d.states = states
  BY <1>1, RecordStates
<1> HIDE DEF d
<1>4. Failing(d) = {}
  <2>1. \A m \in Model : d.states[m] \notin {"noted", "cooling", "suspending"}
    BY <1>1, <1>3
  <2> QED BY <2>1 DEF Failing
<1> QED BY <1>2, <1>3, <1>4

(* What a result of a model makes of the record. *)
LEMMA MarkedOK ==
  ASSUME NEW r \in Record, NEW m \in Model, NEW outcome \in Outcomes
  PROVE  LET d == Marked(r, m, outcome)
         IN  /\ d \in Record /\ d.disabled = r.disabled /\ d.present = r.present
             /\ Failing(d) \ {m} = Failing(r) \ {m}
             /\ Suspending(d) \ {m} = Suspending(r) \ {m}
             /\ outcome = "clean" => m \notin Failing(d)
             /\ outcome = "suspending" => m \in Suspending(d)
             /\ outcome \in {"noted", "cooling"} => m \in Failing(d) /\ m \notin Suspending(d)
             /\ outcome = "notFound" => d = r
<1>1. CASE outcome = "notFound"
  BY <1>1 DEF Marked
<1>2. CASE outcome # "notFound"
  <2> DEFINE states == [r.states EXCEPT ![m] = outcome]
             d == [r EXCEPT !.states = states]
  <2>1. outcome \in State /\ r.states \in [Model -> State]
    BY <1>2, RecordFields DEF Outcomes
  <2>2. states \in [Model -> State] /\ states[m] = outcome
        /\ \A n \in Model \ {m} : states[n] = r.states[n]
    BY <2>1
  <2>3. Marked(r, m, outcome) = d
    BY <1>2 DEF Marked
  <2> HIDE DEF states
  <2>4. d \in Record /\ d.present = r.present /\ d.disabled = r.disabled /\ d.states = states
    BY <2>2, RecordStates
  <2> HIDE DEF d
  <2>5. Failing(d) \ {m} = Failing(r) \ {m} /\ Suspending(d) \ {m} = Suspending(r) \ {m}
    BY <2>2, <2>4 DEF Failing, Suspending
  <2>6. /\ m \in Failing(d) <=> outcome \in {"noted", "cooling", "suspending"}
        /\ m \in Suspending(d) <=> outcome = "suspending"
    BY <2>2, <2>4 DEF Failing, Suspending
  <2> QED BY <1>2, <2>3, <2>4, <2>5, <2>6
<1> QED BY <1>1, <1>2

LEMMA MarkedKept ==
  ASSUME NEW r \in Record, NEW m \in Model, NEW outcome \in Outcomes
  PROVE  Marked(r, m, outcome) \in Record /\ Marked(r, m, outcome).present = r.present
BY MarkedOK

LEMMA ReportsOK ==
  ASSUME NEW outcome \in Outcomes
  PROVE  /\ Reports(outcome) \in Seq(Steps) /\ Reports(outcome) # <<>>
         /\ \A i \in DOMAIN Reports(outcome) : Reports(outcome)[i] \in {"publish", "suspend", "resume"}
         /\ outcome = "clean" => Reports(outcome) = <<"publish", "resume">>
         /\ outcome = "suspending" => Reports(outcome) = <<"publish", "suspend">>
         /\ outcome \notin {"clean", "suspending"} => Reports(outcome) = <<"publish">>
<1>1. CASE outcome = "clean"
  <2>1. Reports(outcome) = <<"publish", "resume">>
    BY <1>1 DEF Reports
  <2>2. Reports(outcome) \in Seq(Steps) /\ Reports(outcome) # <<>>
    BY <2>1 DEF Steps
  <2>3. \A i \in DOMAIN Reports(outcome) : Reports(outcome)[i] \in {"publish", "resume"}
    BY <2>1
  <2> QED BY <1>1, <2>1, <2>2, <2>3
<1>2. CASE outcome = "suspending"
  <2>1. Reports(outcome) = <<"publish", "suspend">>
    BY <1>2 DEF Reports
  <2>2. Reports(outcome) \in Seq(Steps) /\ Reports(outcome) # <<>>
    BY <2>1 DEF Steps
  <2>3. \A i \in DOMAIN Reports(outcome) : Reports(outcome)[i] \in {"publish", "suspend"}
    BY <2>1
  <2> QED BY <1>2, <2>1, <2>2, <2>3
<1>3. CASE outcome \notin {"clean", "suspending"}
  <2>1. Reports(outcome) = <<"publish">>
    BY <1>3 DEF Reports
  <2>2. Reports(outcome) \in Seq(Steps) /\ Reports(outcome) # <<>>
    BY <2>1 DEF Steps
  <2>3. \A i \in DOMAIN Reports(outcome) : Reports(outcome)[i] \in {"publish"}
    BY <2>1
  <2> QED BY <1>3, <2>1, <2>2, <2>3
<1> QED BY <1>1, <1>2, <1>3

(* Suspending is failing. *)
LEMMA SuspendingFails == \A r : Suspending(r) \subseteq Failing(r)
  BY DEF Suspending, Failing

LEMMA EntryOfOK ==
  ASSUME NEW r \in Record, serves \subseteq Model
  PROVE  EntryOf(r) \in Entry
<1>1. Blocked(r) \subseteq Model
  BY DEF Blocked
<1> HIDE DEF Blocked
<1> QED BY <1>1 DEF EntryOf, NoAuthEntry, Entry
-----------------------------------------------------------------------------
(* Callers.  A step changes some of a caller's fields, never its call.     *)
LEMMA CallerFields ==
  ASSUME NEW c \in Caller
  PROVE  /\ c.call \in Calls \cup {"none"} /\ c.todo \in Seq(Steps)
         /\ c.auth \in Record /\ c.held \in Record
         /\ c.live \in BOOLEAN /\ c.models \subseteq Model
         /\ c = [call |-> c.call, todo |-> c.todo, auth |-> c.auth,
                 held |-> c.held, live |-> c.live, models |-> c.models]
BY DEF Caller

LEMMA CallerMade ==
  ASSUME NEW call \in Calls \cup {"none"}, NEW todo \in Seq(Steps), NEW auth \in Record,
         NEW held \in Record, NEW live \in BOOLEAN, NEW models \in SUBSET Model
  PROVE  [call |-> call, todo |-> todo, auth |-> auth,
          held |-> held, live |-> live, models |-> models] \in Caller
BY DEF Caller

LEMMA IdleOK == Idle \in Caller /\ Sound(Idle) /\ Idle.todo = <<>> /\ Idle.call = "none"
<1>1. Idle.call = "none" /\ Idle.todo = <<>>
  BY DEF Idle
<1>2. Idle \in Caller
  BY SimpleRecords DEF Idle, Caller
<1>3. DOMAIN Idle.todo = {}
  BY <1>1
<1> QED BY <1>1, <1>2, <1>3 DEF Sound, Fitting

(* The combinations that the steps use; each is brought about one field at *)
(* a time.                                                                 *)
LEMMA CallerExcept ==
  ASSUME NEW c \in Caller, NEW t \in Seq(Steps), NEW v
  PROVE  /\ [c EXCEPT !.todo = t] =
              [call |-> c.call, todo |-> t, auth |-> c.auth,
               held |-> c.held, live |-> c.live, models |-> c.models]
         /\ [c EXCEPT !.todo = t, !.auth = v] =
              [call |-> c.call, todo |-> t, auth |-> v,
               held |-> c.held, live |-> c.live, models |-> c.models]
         /\ [c EXCEPT !.todo = t, !.held = v] =
              [call |-> c.call, todo |-> t, auth |-> c.auth,
               held |-> v, live |-> c.live, models |-> c.models]
         /\ [c EXCEPT !.todo = t, !.models = v] =
              [call |-> c.call, todo |-> t, auth |-> c.auth,
               held |-> c.held, live |-> c.live, models |-> v]
<1> DEFINE d == [call |-> c.call, todo |-> t, auth |-> c.auth,
                 held |-> c.held, live |-> c.live, models |-> c.models]
<1>1. [c EXCEPT !.todo = t] = d
  BY CallerFields
<1>2. /\ [c EXCEPT !.todo = t, !.auth = v] = [[c EXCEPT !.todo = t] EXCEPT !.auth = v]
      /\ [c EXCEPT !.todo = t, !.held = v] = [[c EXCEPT !.todo = t] EXCEPT !.held = v]
      /\ [c EXCEPT !.todo = t, !.models = v] = [[c EXCEPT !.todo = t] EXCEPT !.models = v]
  OBVIOUS
<1>3. /\ [d EXCEPT !.auth = v] =
            [call |-> c.call, todo |-> t, auth |-> v,
             held |-> c.held, live |-> c.live, models |-> c.models]
      /\ [d EXCEPT !.held = v] =
            [call |-> c.call, todo |-> t, auth |-> c.auth,
             held |-> v, live |-> c.live, models |-> c.models]
      /\ [d EXCEPT !.models = v] =
            [call |-> c.call, todo |-> t, auth |-> c.auth,
             held |-> c.held, live |-> c.live, models |-> v]
  OBVIOUS
<1> HIDE DEF d
<1> QED BY <1>1, <1>2, <1>3 DEF d
-----------------------------------------------------------------------------
(* Types, in two parts: the tables, and those who call.                    *)
TablesOK == /\ record \in Record /\ entry \in Entry
            /\ serves \subseteq Model /\ marks \subseteq serves
CallersOK == /\ process \in [Process -> Caller]
             /\ \A p \in Process : Sound(process[p])
             /\ solo \in Process \cup {Nobody}
             /\ settled \subseteq {"scheduler", "registration", "marks"}
LEMMA TypedParts == Typed <=> TablesOK /\ CallersOK
BY DEF Typed, TypeOK, TablesOK, CallersOK

LEMMA AtFacts ==
  ASSUME CallersOK, NEW p \in Process, NEW step \in Steps, At(p, step)
  PROVE  /\ process[p] \in Caller /\ Sound(process[p])
         /\ process[p].call \in Calls /\ process[p].call # "none"
         /\ process[p].todo # <<>> /\ Head(process[p].todo) = step
         /\ Rest(p) \in Seq(Steps) /\ Fits(step, process[p].call)
<1>1. process[p] \in Caller /\ Sound(process[p])
  BY DEF CallersOK
<1>2. process[p].todo # <<>> /\ Head(process[p].todo) = step
  BY DEF At
<1>3. process[p].call # "none"
  BY <1>1, <1>2, IdleOK DEF Sound
<1>4. Rest(p) \in Seq(Steps) /\ 1 \in DOMAIN process[p].todo /\ process[p].todo[1] = step
  BY <1>1, <1>2, CallerFields DEF Rest
<1> QED BY <1>1, <1>2, <1>3, <1>4, CallerFields DEF Sound, Fitting

LEMMA ContinueOK ==
  ASSUME CallersOK, NEW p \in Process, NEW local \in Caller, Sound(local),
         Continue(p, local)
  PROVE  CallersOK'
<1>1. process' \in [Process -> Caller] /\ \A q \in Process : Sound(process'[q])
  BY IdleOK DEF CallersOK, Continue
<1>2. solo' \in Process \cup {Nobody}
  BY DEF CallersOK, Continue
<1>3. settled' \subseteq {"scheduler", "registration", "marks"}
  BY DEF CallersOK, Continue, Settles
<1> QED BY <1>1, <1>2, <1>3 DEF CallersOK

LEMMA ReturnOK ==
  ASSUME CallersOK, NEW p \in Process, Return(p)
  PROVE  CallersOK'
BY IdleOK DEF CallersOK, Return

(* The caller a step makes of one. *)
Made(c, t, auth, held, live, models) ==
  [call |-> c.call, todo |-> t, auth |-> auth, held |-> held, live |-> live,
   models |-> models]
LEMMA MadeOK ==
  ASSUME NEW c \in Caller, Sound(c), c.call # "none",
         NEW t \in Seq(Steps), NEW auth \in Record, NEW held \in Record,
         NEW live \in BOOLEAN, NEW models \in SUBSET Model,
         c.call \in {"result", "pick"} => models = c.models,
         Fitting(t, c.call)
  PROVE  /\ Made(c, t, auth, held, live, models) \in Caller
         /\ Sound(Made(c, t, auth, held, live, models))
<1>1. Made(c, t, auth, held, live, models) \in Caller
  BY CallerFields, CallerMade DEF Made
<1> QED BY <1>1 DEF Made, Sound

LEMMA RestFits ==
  ASSUME CallersOK, NEW p \in Process, NEW step \in Steps, At(p, step)
  PROVE  Fitting(Rest(p), process[p].call)
<1>1. process[p].todo \in Seq(Steps) /\ process[p].todo # <<>>
  BY AtFacts, CallerFields
<1>2. \A i \in DOMAIN Rest(p) :
        /\ i + 1 \in DOMAIN process[p].todo /\ Rest(p)[i] = process[p].todo[i + 1]
        /\ (i + 1) + 1 \in DOMAIN process[p].todo => i + 1 \in DOMAIN Rest(p)
  BY <1>1, RestOfSteps DEF Rest
<1>3. Fitting(process[p].todo, process[p].call)
  BY AtFacts DEF Sound
<1> QED BY <1>2, <1>3 DEF Fitting
-----------------------------------------------------------------------------
(* What each kind of step makes of its caller.                             *)
LEMMA TodoMade ==
  ASSUME NEW c \in Caller, NEW t \in Seq(Steps)
  PROVE  [c EXCEPT !.todo = t] = Made(c, t, c.auth, c.held, c.live, c.models)
BY CallerExcept, ZenonT(40) DEF Made

LEMMA AuthMade ==
  ASSUME NEW c \in Caller, NEW t \in Seq(Steps), NEW auth
  PROVE  [c EXCEPT !.todo = t, !.auth = auth] = Made(c, t, auth, c.held, c.live, c.models)
BY CallerExcept, ZenonT(40) DEF Made

LEMMA HeldMade ==
  ASSUME NEW c \in Caller, NEW t \in Seq(Steps), NEW held
  PROVE  [c EXCEPT !.todo = t, !.held = held] = Made(c, t, c.auth, held, c.live, c.models)
BY CallerExcept, ZenonT(40) DEF Made

LEMMA ModelsMade ==
  ASSUME NEW c \in Caller, NEW t \in Seq(Steps), NEW models
  PROVE  [c EXCEPT !.todo = t, !.models = models] = Made(c, t, c.auth, c.held, c.live, models)
BY CallerExcept, ZenonT(40) DEF Made

(* The others in two steps, for any values. *)
LEMMA ReconciledMade ==
  ASSUME NEW c \in Caller, NEW t \in Seq(Steps), NEW held, NEW models, NEW e,
         e = [c EXCEPT !.todo = t, !.held = held, !.models = models]
  PROVE  e = Made(c, t, c.auth, held, c.live, models)
<1> DEFINE d == [c EXCEPT !.todo = t, !.held = held]
<1>1. d = Made(c, t, c.auth, held, c.live, c.models)
  BY HeldMade, Zenon
<1>2. [c EXCEPT !.todo = t, !.held = held, !.models = models] = [d EXCEPT !.models = models]
  OBVIOUS
<1> HIDE DEF d
<1>3. [d EXCEPT !.models = models] = Made(c, t, c.auth, held, c.live, models)
  BY <1>1 DEF Made
<1> QED BY <1>2, <1>3, Zenon

LEMMA PublishedMade ==
  ASSUME NEW c \in Caller, NEW t \in Seq(Steps), NEW held, NEW live
  PROVE  [c EXCEPT !.todo = t, !.held = held, !.live = live]
           = Made(c, t, c.auth, held, live, c.models)
<1> DEFINE d == [c EXCEPT !.todo = t, !.held = held]
<1>1. d = Made(c, t, c.auth, held, c.live, c.models)
  BY HeldMade, Zenon
<1>2. [c EXCEPT !.todo = t, !.held = held, !.live = live] = [d EXCEPT !.live = live]
  OBVIOUS
<1> HIDE DEF d
<1>3. [d EXCEPT !.live = live] = Made(c, t, c.auth, held, live, c.models)
  BY <1>1 DEF Made
<1> QED BY <1>2, <1>3, Zenon

LEMMA StoredMade ==
  ASSUME NEW c \in Caller, NEW t \in Seq(Steps), NEW auth, NEW live
  PROVE  [c EXCEPT !.todo = t, !.live = live, !.auth = auth]
           = Made(c, t, auth, c.held, live, c.models)
<1> DEFINE d == [c EXCEPT !.todo = t]
           e == [d EXCEPT !.live = live]
<1>1. d = Made(c, t, c.auth, c.held, c.live, c.models)
  BY TodoMade, Zenon
<1>2. [c EXCEPT !.todo = t, !.live = live, !.auth = auth] = [e EXCEPT !.auth = auth]
  OBVIOUS
<1> HIDE DEF d
<1>3. e = Made(c, t, c.auth, c.held, live, c.models)
  BY <1>1 DEF Made
<1> HIDE DEF e
<1>4. [e EXCEPT !.auth = auth] = Made(c, t, auth, c.held, live, c.models)
  BY <1>3 DEF Made
<1> QED BY <1>2, <1>4, Zenon

LEMMA BereftMade ==
  ASSUME NEW c \in Caller, NEW held, NEW live
  PROVE  [c EXCEPT !.live = live, !.held = held]
           = Made(c, c.todo, c.auth, held, live, c.models)
<1> DEFINE d == [c EXCEPT !.live = live]
<1>1. d = Made(c, c.todo, c.auth, c.held, live, c.models)
  BY CallerFields DEF Made
<1>2. [c EXCEPT !.live = live, !.held = held] = [d EXCEPT !.held = held]
  OBVIOUS
<1> HIDE DEF d
<1>3. [d EXCEPT !.held = held] = Made(c, c.todo, c.auth, held, live, c.models)
  BY <1>1 DEF Made
<1> QED BY <1>2, <1>3, Zenon

Anew(c, call, t, auth, models) ==
  [call |-> call, todo |-> t, auth |-> auth,
   held |-> c.held, live |-> c.live, models |-> models]
Begun(call, auth, models) ==
  [Idle EXCEPT !.call = call, !.todo = Program(call), !.auth = auth, !.models = models]
LEMMA BegunExcept ==
  ASSUME NEW c \in Caller, NEW call, NEW t, NEW auth, NEW models,
         c = Idle, t = Program(call)
  PROVE  Begun(call, auth, models) = Anew(c, call, t, auth, models)
<1> DEFINE d == [c EXCEPT !.call = call]
           e == [d EXCEPT !.todo = t]
           f == [e EXCEPT !.auth = auth]
<1>1. [c EXCEPT !.call = call, !.todo = t, !.auth = auth, !.models = models]
        = [f EXCEPT !.models = models]
  OBVIOUS
<1>2. d = [call |-> call, todo |-> c.todo, auth |-> c.auth,
           held |-> c.held, live |-> c.live, models |-> c.models]
  BY CallerFields
<1> HIDE DEF d
<1>3. e = [call |-> call, todo |-> t, auth |-> c.auth,
           held |-> c.held, live |-> c.live, models |-> c.models]
  BY <1>2
<1> HIDE DEF e
<1>4. f = [call |-> call, todo |-> t, auth |-> auth,
           held |-> c.held, live |-> c.live, models |-> c.models]
  BY <1>3
<1> HIDE DEF f
<1>5. [f EXCEPT !.models = models] =
          [call |-> call, todo |-> t, auth |-> auth,
           held |-> c.held, live |-> c.live, models |-> models]
  BY <1>4
<1>6. Begun(call, auth, models) =
        [c EXCEPT !.call = call, !.todo = t, !.auth = auth, !.models = models]
  BY DEF Begun
<1>7. Begun(call, auth, models) = [call |-> call, todo |-> t, auth |-> auth,
                                   held |-> c.held, live |-> c.live, models |-> models]
  BY <1>1, <1>5, <1>6, Zenon
<1> QED BY <1>7 DEF Anew

LEMMA BegunMade ==
  ASSUME NEW call \in Calls, NEW auth \in Record, NEW models \in SUBSET Model,
         call \in {"result", "pick"} => \E m \in Model : models = {m},
         NEW c, c = Begun(call, auth, models)
  PROVE  /\ c \in Caller /\ Sound(c)
         /\ c.call = call /\ c.todo = Program(call) /\ c.auth = auth
         /\ c.models = models /\ ~c.live /\ c.call # "none" /\ c.call \in CallNames
<1>1. c = [call |-> call, todo |-> Program(call), auth |-> auth,
           held |-> Idle.held, live |-> Idle.live, models |-> models]
  <2>1. c = Anew(Idle, call, Program(call), auth, models)
    BY BegunExcept, IdleOK
  <2> QED BY <2>1 DEF Anew
<1>2. Idle.held \in Record /\ Idle.live \in BOOLEAN
  BY IdleOK, CallerFields
<1>3. ~Idle.live
  BY DEF Idle
<1>4. call \in CallNames /\ call # "none"
  BY CallsKnown DEF CallNames, Modifying
<1>5. Program(call) \in Seq(Steps)
  BY <1>4, ProgramOK
<1>6. c \in Caller
  BY <1>1, <1>2, <1>5 DEF Caller
<1>7. c.call = call /\ c.todo = Program(call) /\ c.auth = auth /\ c.models = models
  BY <1>1
<1>8. c.live = Idle.live
  BY <1>1
<1>9. Sound(c)
  BY <1>4, <1>7, ProgramOK DEF Sound
<1> QED BY <1>3, <1>4, <1>6, <1>7, <1>8, <1>9

-----------------------------------------------------------------------------
(* Every step keeps the types.                                             *)
LEMMA StepsAre ==
  \A step \in {"get", "update", "publish", "register", "supported", "reconcile", "latest",
               "clone", "unregister", "refreshed", "record", "suspend", "resume",
               "pick", "pickAgain"} : step \in Steps
BY DEF Steps

(* How each call begins. *)
LEMMA SomeCall ==
  ASSUME NEW p \in Process, BeginSome(p)
  PROVE  \E call \in Calls, auth \in Record, models \in SUBSET Model :
           /\ call \in {"result", "pick"} => \E m \in Model : models = {m}
           /\ call = "modify" => auth.present
           /\ Begin(p, call, auth, models)
<1>1. CASE \E disabled \in BOOLEAN : Begin(p, "modify", FromFile(disabled), {})
  BY <1>1, SimpleRecords DEF Begin
<1>2. CASE Begin(p, "remove", NoRecord, {})
  BY <1>2, SimpleRecords DEF Begin
<1>3. CASE \E disabled \in BOOLEAN : Begin(p, "toggle", FromFile(disabled), {})
  BY <1>3, SimpleRecords DEF Begin
<1>4. CASE Begin(p, "catalog", NoRecord, {})
  BY <1>4, SimpleRecords DEF Begin
<1>5. CASE Begin(p, "refresh", NoRecord, {})
  BY <1>5, SimpleRecords DEF Begin
<1>6. CASE \E m \in Model : Begin(p, "result", NoRecord, {m})
  <2>1. PICK m \in Model : Begin(p, "result", NoRecord, {m})
    BY <1>6
  <2>2. {m} \in SUBSET Model
    OBVIOUS
  <2> DEFINE models == {m}
  <2> HIDE DEF models
  <2>3. "result" \in Calls /\ Begin(p, "result", NoRecord, models)
    BY <2>1 DEF Begin, models
  <2>4. models \in SUBSET Model /\ \E n \in Model : models = {n}
    BY DEF models
  <2> QED BY <2>3, <2>4, SimpleRecords
<1>7. CASE \E m \in Model : Begin(p, "pick", NoRecord, {m})
  <2>1. PICK m \in Model : Begin(p, "pick", NoRecord, {m})
    BY <1>7
  <2>2. {m} \in SUBSET Model
    OBVIOUS
  <2> DEFINE models == {m}
  <2> HIDE DEF models
  <2>3. "pick" \in Calls /\ Begin(p, "pick", NoRecord, models)
    BY <2>1 DEF Begin, models
  <2>4. models \in SUBSET Model /\ \E n \in Model : models = {n}
    BY DEF models
  <2> QED BY <2>3, <2>4, SimpleRecords
<1> QED BY <1>1, <1>2, <1>3, <1>4, <1>5, <1>6, <1>7 DEF BeginSome

LEMMA BeginTyped ==
  ASSUME CallersOK, TablesOK, NEW p \in Process, BeginSome(p)
  PROVE  CallersOK' /\ TablesOK'
<1>1. PICK call \in Calls, auth \in Record, models \in SUBSET Model :
           /\ call \in {"result", "pick"} => \E m \in Model : models = {m}
           /\ Begin(p, call, auth, models)
  BY SomeCall
<1> DEFINE c == Begun(call, auth, models)
<1>2. c \in Caller /\ Sound(c)
  BY <1>1, BegunMade
<1>3. process' = [process EXCEPT ![p] = c]
  BY <1>1 DEF Begin, Begun
<1> HIDE DEF c
<1>4. process' \in [Process -> Caller] /\ \A q \in Process : Sound(process'[q])
  BY <1>2, <1>3 DEF CallersOK
<1>5. solo' \in Process \cup {Nobody}
  BY <1>1 DEF Begin
<1>6. settled' \subseteq {"scheduler", "registration", "marks"}
  BY <1>1 DEF Begin, CallersOK
<1>7. TablesOK'
  BY <1>1 DEF Begin, TablesOK
<1> QED BY <1>4, <1>5, <1>6, <1>7 DEF CallersOK

(* A step that goes on with changed fields, or returns. *)
LEMMA GoesOnOK ==
  ASSUME CallersOK, NEW p \in Process, NEW step \in Steps, At(p, step),
         NEW t \in Seq(Steps), NEW auth \in Record, NEW held \in Record,
         NEW live \in BOOLEAN, NEW models \in SUBSET Model,
         process[p].call \in {"result", "pick"} => models = process[p].models,
         Fitting(t, process[p].call),
         Continue(p, Made(process[p], t, auth, held, live, models))
  PROVE  CallersOK'
<1> DEFINE local == Made(process[p], t, auth, held, live, models)
<1>1. local \in Caller /\ Sound(local)
  BY AtFacts, MadeOK
<1>2. Continue(p, local)
  OBVIOUS
<1> HIDE DEF local
<1> QED BY <1>1, <1>2, ContinueOK

(* What Get makes of the credential. *)
Gotten(call, auth) ==
  CASE call = "modify" ->
          IF record.present /\ (~record.disabled /\ ~auth.disabled) /\ auth.states = NoStates
          THEN [auth EXCEPT !.states = record.states]
          ELSE auth
    [] call = "remove"  -> [record EXCEPT !.disabled = TRUE]
    [] call = "toggle"  -> [record EXCEPT !.disabled = auth.disabled]
    [] call = "catalog" -> Enabling(record)
    [] call = "refresh" -> record
LEMMA GottenOK ==
  ASSUME record \in Record, NEW auth \in Record
  PROVE  /\ Gotten("modify", auth) \in Record
         /\ auth.present => Gotten("modify", auth).present
         /\ Gotten("remove", auth) \in Record /\ Gotten("remove", auth).disabled
         /\ Gotten("remove", auth).present = record.present
         /\ Gotten("toggle", auth) \in Record
         /\ Gotten("toggle", auth).present = record.present
         /\ Gotten("toggle", auth).states = record.states
         /\ Gotten("catalog", auth) = Enabling(record) /\ Enabling(record) \in Record
         /\ Gotten("refresh", auth) = record
<1>1. Gotten("modify", auth) \in Record /\ (auth.present => Gotten("modify", auth).present)
  BY TakingStatesOK DEF Gotten
<1>2. Gotten("remove", auth) \in Record /\ Gotten("remove", auth).disabled
      /\ Gotten("remove", auth).present = record.present
  <2>1. ASSUME NEW v \in BOOLEAN
        PROVE  [record EXCEPT !.disabled = v] \in Record
               /\ [record EXCEPT !.disabled = v].disabled = v
               /\ [record EXCEPT !.disabled = v].present = record.present
    BY DisablingOK
  <2>2. Gotten("remove", auth) = [record EXCEPT !.disabled = TRUE]
    BY DEF Gotten
  <2> QED BY <2>1, <2>2
<1>3. /\ Gotten("toggle", auth) \in Record
      /\ Gotten("toggle", auth).present = record.present
      /\ Gotten("toggle", auth).states = record.states
  BY RecordFields, DisablingOK DEF Gotten
<1>4. Gotten("catalog", auth) = Enabling(record) /\ Enabling(record) \in Record
  BY EnablingOK DEF Gotten
<1>5. Gotten("refresh", auth) = record
  BY DEF Gotten
<1> QED BY <1>1, <1>2, <1>3, <1>4, <1>5

(* The caller of each step goes on with these fields, or returns. *)
LEMMA GetStep ==
  ASSUME CallersOK, TablesOK, NEW p \in Process, Get(p)
  PROVE  /\ At(p, "get") /\ UNCHANGED <<record, entry, serves, marks>>
         /\ LET c == process[p] IN
            IF \/ c.call \in {"remove", "toggle", "refresh"} /\ ~record.present
               \/ c.call = "catalog" /\ (~record.present \/ record.disabled)
            THEN Return(p)
            ELSE Continue(p, Made(c, Rest(p), Gotten(c.call, c.auth), c.held, c.live, c.models))
<1> DEFINE c == process[p]
           g == Gotten(c.call, c.auth)
<1>1. At(p, "get") /\ UNCHANGED <<record, entry, serves, marks>>
  BY DEF Get
<1>2. c \in Caller /\ Rest(p) \in Seq(Steps)
      /\ c.call \in {"modify", "remove", "toggle", "catalog", "refresh"}
  BY <1>1, AtFacts, StepsAre DEF Fits, Modifying
<1>3. IF \/ c.call \in {"remove", "toggle", "refresh"} /\ ~record.present
         \/ c.call = "catalog" /\ (~record.present \/ record.disabled)
      THEN Return(p)
      ELSE Continue(p, [c EXCEPT !.todo = Rest(p), !.auth = g])
  <2>1. CASE c.call = "modify"
    BY <2>1 DEF Get, Gotten
  <2>2. CASE c.call = "remove"
    BY <2>2 DEF Get, Gotten
  <2>3. CASE c.call = "toggle"
    BY <2>3 DEF Get, Gotten
  <2>4. CASE c.call = "catalog"
    BY <2>4 DEF Get, Gotten
  <2>5. CASE c.call = "refresh"
    BY <2>5 DEF Get, Gotten
  <2> QED BY <1>2, <2>1, <2>2, <2>3, <2>4, <2>5
<1>4. [c EXCEPT !.todo = Rest(p), !.auth = g]
        = Made(c, Rest(p), g, c.held, c.live, c.models)
  <2> HIDE DEF c, g
  <2> QED BY <1>2, AuthMade
<1> QED BY <1>1, <1>3, <1>4

LEMMA PublishStep ==
  ASSUME CallersOK, TablesOK, NEW p \in Process, Publish(p)
  PROVE  /\ At(p, "publish") /\ UNCHANGED <<record, serves, marks>>
         /\ entry' = EntryOf(IF process[p].live THEN record ELSE process[p].held)
         /\ Continue(p, Made(process[p], Rest(p), process[p].auth, NoRecord,
                             FALSE, process[p].models))
<1>1. At(p, "publish")
  BY DEF Publish
<1>2. process[p] \in Caller /\ Rest(p) \in Seq(Steps)
  BY <1>1, AtFacts, StepsAre
<1> QED BY <1>1, <1>2, PublishedMade DEF Publish

LEMMA RegisterStep ==
  ASSUME CallersOK, TablesOK, NEW p \in Process, NEW offer \in SUBSET Model, Register(p, offer)
  PROVE  /\ At(p, "register") /\ UNCHANGED <<record, entry>>
         /\ RegisterModels(process[p].auth, offer)
         /\ Continue(p, Made(process[p], Rest(p), NoRecord, process[p].held,
                             process[p].live, process[p].models))
<1>1. At(p, "register")
  BY DEF Register
<1>2. process[p] \in Caller /\ Rest(p) \in Seq(Steps)
  BY <1>1, AtFacts, StepsAre
<1> QED BY <1>1, <1>2, AuthMade DEF Register

LEMMA UnregisterStep ==
  ASSUME CallersOK, TablesOK, NEW p \in Process, Unregister(p)
  PROVE  /\ At(p, "unregister") /\ UNCHANGED <<record, entry>> /\ UnregisterModels
         /\ Continue(p, Made(process[p], Rest(p), process[p].auth, process[p].held,
                             process[p].live, process[p].models))
<1>1. At(p, "unregister")
  BY DEF Unregister
<1>2. process[p] \in Caller /\ Rest(p) \in Seq(Steps)
  BY <1>1, AtFacts, StepsAre
<1> QED BY <1>1, <1>2, TodoMade DEF Unregister

LEMMA ReadSupportedStep ==
  ASSUME CallersOK, TablesOK, NEW p \in Process, ReadSupported(p)
  PROVE  /\ At(p, "supported") /\ UNCHANGED <<record, entry, serves, marks>>
         /\ Continue(p, Made(process[p], Rest(p), process[p].auth, process[p].held,
                             process[p].live, serves))
<1>1. At(p, "supported")
  BY DEF ReadSupported
<1>2. process[p] \in Caller /\ Rest(p) \in Seq(Steps)
  BY <1>1, AtFacts, StepsAre
<1> QED BY <1>1, <1>2, ModelsMade DEF ReadSupported

LEMMA RefreshFailedStep ==
  ASSUME CallersOK, TablesOK, NEW p \in Process, RefreshFailed(p)
  PROVE  /\ At(p, "refreshed") /\ UNCHANGED <<record, serves, marks>>
         /\ entry' = EntryOf(record)
         /\ Continue(p, Made(process[p], <<>>, process[p].auth, process[p].held,
                             process[p].live, process[p].models))
<1>1. At(p, "refreshed")
  BY DEF RefreshFailed
<1>2. process[p] \in Caller /\ Rest(p) \in Seq(Steps)
  BY <1>1, AtFacts, StepsAre
<1>3. <<>> \in Seq(Steps)
  OBVIOUS
<1> QED BY <1>1, <1>2, <1>3, TodoMade DEF RefreshFailed

LEMMA RefreshSucceededStep ==
  ASSUME CallersOK, TablesOK, NEW p \in Process, RefreshSucceeded(p)
  PROVE  /\ At(p, "refreshed") /\ UNCHANGED <<record, entry, serves, marks>>
         /\ Continue(p, Made(process[p], <<"update", "publish">>, process[p].auth, process[p].held,
                             process[p].live, process[p].models))
<1>1. At(p, "refreshed")
  BY DEF RefreshSucceeded
<1>2. process[p] \in Caller /\ Rest(p) \in Seq(Steps)
  BY <1>1, AtFacts, StepsAre
<1>3. <<"update", "publish">> \in Seq(Steps)
  BY DEF Steps
<1> QED BY <1>1, <1>2, <1>3, TodoMade DEF RefreshSucceeded

LEMMA ReportFailureStep ==
  ASSUME CallersOK, TablesOK, NEW p \in Process, ReportFailure(p)
  PROVE  /\ At(p, "suspend") /\ UNCHANGED <<record, entry, serves>>
         /\ marks' = Suspended(ModelOf(p))
         /\ Continue(p, Made(process[p], Rest(p), process[p].auth, process[p].held,
                             process[p].live, process[p].models))
<1>1. At(p, "suspend")
  BY DEF ReportFailure
<1>2. process[p] \in Caller /\ Rest(p) \in Seq(Steps)
  BY <1>1, AtFacts, StepsAre
<1> QED BY <1>1, <1>2, TodoMade DEF ReportFailure

LEMMA ReportSuccessStep ==
  ASSUME CallersOK, TablesOK, NEW p \in Process, ReportSuccess(p)
  PROVE  /\ At(p, "resume") /\ UNCHANGED <<record, entry, serves>>
         /\ marks' = marks \ {ModelOf(p)}
         /\ Continue(p, Made(process[p], Rest(p), process[p].auth, process[p].held,
                             process[p].live, process[p].models))
<1>1. At(p, "resume")
  BY DEF ReportSuccess
<1>2. process[p] \in Caller /\ Rest(p) \in Seq(Steps)
  BY <1>1, AtFacts, StepsAre
<1> QED BY <1>1, <1>2, TodoMade DEF ReportSuccess

LEMMA PickAgainStep ==
  ASSUME CallersOK, TablesOK, NEW p \in Process, PickAgain(p)
  PROVE  /\ At(p, "pickAgain") /\ UNCHANGED <<record, entry, serves, marks>>
         /\ Continue(p, Made(process[p], Rest(p), process[p].auth, process[p].held,
                             process[p].live, process[p].models))
<1>1. At(p, "pickAgain")
  BY DEF PickAgain
<1>2. process[p] \in Caller /\ Rest(p) \in Seq(Steps)
  BY <1>1, AtFacts, StepsAre
<1> QED BY <1>1, <1>2, TodoMade DEF PickAgain

LEMMA ReconcileStep ==
  ASSUME CallersOK, TablesOK, NEW p \in Process, Reconcile(p)
  PROVE  /\ At(p, "reconcile") /\ UNCHANGED <<entry, serves, marks>>
         /\ record' = Reconciled(record, process[p].models)
         /\ LET t == IF record' = record THEN Tail(Rest(p)) ELSE Rest(p)
                held == IF record' = record THEN NoRecord ELSE Blocking(record')
            IN  t \in Seq(Steps) =>
                  Continue(p, Made(process[p], t, process[p].auth, held, process[p].live, {}))
<1> DEFINE t == IF record' = record THEN Tail(Rest(p)) ELSE Rest(p)
           held == IF record' = record THEN NoRecord ELSE Blocking(record')
<1>1. At(p, "reconcile") /\ UNCHANGED <<entry, serves, marks>>
      /\ record' = Reconciled(record, process[p].models)
      /\ Continue(p, [process[p] EXCEPT !.todo = t, !.held = held, !.models = {}])
  BY DEF Reconcile
<1>2. process[p] \in Caller
  BY <1>1, AtFacts, StepsAre
<1> HIDE DEF t, held
<1>3. ASSUME t \in Seq(Steps)
      PROVE  Continue(p, Made(process[p], t, process[p].auth, held, process[p].live, {}))
  <2>1. [process[p] EXCEPT !.todo = t, !.held = held, !.models = {}]
          = Made(process[p], t, process[p].auth, held, process[p].live, {})
    BY <1>2, <1>3, ReconciledMade
  <2> QED BY <1>1, <2>1
<1> QED BY <1>1, <1>3 DEF t, held

LEMMA LatestStep ==
  ASSUME CallersOK, TablesOK, NEW p \in Process, Latest(p)
  PROVE  /\ At(p, "latest") /\ UNCHANGED <<record, entry, serves, marks>>
         /\ \E t \in Seq(Steps) :
              /\ t = IF ~record.present \/ record.disabled
                     THEN <<"unregister", "clone", "publish">>
                     ELSE <<"register", "supported", "reconcile", "publish",
                            "clone", "publish">>
              /\ Continue(p, Made(process[p], t, Enabling(record), process[p].held,
                                  process[p].live, process[p].models))
<1> DEFINE t == IF ~record.present \/ record.disabled
                THEN <<"unregister", "clone", "publish">>
                ELSE <<"register", "supported", "reconcile", "publish", "clone", "publish">>
<1>1. At(p, "latest") /\ UNCHANGED <<record, entry, serves, marks>>
      /\ Continue(p, [process[p] EXCEPT !.todo = t, !.auth = Enabling(record)])
  BY DEF Latest
<1>2. process[p] \in Caller /\ t \in Seq(Steps)
  <2>1. /\ <<"unregister", "clone", "publish">> \in Seq(Steps)
        /\ <<"register", "supported", "reconcile", "publish", "clone", "publish">> \in Seq(Steps)
    BY DEF Steps
  <2> QED BY <1>1, <2>1, AtFacts, StepsAre
<1>3. \E s \in Seq(Steps) : s = t /\ Continue(p, [process[p] EXCEPT !.todo = s, !.auth = Enabling(record)])
  BY <1>1, <1>2
<1> HIDE DEF t
<1>4. [process[p] EXCEPT !.todo = t, !.auth = Enabling(record)]
        = Made(process[p], t, Enabling(record), process[p].held, process[p].live,
               process[p].models)
  BY <1>2, AuthMade
<1>5. Continue(p, Made(process[p], t, Enabling(record), process[p].held, process[p].live,
                       process[p].models))
  BY <1>3, <1>4
<1> QED BY <1>1, <1>2, <1>5 DEF t

LEMMA CloneStep ==
  ASSUME CallersOK, TablesOK, NEW p \in Process, Clone(p)
  PROVE  /\ At(p, "clone") /\ UNCHANGED <<record, entry, serves, marks>>
         /\ IF record.present
            THEN Continue(p, Made(process[p], Rest(p), process[p].auth, Blocking(record),
                                  process[p].live, process[p].models))
            ELSE Return(p)
<1>1. At(p, "clone")
  BY DEF Clone
<1>2. process[p] \in Caller /\ Rest(p) \in Seq(Steps)
  BY <1>1, AtFacts, StepsAre
<1> QED BY <1>1, <1>2, HeldMade DEF Clone

LEMMA PickStep ==
  ASSUME CallersOK, TablesOK, NEW p \in Process, Pick(p)
  PROVE  /\ At(p, "pick") /\ UNCHANGED <<record, entry, serves, marks>>
         /\ \/ Return(p)
            \/ \E t \in Seq(Steps) :
                 /\ t = IF record.present THEN <<"clone", "publish", "pickAgain">>
                        ELSE <<"pickAgain">>
                 /\ Continue(p, Made(process[p], t, process[p].auth, process[p].held,
                                     process[p].live, process[p].models))
<1> DEFINE t == IF record.present THEN <<"clone", "publish", "pickAgain">>
                ELSE <<"pickAgain">>
<1>1. At(p, "pick") /\ UNCHANGED <<record, entry, serves, marks>>
      /\ (Return(p) \/ Continue(p, [process[p] EXCEPT !.todo = t]))
  BY DEF Pick
<1>2. process[p] \in Caller /\ t \in Seq(Steps)
  <2>1. /\ <<"clone", "publish", "pickAgain">> \in Seq(Steps)
        /\ <<"pickAgain">> \in Seq(Steps)
    BY DEF Steps
  <2> QED BY <1>1, <2>1, AtFacts, StepsAre
<1>3. Return(p) \/ \E s \in Seq(Steps) : s = t /\ Continue(p, [process[p] EXCEPT !.todo = s])
  BY <1>1, <1>2
<1> HIDE DEF t
<1>4. [process[p] EXCEPT !.todo = t]
        = Made(process[p], t, process[p].auth, process[p].held, process[p].live,
               process[p].models)
  BY <1>2, TodoMade
<1>5. Return(p) \/ Continue(p, Made(process[p], t, process[p].auth, process[p].held,
                                    process[p].live, process[p].models))
  BY <1>3, <1>4
<1> QED BY <1>1, <1>2, <1>5 DEF t

LEMMA RecordResultStep ==
  ASSUME CallersOK, TablesOK, NEW p \in Process, NEW outcome \in Outcomes,
         RecordResult(p, outcome)
  PROVE  /\ At(p, "record") /\ UNCHANGED <<entry, serves, marks>>
         /\ record' = Marked(record, ModelOf(p), outcome)
         /\ Continue(p, Made(process[p], Reports(outcome), process[p].auth, Blocking(record'),
                             process[p].live, process[p].models))
<1> DEFINE t == Reports(outcome)
           held == Blocking(record')
<1>1. At(p, "record") /\ UNCHANGED <<entry, serves, marks>>
      /\ record' = Marked(record, ModelOf(p), outcome)
      /\ Continue(p, [process[p] EXCEPT !.todo = t, !.held = held])
  BY DEF RecordResult
<1>2. process[p] \in Caller /\ t \in Seq(Steps)
  BY <1>1, AtFacts, StepsAre, ReportsOK
<1> HIDE DEF t, held
<1>3. [process[p] EXCEPT !.todo = t, !.held = held]
        = Made(process[p], t, process[p].auth, held, process[p].live, process[p].models)
  BY <1>2, HeldMade
<1>4. Continue(p, Made(process[p], t, process[p].auth, held, process[p].live, process[p].models))
  BY <1>1, <1>3
<1> QED BY <1>1, <1>4 DEF t, held

LEMMA UpdateStep ==
  ASSUME CallersOK, TablesOK, NEW p \in Process, Update(p)
  PROVE  /\ At(p, "update") /\ UNCHANGED <<entry, serves, marks, solo, settled>>
         /\ record' = Stored(process[p].auth)
         /\ process' = [q \in Process |->
              IF q = p
              THEN Made(process[p], Rest(p), Enabling(process[p].auth), process[p].held,
                        TRUE, process[p].models)
              ELSE IF process[q].live
              THEN Made(process[q], process[q].todo, process[q].auth, Blocking(record),
                        FALSE, process[q].models)
              ELSE process[q]]
<1>1. At(p, "update") /\ UNCHANGED <<entry, serves, marks, solo, settled>>
      /\ record' = Stored(process[p].auth)
  BY DEF Update
<1>2. process[p] \in Caller /\ Rest(p) \in Seq(Steps)
  BY <1>1, AtFacts, StepsAre
<1>3. process' = [q \in Process |->
        IF q = p THEN [process[p] EXCEPT !.todo = Rest(p), !.live = TRUE,
                                         !.auth = Enabling(process[p].auth)]
        ELSE IF process[q].live
        THEN [process[q] EXCEPT !.live = FALSE, !.held = Blocking(record)]
        ELSE process[q]]
  BY <1>2, CallerFields DEF Update
<1>4. [process[p] EXCEPT !.todo = Rest(p), !.live = TRUE, !.auth = Enabling(process[p].auth)]
        = Made(process[p], Rest(p), Enabling(process[p].auth), process[p].held,
               TRUE, process[p].models)
  BY <1>2, StoredMade
<1>5. \A q \in Process : [process[q] EXCEPT !.live = FALSE, !.held = Blocking(record)]
        = Made(process[q], process[q].todo, process[q].auth, Blocking(record),
               FALSE, process[q].models)
  BY BereftMade DEF CallersOK
<1> QED BY <1>1, <1>3, <1>4, <1>5

-----------------------------------------------------------------------------
(* Every other action keeps the types. *)
LEMMA Kept ==
  ASSUME TablesOK, UNCHANGED <<record, entry, serves, marks>>
  PROVE  TablesOK'
BY DEF TablesOK

LEMMA CallerOK ==
  ASSUME CallersOK, TablesOK, NEW p \in Process, NEW step \in Steps, At(p, step)
  PROVE  /\ process[p].auth \in Record /\ process[p].held \in Record
         /\ process[p].live \in BOOLEAN /\ process[p].models \in SUBSET Model
         /\ Rest(p) \in Seq(Steps) /\ record \in Record /\ serves \in SUBSET Model
         /\ Fitting(Rest(p), process[p].call)
BY AtFacts, RestFits, CallerFields DEF TablesOK

LEMMA GetTyped ==
  ASSUME CallersOK, TablesOK, NEW p \in Process, Get(p)
  PROVE  CallersOK' /\ TablesOK'
<1> DEFINE c == process[p]
           g == Gotten(c.call, c.auth)
<1>1. /\ At(p, "get") /\ UNCHANGED <<record, entry, serves, marks>>
      /\ Return(p) \/ Continue(p, Made(c, Rest(p), g, c.held, c.live, c.models))
  BY GetStep
<1>2. TablesOK'
  BY <1>1, Kept
<1>3. c.call \in {"modify", "remove", "toggle", "catalog", "refresh"}
  BY <1>1, AtFacts, StepsAre DEF Fits, Modifying
<1>4. c.auth \in Record /\ record \in Record
  BY <1>1, CallerOK, StepsAre
<1>5. g \in Record
  <2> HIDE DEF c
  <2> QED BY <1>3, <1>4, GottenOK
<1> HIDE DEF g
<1>6. CallersOK'
  BY <1>1, <1>5, CallerOK, ReturnOK, GoesOnOK, StepsAre
<1> QED BY <1>2, <1>6

LEMMA UpdateTyped ==
  ASSUME CallersOK, TablesOK, NEW p \in Process, Update(p)
  PROVE  CallersOK' /\ TablesOK'
<1>1. At(p, "update") /\ record' = Stored(process[p].auth)
      /\ UNCHANGED <<entry, serves, marks, solo, settled>>
  BY UpdateStep
<1>2. /\ process[p].auth \in Record /\ process[p].held \in Record
      /\ process[p].models \in SUBSET Model /\ process[p].call # "none"
      /\ process[p] \in Caller /\ Sound(process[p])
      /\ Rest(p) \in Seq(Steps) /\ record \in Record
      /\ Fitting(Rest(p), process[p].call)
  BY <1>1, CallerOK, AtFacts, StepsAre
<1>3. TablesOK'
  BY <1>1, <1>2, StoredOK DEF TablesOK
<1> DEFINE own == Made(process[p], Rest(p), Enabling(process[p].auth), process[p].held,
                       TRUE, process[p].models)
           other(q) == Made(process[q], process[q].todo, process[q].auth, Blocking(record),
                            FALSE, process[q].models)
<1>4. own \in Caller /\ Sound(own)
  <2> DEFINE yes == TRUE
  <2>1. yes \in BOOLEAN
    OBVIOUS
  <2> HIDE DEF yes
  <2>2. Enabling(process[p].auth) \in Record
    BY <1>2, EnablingOK
  <2>3. LET made == Made(process[p], Rest(p), Enabling(process[p].auth), process[p].held,
                         yes, process[p].models)
        IN  made \in Caller /\ Sound(made)
    BY <1>2, <2>1, <2>2, MadeOK
  <2> QED BY <2>3 DEF yes
<1>5. ASSUME NEW q \in Process, process[q].live
      PROVE  other(q) \in Caller /\ Sound(other(q))
  <2> DEFINE no == FALSE
  <2>1. no \in BOOLEAN
    OBVIOUS
  <2> HIDE DEF no
  <2>2. process[q] \in Caller /\ Sound(process[q]) /\ process[q].call # "none"
    <3>1. process[q] \in Caller /\ Sound(process[q])
      BY DEF CallersOK
    <3>2. ~Idle.live
      BY DEF Idle
    <3> QED BY <1>5, <3>1, <3>2 DEF Sound
  <2>3. /\ process[q].todo \in Seq(Steps) /\ process[q].auth \in Record
        /\ Blocking(record) \in Record /\ process[q].models \in SUBSET Model
        /\ Fitting(process[q].todo, process[q].call)
    BY <1>2, <2>2, CallerFields, BlockingOK DEF Sound
  <2>4. LET made == Made(process[q], process[q].todo, process[q].auth, Blocking(record),
                         no, process[q].models)
        IN  made \in Caller /\ Sound(made)
    BY <2>1, <2>2, <2>3, MadeOK
  <2> QED BY <2>4 DEF no
<1>6. process' = [q \in Process |-> IF q = p THEN own
                                    ELSE IF process[q].live THEN other(q) ELSE process[q]]
  BY UpdateStep
<1> HIDE DEF own, other
<1>7. process' \in [Process -> Caller] /\ \A q \in Process : Sound(process'[q])
  BY <1>4, <1>5, <1>6 DEF CallersOK
<1>8. CallersOK'
  BY <1>1, <1>7 DEF CallersOK
<1> QED BY <1>3, <1>8

LEMMA PublishTyped ==
  ASSUME CallersOK, TablesOK, NEW p \in Process, Publish(p)
  PROVE  CallersOK' /\ TablesOK'
<1> DEFINE no == FALSE
<1>1. /\ At(p, "publish") /\ UNCHANGED <<record, serves, marks>>
      /\ entry' = EntryOf(IF process[p].live THEN record ELSE process[p].held)
      /\ Continue(p, Made(process[p], Rest(p), process[p].auth, NoRecord, no,
                          process[p].models))
  BY PublishStep
<1>2. no \in BOOLEAN
  OBVIOUS
<1> HIDE DEF no
<1>3. CallersOK'
  BY <1>1, <1>2, CallerOK, GoesOnOK, StepsAre, SimpleRecords
<1>4. entry' \in Entry
  BY <1>1, CallerOK, EntryOfOK, StepsAre
<1> QED BY <1>1, <1>3, <1>4 DEF TablesOK

LEMMA RegisterTyped ==
  ASSUME CallersOK, TablesOK, NEW p \in Process, NEW offer \in SUBSET Model,
         Register(p, offer)
  PROVE  CallersOK' /\ TablesOK'
<1>1. /\ At(p, "register") /\ UNCHANGED <<record, entry>>
      /\ RegisterModels(process[p].auth, offer)
      /\ Continue(p, Made(process[p], Rest(p), NoRecord, process[p].held, process[p].live,
                          process[p].models))
  BY RegisterStep
<1>2. CallersOK'
  BY <1>1, CallerOK, GoesOnOK, StepsAre, SimpleRecords
<1>3. serves' \subseteq Model /\ marks' \subseteq serves'
  BY <1>1 DEF RegisterModels, UnregisterModels
<1> QED BY <1>1, <1>2, <1>3 DEF TablesOK

LEMMA UnregisterTyped ==
  ASSUME CallersOK, TablesOK, NEW p \in Process, Unregister(p)
  PROVE  CallersOK' /\ TablesOK'
<1>1. /\ At(p, "unregister") /\ UNCHANGED <<record, entry>> /\ UnregisterModels
      /\ Continue(p, Made(process[p], Rest(p), process[p].auth, process[p].held,
                          process[p].live, process[p].models))
  BY UnregisterStep
<1>2. CallersOK'
  BY <1>1, CallerOK, GoesOnOK, StepsAre
<1> QED BY <1>1, <1>2 DEF TablesOK, UnregisterModels

LEMMA ReadSupportedTyped ==
  ASSUME CallersOK, TablesOK, NEW p \in Process, ReadSupported(p)
  PROVE  CallersOK' /\ TablesOK'
<1>1. /\ At(p, "supported") /\ UNCHANGED <<record, entry, serves, marks>>
      /\ Continue(p, Made(process[p], Rest(p), process[p].auth, process[p].held,
                          process[p].live, serves))
  BY ReadSupportedStep
<1>2. process[p].call \notin {"result", "pick"}
  BY <1>1, AtFacts, StepsAre DEF Fits
<1>3. CallersOK'
  BY <1>1, <1>2, CallerOK, GoesOnOK, StepsAre
<1> QED BY <1>1, <1>3, Kept

LEMMA ReconcileTyped ==
  ASSUME CallersOK, TablesOK, NEW p \in Process, Reconcile(p)
  PROVE  CallersOK' /\ TablesOK'
<1> DEFINE rest == Rest(p)
           t == IF record' = record THEN Tail(rest) ELSE rest
           held == IF record' = record THEN NoRecord ELSE Blocking(record')
           none == {}
<1>1. /\ At(p, "reconcile") /\ UNCHANGED <<entry, serves, marks>>
      /\ record' = Reconciled(record, process[p].models)
      /\ t \in Seq(Steps) =>
           Continue(p, Made(process[p], t, process[p].auth, held, process[p].live, none))
  BY ReconcileStep
<1>2. record' \in Record
  BY <1>1, CallerOK, ReconciledOK, StepsAre
<1>3. process[p].call \notin {"result", "pick"}
  BY <1>1, AtFacts, StepsAre DEF Fits
<1>4. rest \in Seq(Steps) /\ Fitting(rest, process[p].call) /\ rest # <<>>
  <2>1. rest \in Seq(Steps) /\ Fitting(rest, process[p].call)
    BY <1>1, CallerOK, StepsAre
  <2>2. /\ process[p].todo \in Seq(Steps) /\ process[p].todo # <<>>
        /\ process[p].todo[1] = "reconcile" /\ Fitting(process[p].todo, process[p].call)
    BY <1>1, AtFacts, CallerFields, StepsAre DEF Sound
  <2>3. 1 + 1 \in DOMAIN process[p].todo
    BY <2>2 DEF Fitting
  <2>4. rest # <<>>
    BY <2>2, <2>3, SomethingLeft DEF Rest
  <2> QED BY <2>1, <2>4
<1>5. Tail(rest) \in Seq(Steps) /\ Fitting(Tail(rest), process[p].call)
  <2> HIDE DEF rest
  <2> QED BY <1>4, RestOfSteps DEF Fitting
<1>6. t \in Seq(Steps) /\ Fitting(t, process[p].call)
  BY <1>4, <1>5
<1>7. held \in Record /\ none \in SUBSET Model
  BY <1>2, BlockingOK, SimpleRecords
<1> HIDE DEF t, held, none
<1>8. CallersOK'
  BY <1>1, <1>3, <1>6, <1>7, CallerOK, GoesOnOK, StepsAre
<1> QED BY <1>1, <1>2, <1>8 DEF TablesOK

LEMMA LatestTyped ==
  ASSUME CallersOK, TablesOK, NEW p \in Process, Latest(p)
  PROVE  CallersOK' /\ TablesOK'
<1>1. At(p, "latest") /\ UNCHANGED <<record, entry, serves, marks>>
  BY LatestStep
<1>2. PICK t \in Seq(Steps) :
        /\ t = IF ~record.present \/ record.disabled
               THEN <<"unregister", "clone", "publish">>
               ELSE <<"register", "supported", "reconcile", "publish", "clone", "publish">>
        /\ Continue(p, Made(process[p], t, Enabling(record), process[p].held,
                            process[p].live, process[p].models))
  BY LatestStep
<1>3. process[p].call \notin {"result", "pick"}
  BY <1>1, AtFacts, StepsAre DEF Fits
<1>4. \A i \in DOMAIN t :
        /\ t[i] \in {"unregister", "clone", "publish", "register", "supported", "reconcile"}
        /\ t[i] = "reconcile" => i + 1 \in DOMAIN t
  <2>1. CASE t = <<"unregister", "clone", "publish">>
    BY <2>1
  <2>2. CASE t = <<"register", "supported", "reconcile", "publish", "clone", "publish">>
    BY <2>2
  <2> QED BY <1>2, <2>1, <2>2
<1>5. Fitting(t, process[p].call)
  BY <1>3, <1>4 DEF Fitting, Fits
<1>6. CallersOK'
  BY <1>1, <1>2, <1>5, CallerOK, EnablingOK, GoesOnOK, StepsAre
<1> QED BY <1>1, <1>6, Kept

LEMMA CloneTyped ==
  ASSUME CallersOK, TablesOK, NEW p \in Process, Clone(p)
  PROVE  CallersOK' /\ TablesOK'
<1>1. /\ At(p, "clone") /\ UNCHANGED <<record, entry, serves, marks>>
      /\ \/ Return(p)
         \/ Continue(p, Made(process[p], Rest(p), process[p].auth, Blocking(record),
                             process[p].live, process[p].models))
  BY CloneStep
<1>2. CallersOK'
  BY <1>1, CallerOK, BlockingOK, ReturnOK, GoesOnOK, StepsAre
<1> QED BY <1>1, <1>2, Kept

LEMMA RefreshTyped ==
  ASSUME CallersOK, TablesOK, NEW p \in Process,
         RefreshCancelled(p) \/ RefreshFailed(p) \/ RefreshSucceeded(p)
  PROVE  CallersOK' /\ TablesOK'
<1>1. CASE RefreshCancelled(p)
  BY <1>1, ReturnOK, Kept DEF RefreshCancelled
<1>2. CASE RefreshFailed(p)
  <2>1. /\ At(p, "refreshed") /\ UNCHANGED <<record, serves, marks>>
        /\ entry' = EntryOf(record)
        /\ Continue(p, Made(process[p], <<>>, process[p].auth, process[p].held,
                            process[p].live, process[p].models))
    BY <1>2, RefreshFailedStep
  <2>2. <<>> \in Seq(Steps) /\ Fitting(<<>>, process[p].call)
    BY DEF Fitting
  <2>3. CallersOK'
    BY <2>1, <2>2, CallerOK, GoesOnOK, StepsAre
  <2>4. entry' \in Entry
    BY <2>1, CallerOK, EntryOfOK, StepsAre
  <2> QED BY <2>1, <2>3, <2>4 DEF TablesOK
<1>3. CASE RefreshSucceeded(p)
  <2> DEFINE t == <<"update", "publish">>
  <2>1. /\ At(p, "refreshed") /\ UNCHANGED <<record, entry, serves, marks>>
        /\ Continue(p, Made(process[p], t, process[p].auth, process[p].held,
                            process[p].live, process[p].models))
    BY <1>3, RefreshSucceededStep
  <2>2. t \in Seq(Steps) /\ \A i \in DOMAIN t : t[i] \in {"update", "publish"}
    BY DEF Steps
  <2> HIDE DEF t
  <2>3. Fitting(t, process[p].call)
    BY <2>2 DEF Fitting, Fits
  <2>4. CallersOK'
    BY <2>1, <2>2, <2>3, CallerOK, GoesOnOK, StepsAre
  <2> QED BY <2>1, <2>4, Kept
<1> QED BY <1>1, <1>2, <1>3

(* The model of a result. *)
LEMMA ModelOfOK ==
  ASSUME NEW p \in Process, NEW m \in Model, process[p].models = {m}
  PROVE  ModelOf(p) = m
BY DEF ModelOf

LEMMA RecordResultTyped ==
  ASSUME CallersOK, TablesOK, NEW p \in Process, NEW outcome \in Outcomes,
         RecordResult(p, outcome)
  PROVE  CallersOK' /\ TablesOK'
<1>1. At(p, "record") /\ UNCHANGED <<entry, serves, marks>>
      /\ record' = Marked(record, ModelOf(p), outcome)
  BY RecordResultStep
<1>2. PICK t \in Seq(Steps) :
        /\ \A i \in DOMAIN t : t[i] \in {"publish", "suspend", "resume"}
        /\ Continue(p, Made(process[p], t, process[p].auth, Blocking(record'),
                            process[p].live, process[p].models))
  BY RecordResultStep, ReportsOK
<1>3. process[p].call = "result" /\ Sound(process[p])
  BY <1>1, AtFacts, StepsAre DEF Fits
<1>4. ModelOf(p) \in Model
  BY <1>3, ModelOfOK DEF Sound
<1>5. record' \in Record
  BY <1>1, <1>4, CallerOK, MarkedOK, StepsAre
<1>6. \A i \in DOMAIN t : t[i] \in {"publish", "suspend", "resume"}
  BY <1>2
<1>7. Fitting(t, process[p].call)
  BY <1>6 DEF Fitting, Fits
<1>8. CallersOK'
  BY <1>1, <1>2, <1>5, <1>7, CallerOK, BlockingOK, GoesOnOK, StepsAre
<1> QED BY <1>1, <1>5, <1>8 DEF TablesOK

LEMMA ReportTyped ==
  ASSUME CallersOK, TablesOK, NEW p \in Process, ReportFailure(p) \/ ReportSuccess(p)
  PROVE  CallersOK' /\ TablesOK'
<1>1. \E step \in {"suspend", "resume"} : At(p, step)
  BY ReportFailureStep, ReportSuccessStep
<1>2. /\ UNCHANGED <<record, entry, serves>> /\ marks' \subseteq serves
      /\ Continue(p, Made(process[p], Rest(p), process[p].auth, process[p].held,
                          process[p].live, process[p].models))
  <2>1. CASE ReportFailure(p)
    BY <2>1, ReportFailureStep DEF Suspended, TablesOK
  <2>2. CASE ReportSuccess(p)
    BY <2>2, ReportSuccessStep DEF TablesOK
  <2> QED BY <2>1, <2>2
<1>3. CallersOK'
  BY <1>1, <1>2, CallerOK, GoesOnOK, StepsAre
<1> QED BY <1>2, <1>3 DEF TablesOK

LEMMA PickTyped ==
  ASSUME CallersOK, TablesOK, NEW p \in Process, Pick(p) \/ PickAgain(p)
  PROVE  CallersOK' /\ TablesOK'
<1>1. CASE Pick(p)
  <2>1. At(p, "pick") /\ UNCHANGED <<record, entry, serves, marks>>
    BY <1>1, PickStep
  <2>2. CASE Return(p)
    BY <2>1, <2>2, ReturnOK, Kept
  <2>3. ASSUME NEW t \in Seq(Steps),
               t = IF record.present THEN <<"clone", "publish", "pickAgain">>
                   ELSE <<"pickAgain">>,
               Continue(p, Made(process[p], t, process[p].auth, process[p].held,
                                process[p].live, process[p].models))
        PROVE  CallersOK'
    <3>1. \A i \in DOMAIN t : t[i] \in {"clone", "publish", "pickAgain"}
      BY <2>3
    <3>2. Fitting(t, process[p].call)
      BY <3>1 DEF Fitting, Fits
    <3> QED BY <2>1, <2>3, <3>2, CallerOK, GoesOnOK, StepsAre
  <2> QED BY <1>1, <2>1, <2>2, <2>3, PickStep, Kept
<1>2. CASE PickAgain(p)
  <2>1. /\ At(p, "pickAgain") /\ UNCHANGED <<record, entry, serves, marks>>
        /\ Continue(p, Made(process[p], Rest(p), process[p].auth, process[p].held,
                            process[p].live, process[p].models))
    BY <1>2, PickAgainStep
  <2>2. CallersOK'
    BY <2>1, CallerOK, GoesOnOK, StepsAre
  <2> QED BY <2>1, <2>2, Kept
<1> QED BY <1>1, <1>2

(* What a goroutine does once it is under way. *)
Acts(p) ==
  \/ Get(p) \/ Update(p) \/ Publish(p)
  \/ \E offer \in SUBSET Model : Register(p, offer)
  \/ Unregister(p) \/ ReadSupported(p) \/ Reconcile(p) \/ Latest(p) \/ Clone(p)
  \/ RefreshCancelled(p) \/ RefreshFailed(p) \/ RefreshSucceeded(p)
  \/ \E outcome \in Outcomes : RecordResult(p, outcome)
  \/ ReportFailure(p) \/ ReportSuccess(p)
  \/ Pick(p) \/ PickAgain(p)

LEMMA NextIs == Next <=> \E p \in Process : BeginSome(p) \/ Acts(p)
BY DEF Next, Acts

LEMMA ActsTyped ==
  ASSUME Typed, NEW p \in Process, BeginSome(p) \/ Acts(p)
  PROVE  Typed'
<1>1. CallersOK /\ TablesOK
  BY TypedParts
<1>2. CallersOK' /\ TablesOK'
  BY <1>1, BeginTyped, GetTyped, UpdateTyped, PublishTyped, RegisterTyped, UnregisterTyped,
     ReadSupportedTyped, ReconcileTyped, LatestTyped, CloneTyped, RefreshTyped,
     RecordResultTyped, ReportTyped, PickTyped DEF Acts
<1> QED BY <1>2 DEF CallersOK, TablesOK, Typed, TypeOK
-----------------------------------------------------------------------------
(* What is fetched is there, and nothing is published before there is      *)
(* anything.                                                               *)
LEMMA IdleCarries == Ordered(Idle) /\ Bringing(Idle) /\ ~Idle.held.present
<1>1. Idle.todo = <<>> /\ ~Idle.held.present
  BY DEF Idle, NoRecord
<1>2. DOMAIN Idle.todo = {}
  BY <1>1
<1> QED BY <1>1, <1>2 DEF Ordered, Bringing

LEMMA GoesOnCarried ==
  ASSUME CallersOK, Carried, Absent, NEW p \in Process, NEW local, Continue(p, local),
         Ordered(local), Bringing(local),
         ~record'.present => ~record.present /\ entry' = NoAuthEntry /\ ~local.held.present
  PROVE  Carried' /\ Absent'
<1>1. \A q \in Process : process'[q] \in {process[q], Idle, local}
  BY DEF CallersOK, Continue
<1>2. Carried'
  BY <1>1, IdleCarries DEF Carried
<1>3. Absent'
  BY <1>1, IdleCarries DEF Absent
<1> QED BY <1>2, <1>3

LEMMA ReturnCarried ==
  ASSUME CallersOK, Carried, Absent, NEW p \in Process, Return(p), UNCHANGED <<record, entry>>
  PROVE  Carried' /\ Absent'
<1>1. \A q \in Process : process'[q] \in {process[q], Idle}
  BY DEF CallersOK, Return
<1>2. Carried'
  BY <1>1, IdleCarries DEF Carried
<1>3. Absent'
  BY <1>1, IdleCarries DEF Absent
<1> QED BY <1>2, <1>3

LEMMA RestCarried ==
  ASSUME CallersOK, Carried, NEW p \in Process, NEW step \in Steps, At(p, step),
         NEW c, c.todo = Rest(p), c.call = process[p].call,
         step = "get" /\ c.call # "catalog" => c.auth.present
  PROVE  Ordered(c) /\ Bringing(c)
<1>1. process[p].todo \in Seq(Steps) /\ process[p].todo # <<>> /\ process[p].todo[1] = step
  BY AtFacts, CallerFields
<1>2. /\ Rest(p) \in Seq(Steps)
      /\ \A i \in DOMAIN Rest(p) :
           i + 1 \in DOMAIN process[p].todo /\ Rest(p)[i] = process[p].todo[i + 1]
  BY <1>1, RestOfSteps DEF Rest
<1>3. Ordered(process[p])
  BY DEF Carried
<1>4. Ordered(c)
  BY <1>2, <1>3 DEF Ordered
<1>5. ASSUME Rest(p) # <<>>
      PROVE  /\ Head(Rest(p)) \in {"update", "refreshed"} => step = "get" /\ c.call # "catalog"
             /\ Head(Rest(p)) = "get" => c.call = "remove"
  <2>1. 1 \in DOMAIN Rest(p) /\ Head(Rest(p)) = Rest(p)[1]
    BY <1>2, <1>5
  <2>2. 1 + 1 \in DOMAIN process[p].todo /\ Head(Rest(p)) = process[p].todo[1 + 1]
    BY <1>2, <2>1
  <2>3. 1 \in DOMAIN process[p].todo
    BY <1>1
  <2> QED BY <1>1, <1>3, <2>2, <2>3 DEF Ordered
<1>6. Bringing(c)
  BY <1>5 DEF Bringing
<1> QED BY <1>4, <1>6

(* A step that neither fetches nor stores, and whose caller then holds a   *)
(* credential only if there is one.                                        *)
LEMMA StepCarried ==
  ASSUME CallersOK, TablesOK, Carried, Absent, NEW p \in Process,
         NEW step \in Steps \ {"get"}, At(p, step),
         NEW auth, NEW held, NEW live, NEW models,
         Continue(p, Made(process[p], Rest(p), auth, held, live, models)),
         record'.present = record.present,
         ~record.present => entry' = NoAuthEntry /\ ~held.present
  PROVE  Carried' /\ Absent'
<1> DEFINE local == Made(process[p], Rest(p), auth, held, live, models)
<1>1. local.todo = Rest(p) /\ local.call = process[p].call /\ local.held = held
  BY DEF Made
<1>2. Continue(p, local)
  OBVIOUS
<1> HIDE DEF local
<1>3. Ordered(local) /\ Bringing(local)
  BY <1>1, RestCarried
<1> QED BY <1>1, <1>2, <1>3, GoesOnCarried

(* The same for a step that goes on to something else than to store. *)
LEMMA OtherwiseCarried ==
  ASSUME CallersOK, TablesOK, Carried, Absent, NEW p \in Process, NEW t \in Seq(Steps),
         \A i \in DOMAIN t : t[i] \notin {"update", "refreshed", "get"},
         NEW auth, NEW held, NEW live, NEW models,
         Continue(p, Made(process[p], t, auth, held, live, models)),
         record'.present = record.present,
         ~record.present => entry' = NoAuthEntry /\ ~held.present
  PROVE  Carried' /\ Absent'
<1> DEFINE local == Made(process[p], t, auth, held, live, models)
<1>1. local.todo = t /\ local.held = held
  BY DEF Made
<1>2. Continue(p, local)
  OBVIOUS
<1> HIDE DEF local
<1>3. Ordered(local)
  BY <1>1 DEF Ordered
<1>4. t # <<>> => 1 \in DOMAIN t /\ Head(t) = t[1]
  OBVIOUS
<1>5. Bringing(local)
  BY <1>1, <1>4 DEF Bringing
<1> QED BY <1>1, <1>2, <1>3, <1>5, GoesOnCarried

LEMMA GoneIsEmpty ==
  ASSUME NEW r, ~r.present
  PROVE  EntryOf(r) = NoAuthEntry
BY DEF EntryOf

LEMMA GetCarried ==
  ASSUME CallersOK, TablesOK, Carried, Absent, NEW p \in Process, Get(p)
  PROVE  Carried' /\ Absent'
<1> DEFINE c == process[p]
           g == Gotten(c.call, c.auth)
           local == Made(c, Rest(p), g, c.held, c.live, c.models)
<1>1. At(p, "get") /\ UNCHANGED <<record, entry, serves, marks>>
  BY GetStep
<1>2. CASE Return(p)
  BY <1>1, <1>2, ReturnCarried
<1>3. CASE Continue(p, local) /\ (c.call \in {"remove", "toggle", "refresh"} => record.present)
  <2>1. c.call \in {"modify", "remove", "toggle", "catalog", "refresh"}
    BY <1>1, AtFacts, StepsAre DEF Fits, Modifying
  <2>3. c.call = "modify" => c.auth.present
    BY <1>1 DEF At, Carried, Bringing
  <2>4. c.auth \in Record /\ record \in Record
    BY <1>1, CallerOK, StepsAre
  <2>5. g.present \/ c.call = "catalog"
    <3> HIDE DEF c
    <3> QED BY <1>3, <2>1, <2>3, <2>4, GottenOK
  <2>6. local.todo = Rest(p) /\ local.call = c.call /\ local.auth = g /\ local.held = c.held
    BY DEF Made
  <2>7. Continue(p, local)
    BY <1>3
  <2> HIDE DEF local, g
  <2>8. Ordered(local) /\ Bringing(local)
    BY <1>1, <2>5, <2>6, RestCarried, StepsAre
  <2> QED BY <1>1, <2>6, <2>7, <2>8, GoesOnCarried DEF Absent
<1>4. CASE ~Return(p)
  <2> HIDE DEF local
  <2>1. Continue(p, local) /\ (c.call \in {"remove", "toggle", "refresh"} => record.present)
    BY <1>4, GetStep DEF local
  <2> QED BY <1>3, <2>1
<1> QED BY <1>2, <1>4

LEMMA SameCarried ==
  ASSUME NEW c, NEW d, d.todo = c.todo, d.call = c.call, d.auth = c.auth,
         Ordered(c), Bringing(c)
  PROVE  Ordered(d) /\ Bringing(d)
BY DEF Ordered, Bringing

LEMMA UpdateCarried ==
  ASSUME CallersOK, TablesOK, Carried, Absent, NEW p \in Process, Update(p)
  PROVE  Carried' /\ Absent'
<1> DEFINE own == Made(process[p], Rest(p), Enabling(process[p].auth), process[p].held,
                       TRUE, process[p].models)
           other(q) == Made(process[q], process[q].todo, process[q].auth, Blocking(record),
                            FALSE, process[q].models)
<1>1. At(p, "update") /\ record' = Stored(process[p].auth)
  BY UpdateStep
<1>2. process[p].auth.present
  BY <1>1 DEF At, Carried, Bringing
<1>3. record'.present
  BY <1>1, <1>2, CallerOK, StoredOK, StepsAre
<1>4. own.todo = Rest(p) /\ own.call = process[p].call
  BY DEF Made
<1>5. \A q \in Process : /\ other(q).todo = process[q].todo /\ other(q).call = process[q].call
                         /\ other(q).auth = process[q].auth
  BY DEF Made
<1>6. \A q \in Process : process'[q] = IF q = p THEN own
                                       ELSE IF process[q].live THEN other(q) ELSE process[q]
  BY UpdateStep
<1> HIDE DEF own, other
<1>7. Ordered(own) /\ Bringing(own)
  BY <1>1, <1>4, RestCarried, StepsAre
<1>8. \A q \in Process : Ordered(other(q)) /\ Bringing(other(q))
  BY <1>5, SameCarried DEF Carried
<1>9. Carried'
  BY <1>6, <1>7, <1>8 DEF Carried
<1> QED BY <1>3, <1>9 DEF Absent

LEMMA PublishCarried ==
  ASSUME CallersOK, TablesOK, Carried, Absent, NEW p \in Process, Publish(p)
  PROVE  Carried' /\ Absent'
<1> DEFINE no == FALSE
<1>1. /\ At(p, "publish") /\ UNCHANGED <<record, serves, marks>>
      /\ entry' = EntryOf(IF process[p].live THEN record ELSE process[p].held)
      /\ Continue(p, Made(process[p], Rest(p), process[p].auth, NoRecord, no,
                          process[p].models))
  BY PublishStep
<1> HIDE DEF no
<1>2. ~record.present => entry' = NoAuthEntry
  BY <1>1, GoneIsEmpty DEF Absent
<1>3. ~NoRecord.present
  BY DEF NoRecord
<1> QED BY <1>1, <1>2, <1>3, StepCarried, StepsAre

LEMMA ReconcileCarried ==
  ASSUME CallersOK, TablesOK, Carried, Absent, NEW p \in Process, Reconcile(p)
  PROVE  Carried' /\ Absent'
<1> DEFINE rest == Rest(p)
           t == IF record' = record THEN Tail(rest) ELSE rest
           held == IF record' = record THEN NoRecord ELSE Blocking(record')
           none == {}
<1>1. /\ At(p, "reconcile") /\ UNCHANGED <<entry, serves, marks>>
      /\ record' = Reconciled(record, process[p].models)
      /\ t \in Seq(Steps) =>
           Continue(p, Made(process[p], t, process[p].auth, held, process[p].live, none))
  BY ReconcileStep
<1>2. record' \in Record /\ record'.present = record.present
  BY <1>1, CallerOK, ReconciledOK, StepsAre
<1>3. ~record.present => ~held.present
  BY <1>2, BlockingOK DEF NoRecord
<1>4. process[p].todo \in Seq(Steps) /\ process[p].todo # <<>>
      /\ process[p].todo[1] = "reconcile" /\ 1 + 1 \in DOMAIN process[p].todo
  <2>1. /\ process[p].todo \in Seq(Steps) /\ process[p].todo # <<>>
        /\ process[p].todo[1] = "reconcile" /\ Fitting(process[p].todo, process[p].call)
    BY <1>1, AtFacts, CallerFields, StepsAre DEF Sound
  <2> QED BY <2>1 DEF Fitting
<1>5. rest \in Seq(Steps) /\ rest # <<>>
  BY <1>1, <1>4, CallerOK, SomethingLeft, StepsAre DEF Rest
<1>6. /\ rest[1] # "get" /\ 1 \in DOMAIN rest
      /\ \A i \in DOMAIN rest : i + 1 \in DOMAIN rest =>
           /\ rest[i + 1] \in {"update", "refreshed"} => rest[i] = "get"
           /\ rest[i + 1] = "get" => rest[i] = "unregister" /\ process[p].call = "remove"
  <2>1. \A i \in DOMAIN rest :
           i + 1 \in DOMAIN process[p].todo /\ rest[i] = process[p].todo[i + 1]
    BY <1>4, RestOfSteps DEF Rest
  <2>2. 1 \in DOMAIN rest
    BY <1>5
  <2>3. Ordered(process[p])
    BY DEF Carried
  <2> QED BY <1>4, <2>1, <2>2, <2>3 DEF Ordered
<1>7. ASSUME record' = record
      PROVE  Carried' /\ Absent'
  <2> DEFINE local == Made(process[p], t, process[p].auth, held, process[p].live, none)
  <2>1. t = Tail(rest)
    BY <1>7
  <2>2. /\ t \in Seq(Steps)
        /\ \A i \in DOMAIN t : i + 1 \in DOMAIN rest /\ t[i] = rest[i + 1]
    <3> HIDE DEF rest
    <3> QED BY <1>5, <2>1, RestOfSteps
  <2>3. local.todo = t /\ local.call = process[p].call /\ local.held = held
    BY DEF Made
  <2>4. Continue(p, local)
    BY <1>1, <2>2
  <2> HIDE DEF local, held, t, rest
  <2>5. Ordered(local)
    <3>1. Ordered(process[p])
      BY DEF Carried
    <3>2. ASSUME NEW i \in DOMAIN t, i + 1 \in DOMAIN t
          PROVE  /\ t[i + 1] \in {"update", "refreshed"} => t[i] = "get" /\ process[p].call # "catalog"
                 /\ t[i + 1] = "get" => t[i] = "unregister" /\ process[p].call = "remove"
      <4>1. i + 1 \in DOMAIN rest /\ (i + 1) + 1 \in DOMAIN rest
            /\ t[i] = rest[i + 1] /\ t[i + 1] = rest[(i + 1) + 1]
        BY <2>2, <3>2
      <4>2. t[i + 1] = "get" => t[i] = "unregister" /\ process[p].call = "remove"
        BY <1>6, <4>1
      <4>3. t[i + 1] \in {"update", "refreshed"} => t[i] = "get"
        BY <1>6, <4>1
      <4>4. t[i] = "get" => process[p].call = "remove"
        <5>1. i \in DOMAIN rest
          BY <1>5, <4>1, <2>2
        <5> QED BY <1>6, <4>1, <5>1
      <4> QED BY <4>2, <4>3, <4>4
    <3> QED BY <2>3, <3>2 DEF Ordered
  <2>6. Bringing(local)
    <3>1. ASSUME t # <<>>
          PROVE  /\ Head(t) \notin {"update", "refreshed"}
                 /\ Head(t) = "get" => process[p].call = "remove"
      <4>1. 1 \in DOMAIN t /\ Head(t) = t[1]
        BY <2>2, <3>1
      <4> QED BY <1>6, <2>2, <4>1
    <3> QED BY <2>3, <3>1 DEF Bringing
  <2> QED BY <1>1, <1>2, <1>3, <2>3, <2>4, <2>5, <2>6, GoesOnCarried DEF Absent
<1>8. ASSUME record' # record
      PROVE  Carried' /\ Absent'
  <2>1. Continue(p, Made(process[p], Rest(p), process[p].auth, held, process[p].live, none))
    BY <1>1, <1>5, <1>8
  <2>2. ~record.present => entry' = NoAuthEntry
    BY <1>1 DEF Absent
  <2> HIDE DEF held, none
  <2> QED BY <1>1, <1>2, <1>3, <2>1, <2>2, StepCarried, StepsAre
<1> QED BY <1>7, <1>8

LEMMA LatestCarried ==
  ASSUME CallersOK, TablesOK, Carried, Absent, NEW p \in Process, Latest(p)
  PROVE  Carried' /\ Absent'
<1>1. At(p, "latest") /\ UNCHANGED <<record, entry, serves, marks>>
  BY LatestStep
<1>2. PICK t \in Seq(Steps) :
        /\ t = IF ~record.present \/ record.disabled
               THEN <<"unregister", "clone", "publish">>
               ELSE <<"register", "supported", "reconcile", "publish", "clone", "publish">>
        /\ Continue(p, Made(process[p], t, Enabling(record), process[p].held,
                            process[p].live, process[p].models))
  BY LatestStep
<1>3. \A i \in DOMAIN t : t[i] \notin {"update", "refreshed", "get"}
  <2>1. CASE t = <<"unregister", "clone", "publish">>
    BY <2>1
  <2>2. CASE t = <<"register", "supported", "reconcile", "publish", "clone", "publish">>
    BY <2>2
  <2> QED BY <1>2, <2>1, <2>2
<1> QED BY <1>1, <1>2, <1>3, OtherwiseCarried DEF Absent

LEMMA CloneCarried ==
  ASSUME CallersOK, TablesOK, Carried, Absent, NEW p \in Process, Clone(p)
  PROVE  Carried' /\ Absent'
<1>1. /\ At(p, "clone") /\ UNCHANGED <<record, entry, serves, marks>>
      /\ \/ Return(p)
         \/ /\ record.present
            /\ Continue(p, Made(process[p], Rest(p), process[p].auth, Blocking(record),
                                process[p].live, process[p].models))
  BY CloneStep
<1>2. CASE Return(p)
  BY <1>1, <1>2, ReturnCarried
<1>3. CASE /\ record.present
           /\ Continue(p, Made(process[p], Rest(p), process[p].auth, Blocking(record),
                               process[p].live, process[p].models))
  BY <1>1, <1>3, StepCarried, StepsAre
<1> QED BY <1>1, <1>2, <1>3

LEMMA RefreshCarried ==
  ASSUME CallersOK, TablesOK, Carried, Absent, NEW p \in Process,
         RefreshCancelled(p) \/ RefreshFailed(p) \/ RefreshSucceeded(p)
  PROVE  Carried' /\ Absent'
<1>1. CASE RefreshCancelled(p)
  BY <1>1, ReturnCarried DEF RefreshCancelled
<1>2. CASE RefreshFailed(p)
  <2> DEFINE t == <<>>
  <2>1. /\ At(p, "refreshed") /\ UNCHANGED <<record, serves, marks>>
        /\ entry' = EntryOf(record)
        /\ Continue(p, Made(process[p], t, process[p].auth, process[p].held,
                            process[p].live, process[p].models))
    BY <1>2, RefreshFailedStep
  <2>2. t \in Seq(Steps) /\ \A i \in DOMAIN t : t[i] \notin {"update", "refreshed", "get"}
    OBVIOUS
  <2> HIDE DEF t
  <2> QED BY <2>1, <2>2, OtherwiseCarried, GoneIsEmpty DEF Absent
<1>3. CASE RefreshSucceeded(p)
  <2> DEFINE t == <<"update", "publish">>
             local == Made(process[p], t, process[p].auth, process[p].held,
                           process[p].live, process[p].models)
  <2>1. /\ At(p, "refreshed") /\ UNCHANGED <<record, entry, serves, marks>>
        /\ Continue(p, local)
    BY <1>3, RefreshSucceededStep
  <2>2. local.todo = t /\ local.auth = process[p].auth /\ local.held = process[p].held
    BY DEF Made
  <2>3. t[1] = "update" /\ t[2] = "publish" /\ DOMAIN t = {1, 2}
    OBVIOUS
  <2> HIDE DEF local, t
  <2>4. process[p].auth.present
    BY <2>1 DEF At, Carried, Bringing
  <2>5. Bringing(local)
    BY <2>2, <2>4 DEF Bringing
  <2>6. Ordered(local)
    BY <2>2, <2>3 DEF Ordered
  <2> QED BY <2>1, <2>2, <2>5, <2>6, GoesOnCarried DEF Absent
<1> QED BY <1>1, <1>2, <1>3

LEMMA RecordResultCarried ==
  ASSUME CallersOK, TablesOK, Carried, Absent, NEW p \in Process, NEW outcome \in Outcomes,
         RecordResult(p, outcome)
  PROVE  Carried' /\ Absent'
<1>1. At(p, "record") /\ UNCHANGED <<entry, serves, marks>>
      /\ record' = Marked(record, ModelOf(p), outcome)
  BY RecordResultStep
<1>2. PICK t \in Seq(Steps) :
        /\ \A i \in DOMAIN t : t[i] \in {"publish", "suspend", "resume"}
        /\ Continue(p, Made(process[p], t, process[p].auth, Blocking(record'),
                            process[p].live, process[p].models))
  BY RecordResultStep, ReportsOK
<1>3. ModelOf(p) \in Model
  BY <1>1, AtFacts, StepsAre, ModelOfOK DEF Sound, Fits
<1>4. record' \in Record /\ record'.present = record.present
  <2>1. record \in Record
    BY DEF TablesOK
  <2> QED BY <1>1, <1>3, <2>1, MarkedKept
<1>5. \A i \in DOMAIN t : t[i] \notin {"update", "refreshed", "get"}
  BY <1>2
<1>6. Blocking(record').present = record.present
  BY <1>4, BlockingOK
<1>7. ~record.present => entry' = NoAuthEntry
  BY <1>1 DEF Absent
<1> DEFINE held == Blocking(record')
<1>8. /\ ~record.present => ~held.present
      /\ Continue(p, Made(process[p], t, process[p].auth, held, process[p].live,
                          process[p].models))
  BY <1>2, <1>6
<1> HIDE DEF held
<1> QED BY <1>4, <1>5, <1>7, <1>8, OtherwiseCarried

LEMMA PickCarried ==
  ASSUME CallersOK, TablesOK, Carried, Absent, NEW p \in Process, Pick(p)
  PROVE  Carried' /\ Absent'
<1>1. At(p, "pick") /\ UNCHANGED <<record, entry, serves, marks>>
  BY PickStep
<1>2. CASE Return(p)
  BY <1>1, <1>2, ReturnCarried
<1>3. ASSUME NEW t \in Seq(Steps),
             t = IF record.present THEN <<"clone", "publish", "pickAgain">>
                 ELSE <<"pickAgain">>,
             Continue(p, Made(process[p], t, process[p].auth, process[p].held,
                              process[p].live, process[p].models))
      PROVE  Carried' /\ Absent'
  <2>1. \A i \in DOMAIN t : t[i] \notin {"update", "refreshed", "get"}
    BY <1>3
  <2> QED BY <1>1, <1>3, <2>1, OtherwiseCarried DEF Absent
<1> QED BY <1>2, <1>3, PickStep

(* The steps that change nothing of the record and publish nothing. *)
LEMMA OtherCarried ==
  ASSUME CallersOK, TablesOK, Carried, Absent, NEW p \in Process,
         \/ \E offer \in SUBSET Model : Register(p, offer)
         \/ Unregister(p) \/ ReadSupported(p) \/ ReportFailure(p) \/ ReportSuccess(p)
         \/ PickAgain(p)
  PROVE  Carried' /\ Absent'
<1>1. \E step \in Steps \ {"get"} : At(p, step)
  BY RegisterStep, UnregisterStep, ReadSupportedStep, ReportFailureStep, ReportSuccessStep,
     PickAgainStep DEF Steps
<1>2. /\ UNCHANGED <<record, entry>>
      /\ \E auth, models : Continue(p, Made(process[p], Rest(p), auth, process[p].held,
                                            process[p].live, models))
  BY RegisterStep, UnregisterStep, ReadSupportedStep, ReportFailureStep, ReportSuccessStep,
     PickAgainStep
<1> QED BY <1>1, <1>2, StepCarried DEF Absent

LEMMA ProgramCarries ==
  ASSUME NEW c, c.call \in CallNames, c.todo = Program(c.call),
         c.call = "modify" => c.auth.present
  PROVE  Ordered(c) /\ Bringing(c)
<1> DEFINE t == c.todo
<1>1. CASE c.call = "modify"
  <2>1. t = <<"get", "update", "publish", "register",
              "supported", "reconcile", "publish", "clone", "publish">>
    BY <1>1 DEF Program
  <2>2. \A i \in DOMAIN t : i + 1 \in DOMAIN t =>
          /\ t[i + 1] \in {"update", "refreshed"} => t[i] = "get"
          /\ t[i + 1] = "get" => t[i] = "unregister" /\ c.call = "remove"
    BY <1>1, <2>1
  <2>3. Head(t) = "get"
    BY <2>1
  <2>4. \A i \in DOMAIN t : c.call = "catalog" => t[i] \notin {"update", "refreshed"}
    BY <1>1, <2>1
  <2> QED BY <1>1, <2>2, <2>3, <2>4 DEF Ordered, Bringing
<1>2. CASE c.call = "remove"
  <2>1. t = <<"unregister", "get", "update", "publish">>
    BY <1>2 DEF Program
  <2>2. \A i \in DOMAIN t : i + 1 \in DOMAIN t =>
          /\ t[i + 1] \in {"update", "refreshed"} => t[i] = "get"
          /\ t[i + 1] = "get" => t[i] = "unregister" /\ c.call = "remove"
    BY <1>2, <2>1
  <2>3. Head(t) = "unregister"
    BY <2>1
  <2>4. \A i \in DOMAIN t : c.call = "catalog" => t[i] \notin {"update", "refreshed"}
    BY <1>2, <2>1
  <2> QED BY <1>2, <2>2, <2>3, <2>4 DEF Ordered, Bringing
<1>3. CASE c.call = "toggle"
  <2>1. t = <<"get", "update", "publish">>
    BY <1>3 DEF Program
  <2>2. \A i \in DOMAIN t : i + 1 \in DOMAIN t =>
          /\ t[i + 1] \in {"update", "refreshed"} => t[i] = "get"
          /\ t[i + 1] = "get" => t[i] = "unregister" /\ c.call = "remove"
    BY <1>3, <2>1
  <2>3. Head(t) = "get"
    BY <2>1
  <2>4. \A i \in DOMAIN t : c.call = "catalog" => t[i] \notin {"update", "refreshed"}
    BY <1>3, <2>1
  <2> QED BY <1>3, <2>2, <2>3, <2>4 DEF Ordered, Bringing
<1>4. CASE c.call = "catalog"
  <2>1. t = <<"get", "register", "supported", "reconcile", "publish", "latest">>
    BY <1>4 DEF Program
  <2>2. \A i \in DOMAIN t : i + 1 \in DOMAIN t =>
          /\ t[i + 1] \in {"update", "refreshed"} => t[i] = "get"
          /\ t[i + 1] = "get" => t[i] = "unregister" /\ c.call = "remove"
    BY <1>4, <2>1
  <2>3. Head(t) = "get"
    BY <2>1
  <2>4. \A i \in DOMAIN t : c.call = "catalog" => t[i] \notin {"update", "refreshed"}
    BY <1>4, <2>1
  <2> QED BY <1>4, <2>2, <2>3, <2>4 DEF Ordered, Bringing
<1>5. CASE c.call = "refresh"
  <2>1. t = <<"get", "refreshed">>
    BY <1>5 DEF Program
  <2>2. \A i \in DOMAIN t : i + 1 \in DOMAIN t =>
          /\ t[i + 1] \in {"update", "refreshed"} => t[i] = "get"
          /\ t[i + 1] = "get" => t[i] = "unregister" /\ c.call = "remove"
    BY <1>5, <2>1
  <2>3. Head(t) = "get"
    BY <2>1
  <2>4. \A i \in DOMAIN t : c.call = "catalog" => t[i] \notin {"update", "refreshed"}
    BY <1>5, <2>1
  <2> QED BY <1>5, <2>2, <2>3, <2>4 DEF Ordered, Bringing
<1>6. CASE c.call = "result"
  <2>1. t = <<"record">>
    BY <1>6 DEF Program
  <2>2. \A i \in DOMAIN t : i + 1 \in DOMAIN t =>
          /\ t[i + 1] \in {"update", "refreshed"} => t[i] = "get"
          /\ t[i + 1] = "get" => t[i] = "unregister" /\ c.call = "remove"
    BY <1>6, <2>1
  <2>3. Head(t) = "record"
    BY <2>1
  <2>4. \A i \in DOMAIN t : c.call = "catalog" => t[i] \notin {"update", "refreshed"}
    BY <1>6, <2>1
  <2> QED BY <1>6, <2>2, <2>3, <2>4 DEF Ordered, Bringing
<1>7. CASE c.call = "pick"
  <2>1. t = <<"pick">>
    BY <1>7 DEF Program
  <2>2. \A i \in DOMAIN t : i + 1 \in DOMAIN t =>
          /\ t[i + 1] \in {"update", "refreshed"} => t[i] = "get"
          /\ t[i + 1] = "get" => t[i] = "unregister" /\ c.call = "remove"
    BY <1>7, <2>1
  <2>3. Head(t) = "pick"
    BY <2>1
  <2>4. \A i \in DOMAIN t : c.call = "catalog" => t[i] \notin {"update", "refreshed"}
    BY <1>7, <2>1
  <2> QED BY <1>7, <2>2, <2>3, <2>4 DEF Ordered, Bringing
<1> QED BY <1>1, <1>2, <1>3, <1>4, <1>5, <1>6, <1>7 DEF CallNames, Modifying

LEMMA BeginCarried ==
  ASSUME CallersOK, TablesOK, Carried, Absent, NEW p \in Process, BeginSome(p)
  PROVE  Carried' /\ Absent'
<1>1. PICK call \in Calls, auth \in Record, models \in SUBSET Model :
           /\ call \in {"result", "pick"} => \E m \in Model : models = {m}
           /\ call = "modify" => auth.present
           /\ Begin(p, call, auth, models)
  BY SomeCall
<1> DEFINE c == Begun(call, auth, models)
<1>2. /\ c.call = call /\ c.todo = Program(call) /\ c.auth = auth /\ call \in CallNames
      /\ c \in Caller
  <2>1. call \in {"result", "pick"} => \E m \in Model : models = {m}
    BY <1>1
  <2>2. c = Begun(call, auth, models)
    OBVIOUS
  <2> HIDE DEF c
  <2>3. /\ c \in Caller /\ c.call = call /\ c.todo = Program(call) /\ c.auth = auth
        /\ c.call \in CallNames
    BY <2>1, <2>2, BegunMade
  <2> QED BY <2>3
<1>3. process' = [process EXCEPT ![p] = c] /\ UNCHANGED <<record, entry>>
  BY <1>1 DEF Begin, Begun
<1>4. ~c.held.present
  <2>1. c = Anew(Idle, call, Program(call), auth, models)
    BY BegunExcept, IdleOK
  <2> HIDE DEF c
  <2> QED BY <2>1, IdleCarries DEF Anew
<1> HIDE DEF c
<1>5. Ordered(c) /\ Bringing(c)
  BY <1>1, <1>2, ProgramCarries
<1>6. Carried'
  BY <1>3, <1>5 DEF Carried, CallersOK
<1>7. Absent'
  BY <1>3, <1>4 DEF Absent, CallersOK
<1> QED BY <1>6, <1>7

LEMMA ActsCarried ==
  ASSUME Typed, Carried, Absent, NEW p \in Process, BeginSome(p) \/ Acts(p)
  PROVE  Carried' /\ Absent'
<1>1. CallersOK /\ TablesOK
  BY TypedParts
<1> QED BY <1>1, BeginCarried, GetCarried, UpdateCarried, PublishCarried, OtherCarried,
           ReconcileCarried, LatestCarried, CloneCarried, RefreshCarried,
           RecordResultCarried, PickCarried DEF Acts
-----------------------------------------------------------------------------
(* A call that others overlap leaves nothing settled.                      *)
LEMMA ActsShape ==
  ASSUME NEW p \in Process, Acts(p)
  PROVE  process[p].todo # <<>> /\ (solo # p => UNCHANGED <<solo, settled>>)
<1>1. CASE Get(p)
  BY <1>1 DEF Get, At, Continue, Return
<1>2. CASE Update(p)
  BY <1>2 DEF Update, At
<1>3. CASE Publish(p)
  BY <1>3 DEF Publish, At, Continue
<1>4. CASE \E offer \in SUBSET Model : Register(p, offer)
  BY <1>4 DEF Register, At, Continue
<1>5. CASE Unregister(p) \/ ReadSupported(p) \/ Reconcile(p) \/ Latest(p)
  BY <1>5 DEF Unregister, ReadSupported, Reconcile, Latest, At, Continue
<1>6. CASE Clone(p)
  BY <1>6 DEF Clone, At, Continue, Return
<1>7. CASE RefreshCancelled(p) \/ RefreshFailed(p) \/ RefreshSucceeded(p)
  BY <1>7 DEF RefreshCancelled, RefreshFailed, RefreshSucceeded, At, Continue, Return
<1>8. CASE \E outcome \in Outcomes : RecordResult(p, outcome)
  BY <1>8 DEF RecordResult, At, Continue
<1>9. CASE ReportFailure(p) \/ ReportSuccess(p)
  BY <1>9 DEF ReportFailure, ReportSuccess, At, Continue
<1>10. CASE Pick(p) \/ PickAgain(p)
  BY <1>10 DEF Pick, PickAgain, At, Continue, Return
<1> QED BY <1>1, <1>2, <1>3, <1>4, <1>5, <1>6, <1>7, <1>8, <1>9, <1>10 DEF Acts

LEMMA NothingSettled ==
  ASSUME solo' = Nobody, settled' = {}
  PROVE  Alone' /\ Agree'
<1>1. Agree'
  BY DEF Agree, SchedulerAgrees, RegistrationAgrees, MarksAgree
<1> QED BY <1>1 DEF Alone

LEMMA OverlappedAct ==
  ASSUME CallersOK, Alone, NEW p \in Process, Acts(p), solo # p
  PROVE  Alone' /\ (AtRest' => Agree')
<1>1. process[p].todo # <<>> /\ UNCHANGED <<solo, settled>>
  BY ActsShape
<1>2. process[p] # Idle /\ process[p].call # "none"
  BY <1>1, IdleOK DEF CallersOK, Sound
<1>3. solo = Nobody
  BY <1>2 DEF Alone
<1>4. settled = {}
  BY <1>2, <1>3 DEF Alone, AtRest, Running
<1> QED BY <1>1, <1>3, <1>4, NothingSettled

(* A call that begins with nobody about is at its first stage. *)
LEMMA BeginAlone ==
  ASSUME CallersOK, TablesOK, Alone, AtRest => Agree, NEW p \in Process, BeginSome(p)
  PROVE  Alone' /\ (AtRest' => Agree')
<1>1. PICK call \in Calls, auth \in Record, models \in SUBSET Model :
           /\ call \in {"result", "pick"} => \E m \in Model : models = {m}
           /\ call = "modify" => auth.present
           /\ Begin(p, call, auth, models)
  BY SomeCall
<1>2. CASE Running # {}
  BY <1>1, <1>2, NothingSettled DEF Begin
<1>3. CASE Running = {}
  <2>1. /\ UNCHANGED <<record, entry, serves, marks>> /\ settled' \subseteq settled
        /\ call = "toggle" => "registration" \notin settled'
        /\ solo' = p /\ solo' # Nobody
    BY <1>1, <1>3, NobodyIsNoProcess DEF Begin
  <2>2. Agree'
    BY <1>3, <2>1 DEF AtRest, Agree, SchedulerAgrees, RegistrationAgrees, MarksAgree, EntryOf
  <2>3. \A q \in Process : process[q] = Idle
    BY <1>3 DEF Running, CallersOK, Sound
  <2>4. ASSUME NEW c, c = Begun(call, auth, models)
        PROVE  /\ c.call = call /\ c.call # "none" /\ c.todo = Program(call)
               /\ c.auth = auth /\ ~c.live
               /\ process' = [process EXCEPT ![p] = c]
    <3>1. process' = [process EXCEPT ![p] = Begun(call, auth, models)]
      BY <1>1 DEF Begin, Begun
    <3> QED BY <1>1, <2>4, <3>1, BegunMade
  <2>5. ASSUME NEW c, c = Begun(call, auth, models)
        PROVE  Stage(c)'
    BY <1>1, <2>1, <2>2, <2>4, <2>5 DEF Stage
  <2>6. PICK c : c = Begun(call, auth, models)
    OBVIOUS
  <2>7. process'[p] = c /\ \A q \in Process \ {p} : process'[q] = Idle
    BY <2>3, <2>4, <2>6 DEF CallersOK
  <2>8. Alone'
    BY <2>1, <2>4, <2>5, <2>6, <2>7 DEF Alone
  <2>9. ~AtRest'
    BY <2>4, <2>6, <2>7 DEF AtRest, Running
  <2> QED BY <2>8, <2>9
<1> QED BY <1>2, <1>3

(* The undisturbed call goes on to its next stage, or ends with everything *)
(* it promises in agreement.                                               *)
LEMMA ContinueAlone ==
  ASSUME CallersOK, Alone, NEW p \in Process, solo = p, process[p].call # "none",
         NEW local, local.call = process[p].call, Continue(p, local),
         local.todo = <<>> => Agree',
         local.todo # <<>> => Stage(local)'
  PROVE  Alone' /\ (AtRest' => Agree')
<1>1. \A q \in Process \ {p} : process[q] = Idle /\ process'[q] = Idle
  BY NobodyIsNoProcess DEF Alone, Continue, CallersOK
<1>2. CASE local.todo = <<>>
  <2>1. solo' = Nobody /\ \A q \in Process : process'[q] = Idle
    BY <1>1, <1>2 DEF Continue, CallersOK
  <2>2. AtRest'
    BY <2>1, IdleOK DEF AtRest, Running
  <2> QED BY <1>2, <2>1, <2>2 DEF Alone
<1>3. CASE local.todo # <<>>
  <2>1. solo' = p /\ process'[p] = local
    BY <1>3 DEF Continue, CallersOK
  <2>2. Alone'
    BY <1>1, <1>3, <2>1, NobodyIsNoProcess DEF Alone
  <2>3. ~AtRest'
    BY <2>1 DEF AtRest, Running
  <2> QED BY <2>2, <2>3
<1> QED BY <1>2, <1>3

LEMMA ReturnAlone ==
  ASSUME CallersOK, Alone, NEW p \in Process, solo = p, Return(p), Agree'
  PROVE  Alone' /\ (AtRest' => Agree')
<1>1. \A q \in Process : process'[q] = Idle
  BY NobodyIsNoProcess DEF Alone, Return, CallersOK
<1>2. solo' = Nobody /\ AtRest'
  BY <1>1, IdleOK DEF Return, AtRest, Running
<1> QED BY <1>2 DEF Alone
-----------------------------------------------------------------------------
(* The undisturbed call, step by step.                                     *)
LEMMA SoloFacts ==
  ASSUME CallersOK, TablesOK, Alone, NEW p \in Process, solo = p,
         NEW step \in Steps, At(p, step)
  PROVE  /\ Stage(process[p]) /\ process[p].call \in CallNames
         /\ process[p].todo # <<>> /\ Head(process[p].todo) = step
         /\ process[p].call # "none" /\ Rest(p) = Tail(process[p].todo)
<1>1. Stage(process[p])
  BY NobodyIsNoProcess DEF Alone
<1>2. process[p].call \in CallNames
  BY AtFacts, CallsKnown DEF CallNames
<1> QED BY <1>1, <1>2, AtFacts DEF Rest

(* The first step of each call. *)
LEMMA ProgramHeads ==
  /\ Program("modify") = <<"get", "update", "publish", "register", "supported",
                           "reconcile", "publish", "clone", "publish">>
  /\ Program("remove") = <<"unregister", "get", "update", "publish">>
  /\ Program("toggle") = <<"get", "update", "publish">>
  /\ Program("catalog") = <<"get", "register", "supported", "reconcile", "publish", "latest">>
  /\ Program("refresh") = <<"get", "refreshed">>
  /\ Program("result") = <<"record">>
  /\ Program("pick") = <<"pick">>
BY DEF Program

LEMMA CallIsOne ==
  ASSUME NEW call \in CallNames
  PROVE  call \in {"modify", "remove", "toggle", "catalog", "refresh", "result", "pick"}
BY DEF CallNames, Modifying

(* The steps that each stage may be about to make. *)
Starting(c) ==
  /\ c.todo = Program(c.call) /\ ~c.live
  /\ Agree
  /\ c.call = "modify" => c.auth.present
  /\ c.call = "toggle" => "registration" \notin settled
LEMMA StageIs ==
  ASSUME NEW c, Stage(c)
  PROVE  \/ Starting(c)
         \/ c.call = "modify" /\ Updating(c)
         \/ c.call = "catalog" /\ Cataloguing(c)
         \/ c.call \in {"modify", "catalog"} /\ Registering(c)
         \/ c.call = "remove" /\ Removing(c)
         \/ c.call \in {"toggle", "refresh"} /\ Storing(c)
         \/ c.call = "refresh" /\ Refreshed(c)
         \/ c.call = "result" /\ \E m \in Model : c.models = {m} /\ Marking(c, m)
         \/ c.call = "pick" /\ Picking(c)
BY DEF Stage, Starting

(* The call whose first step this is. *)
LEMMA StartingCall ==
  ASSUME NEW c, c.call \in CallNames, Starting(c)
  PROVE  /\ Head(c.todo) = "unregister" => c.call = "remove"
         /\ Head(c.todo) = "record" => c.call = "result"
         /\ Head(c.todo) = "pick" => c.call = "pick"
<1>1. c.todo = Program(c.call)
  BY DEF Starting
<1> QED BY <1>1, CallIsOne, ProgramHeads

LEMMA StageHeads ==
  ASSUME NEW c, c.call \in CallNames
  PROVE  /\ Starting(c) => Head(c.todo) \in {"get", "unregister", "record", "pick"}
         /\ Updating(c) => Head(c.todo) \in {"update", "publish"}
         /\ Cataloguing(c) => Head(c.todo) \in {"register", "supported", "reconcile",
                                                "publish", "latest"}
         /\ Registering(c) => Head(c.todo) \in {"register", "supported", "reconcile",
                                                "publish", "clone"}
         /\ Removing(c) => Head(c.todo) \in {"get", "update", "publish"}
         /\ Storing(c) => Head(c.todo) \in {"update", "publish"}
         /\ Refreshed(c) => Head(c.todo) = "refreshed"
         /\ \A m \in Model : Marking(c, m) => Head(c.todo) \in {"publish", "suspend", "resume"}
         /\ Picking(c) => Head(c.todo) \in {"clone", "publish", "pickAgain"}
<1>1. Starting(c) => Head(c.todo) \in {"get", "unregister", "record", "pick"}
  BY CallIsOne, ProgramHeads DEF Starting
<1>2. Updating(c) => Head(c.todo) \in {"update", "publish"}
  BY DEF Updating
<1>3. Cataloguing(c) => Head(c.todo) \in {"register", "supported", "reconcile",
                                         "publish", "latest"}
  BY DEF Cataloguing
<1>4. Registering(c) => Head(c.todo) \in {"register", "supported", "reconcile",
                                         "publish", "clone"}
  BY DEF Registering
<1>5. Removing(c) => Head(c.todo) \in {"get", "update", "publish"}
  BY DEF Removing
<1>6. Storing(c) => Head(c.todo) \in {"update", "publish"}
  BY DEF Storing
<1>7. Refreshed(c) => Head(c.todo) = "refreshed"
  BY DEF Refreshed
<1>8. ASSUME NEW m \in Model, Marking(c, m)
      PROVE  Head(c.todo) \in {"publish", "suspend", "resume"}
  BY <1>8 DEF Marking
<1>9. Picking(c) => Head(c.todo) \in {"clone", "publish", "pickAgain"}
  BY DEF Picking
<1> QED BY <1>1, <1>2, <1>3, <1>4, <1>5, <1>6, <1>7, <1>8, <1>9

LEMMA GetAlone ==
  ASSUME CallersOK, TablesOK, Alone, NEW p \in Process, solo = p, Get(p)
  PROVE  Alone' /\ (AtRest' => Agree')
<1> DEFINE c == process[p]
           g == Gotten(c.call, c.auth)
<1>1. At(p, "get") /\ UNCHANGED <<record, entry, serves, marks>>
  BY GetStep
<1>2. /\ Stage(c) /\ c.call \in CallNames /\ c.todo # <<>> /\ Head(c.todo) = "get"
      /\ c.call # "none" /\ Rest(p) = Tail(c.todo)
  BY <1>1, SoloFacts, StepsAre
<1>3. c.auth \in Record /\ record \in Record
  BY <1>1, CallerOK, StepsAre
<1>4. Starting(c) \/ (c.call = "remove" /\ Removing(c))
  <2> HIDE DEF c
  <2> QED BY <1>2, StageIs, StageHeads
<1> DEFINE early == \/ c.call \in {"remove", "toggle", "refresh"} /\ ~record.present
                    \/ c.call = "catalog" /\ (~record.present \/ record.disabled)
<1>5. CASE early
  <2>1. Return(p)
    BY <1>5, GetStep
  <2>2. settled' = settled
    BY <2>1 DEF Return
  <2>3. CASE Starting(c)
    <3>1. Agree'
      BY <1>1, <2>2, <2>3 DEF Starting, Agree, SchedulerAgrees, RegistrationAgrees, MarksAgree,
                              EntryOf
    <3> QED BY <2>1, <3>1, ReturnAlone
  <2>4. CASE c.call = "remove" /\ Removing(c)
    <3>1. Gone /\ ("scheduler" \in settled => entry = EntryOf(record))
      BY <1>2, <1>5, <2>4 DEF Removing
    <3>2. Agree'
      BY <1>1, <2>2, <3>1 DEF Gone, Agree, SchedulerAgrees, RegistrationAgrees, MarksAgree,
                              EntryOf
    <3> QED BY <2>1, <3>2, ReturnAlone
  <2> QED BY <1>4, <2>3, <2>4
<1>6. CASE ~early
  <2> HIDE DEF early
  <2>1. Continue(p, Made(c, Rest(p), g, c.held, c.live, c.models))
    BY <1>6, GetStep DEF early
  <2>2. ASSUME NEW d, d = Made(c, Rest(p), g, c.held, c.live, c.models)
        PROVE  /\ d.call = c.call /\ d.todo = Tail(c.todo) /\ d.auth = g /\ d.live = c.live
    BY <1>2, <2>2 DEF Made
  <2> HIDE DEF g
  <2>3. ASSUME NEW d, d.call = c.call, d.todo = Tail(c.todo), d.auth = g, d.live = c.live,
               settled' = settled
        PROVE  d.todo # <<>> /\ Stage(d)'
    <3>0. d.call = c.call /\ d.auth = g /\ d.live = c.live /\ settled' = settled
      BY <2>3
    <3>1. CASE Starting(c) /\ c.call = "modify"
      <4>1. g.present
        BY <1>3, <3>1, GottenOK DEF Starting, g
      <4>2. d.todo = <<"update", "publish", "register", "supported",
                       "reconcile", "publish", "clone", "publish">>
        <5>1. c.todo = <<"get", "update", "publish", "register", "supported",
                       "reconcile", "publish", "clone", "publish">>
          BY <3>1, ProgramHeads DEF Starting
        <5> QED BY <2>3, <5>1
      <4>3. Updating(d)' /\ d.todo # <<>>
        BY <3>0, <4>1, <4>2 DEF Updating
      <4> QED BY <3>0, <3>1, <4>3 DEF Stage
    <3>2. CASE c.call = "remove" /\ Removing(c)
      <4>1. g.disabled
        BY <1>3, <3>2, GottenOK DEF g
      <4>2. Gone /\ c.todo = <<"get", "update", "publish">>
        BY <1>2, <3>2 DEF Removing
      <4>3. d.todo = <<"update", "publish">>
        BY <2>3, <4>2
      <4>4. Removing(d)' /\ d.todo # <<>>
        BY <1>1, <3>0, <4>1, <4>2, <4>3 DEF Removing, Gone
      <4> QED BY <3>0, <3>2, <4>4 DEF Stage
    <3>3. CASE Starting(c) /\ c.call = "toggle"
      <4>1. g.states = record.states
        BY <1>3, <3>3, GottenOK DEF g
      <4>2. d.todo = <<"update", "publish">>
        <5>1. c.todo = <<"get", "update", "publish">>
          BY <3>3, ProgramHeads DEF Starting
        <5> QED BY <2>3, <5>1
      <4>3. RegistrationAgrees' /\ MarksAgree' /\ "registration" \notin settled'
        BY <1>1, <3>0, <3>3 DEF Starting, Agree, RegistrationAgrees, MarksAgree
      <4>4. Storing(d)' /\ d.todo # <<>>
        BY <1>1, <3>0, <3>3, <4>1, <4>2, <4>3 DEF Storing
      <4> QED BY <3>0, <3>3, <4>4 DEF Stage
    <3>4. CASE Starting(c) /\ c.call = "catalog"
      <4>1. record.present /\ ~record.disabled /\ ~c.live
        BY <1>6, <3>4 DEF early, Starting
      <4>2. d.todo = <<"register", "supported", "reconcile", "publish", "latest">>
        <5>1. c.todo = <<"get", "register", "supported", "reconcile", "publish", "latest">>
          BY <3>4, ProgramHeads DEF Starting
        <5> QED BY <2>3, <5>1
      <4>3. Cataloguing(d)' /\ d.todo # <<>>
        BY <1>1, <3>0, <4>1, <4>2 DEF Cataloguing
      <4> QED BY <3>0, <3>4, <4>3 DEF Stage
    <3>5. CASE Starting(c) /\ c.call = "refresh"
      <4>1. g = record
        BY <1>3, <3>5, GottenOK DEF g
      <4>2. d.todo = <<"refreshed">>
        <5>1. c.todo = <<"get", "refreshed">>
          BY <3>5, ProgramHeads DEF Starting
        <5> QED BY <2>3, <5>1
      <4>3. Agree'
        BY <1>1, <3>0, <3>5 DEF Starting, Agree, SchedulerAgrees, RegistrationAgrees,
           MarksAgree, EntryOf
      <4>4. Refreshed(d)' /\ d.todo # <<>>
        BY <1>1, <3>0, <4>1, <4>2, <4>3 DEF Refreshed
      <4> QED BY <3>0, <3>5, <4>4 DEF Stage
    <3>6. c.call \in {"modify", "remove", "toggle", "catalog", "refresh"}
      BY <1>1, AtFacts, StepsAre DEF Fits, Modifying
    <3>7. Starting(c) => c.call # "remove"
      BY <1>2, ProgramHeads DEF Starting
    <3> QED BY <1>4, <3>1, <3>2, <3>3, <3>4, <3>5, <3>6, <3>7
  <2>4. PICK d : d = Made(c, Rest(p), g, c.held, c.live, c.models)
    OBVIOUS
  <2>5. Continue(p, d) /\ d.call = c.call
    BY <2>1, <2>2, <2>4
  <2>6. Tail(c.todo) # <<>>
    <3>1. CASE Starting(c)
      <4>1. c.call \in {"modify", "toggle", "catalog", "refresh"}
        BY <1>1, <1>2, <3>1, ProgramHeads, AtFacts, StepsAre DEF Fits, Modifying, Starting
      <4>2. \/ c.todo = <<"get", "update", "publish", "register", "supported",
                         "reconcile", "publish", "clone", "publish">>
            \/ c.todo = <<"get", "update", "publish">>
            \/ c.todo = <<"get", "register", "supported", "reconcile", "publish", "latest">>
            \/ c.todo = <<"get", "refreshed">>
        BY <3>1, <4>1, ProgramHeads DEF Starting
      <4>3. CASE c.todo = <<"get", "update", "publish", "register", "supported",
                            "reconcile", "publish", "clone", "publish">>
        BY <4>3
      <4>4. CASE c.todo = <<"get", "update", "publish">>
        BY <4>4
      <4>5. CASE c.todo = <<"get", "register", "supported", "reconcile", "publish", "latest">>
        BY <4>5
      <4>6. CASE c.todo = <<"get", "refreshed">>
        BY <4>6
      <4> QED BY <4>2, <4>3, <4>4, <4>5, <4>6
    <3>2. CASE Removing(c)
      <4>1. c.todo = <<"get", "update", "publish">>
        BY <1>2, <3>2 DEF Removing
      <4> QED BY <4>1
    <3> QED BY <1>4, <3>1, <3>2
  <2>7. settled' = settled /\ d.todo # <<>>
    BY <2>2, <2>4, <2>5, <2>6 DEF Continue
  <2> QED BY <1>2, <2>2, <2>3, <2>4, <2>5, <2>7, ContinueAlone
<1> QED BY <1>5, <1>6

LEMMA GoesOnAlone ==
  ASSUME CallersOK, Alone, NEW p \in Process, solo = p, process[p].call # "none",
         NEW local, local.call = process[p].call, Continue(p, local), local.todo # <<>>,
         settled' = settled => Stage(local)'
  PROVE  Alone' /\ (AtRest' => Agree')
<1>1. settled' = settled
  BY DEF Continue
<1> QED BY <1>1, ContinueAlone

LEMMA EndsAlone ==
  ASSUME CallersOK, Alone, NEW p \in Process, solo = p, process[p].call # "none",
         NEW local, local.call = process[p].call, Continue(p, local), local.todo = <<>>,
         settled' = settled \cup Settles(local.call) => Agree'
  PROVE  Alone' /\ (AtRest' => Agree')
<1>1. settled' = settled \cup Settles(local.call)
  BY DEF Continue
<1> QED BY <1>1, ContinueAlone

LEMMA PublishAlone ==
  ASSUME CallersOK, TablesOK, Alone, NEW p \in Process, solo = p, Publish(p)
  PROVE  Alone' /\ (AtRest' => Agree')
<1> DEFINE c == process[p]
           no == FALSE
<1>1. /\ At(p, "publish") /\ UNCHANGED <<record, serves, marks>>
      /\ entry' = EntryOf(IF c.live THEN record ELSE c.held)
      /\ Continue(p, Made(c, Rest(p), c.auth, NoRecord, no, c.models))
  BY PublishStep
<1> HIDE DEF no
<1>2. /\ Stage(c) /\ c.call \in CallNames /\ c.todo # <<>> /\ Head(c.todo) = "publish"
      /\ c.call # "none" /\ Rest(p) = Tail(c.todo)
  BY <1>1, SoloFacts, StepsAre
<1>3. PICK d : d = Made(c, Rest(p), c.auth, NoRecord, no, c.models)
  OBVIOUS
<1>4. /\ d.call = c.call /\ d.auth = c.auth /\ ~d.live /\ d.models = c.models
      /\ Continue(p, d)
  BY <1>1, <1>3 DEF Made, no
<1>5. d.todo = Tail(c.todo)
  BY <1>2, <1>3 DEF Made
<1>6. record \in Record
  BY DEF TablesOK
<1>7. c.live \/ Publishing(c) => entry' = EntryOf(record)' /\ SchedulerAgrees'
  BY <1>1, <1>6, BlockingOK DEF Publishing, EntryOf, SchedulerAgrees
<1>8. CASE c.call = "modify" /\ Updating(c)
  <2>1. /\ c.todo = <<"publish", "register", "supported", "reconcile", "publish", "clone", "publish">>
        /\ record.present /\ c.auth.disabled = record.disabled
    BY <1>2, <1>8 DEF Updating
  <2>2. d.todo = <<"register", "supported", "reconcile", "publish", "clone", "publish">>
    BY <1>5, <2>1
  <2>3. Registering(d)' /\ d.todo # <<>>
    BY <1>1, <1>4, <2>1, <2>2 DEF Registering
  <2> QED BY <1>2, <1>4, <1>8, <2>3, GoesOnAlone DEF Stage
<1>9. CASE c.call = "catalog" /\ Cataloguing(c)
  <2>1. c.todo = <<"publish", "latest">> /\ record.present /\ ~record.disabled
    BY <1>2, <1>9 DEF Cataloguing
  <2>2. d.todo = <<"latest">>
    BY <1>5, <2>1
  <2>3. Cataloguing(d)' /\ d.todo # <<>>
    BY <1>1, <1>4, <2>1, <2>2 DEF Cataloguing
  <2> QED BY <1>2, <1>4, <1>9, <2>3, GoesOnAlone DEF Stage
<1>10. CASE c.call \in {"modify", "catalog"} /\ Registering(c)
  <2>1. \/ c.todo = <<"publish", "clone", "publish">>
        \/ c.todo = <<"publish">> /\ Publishing(c)
    BY <1>2, <1>10 DEF Registering
  <2>2. record.present /\ Registered /\ Failing(record) = {}
    BY <1>2, <1>10 DEF Registering
  <2>3. Registered' /\ record'.present /\ Failing(record') = {}
    BY <1>1, <2>2 DEF Registered
  <2>4. CASE c.todo = <<"publish", "clone", "publish">>
    <3>1. d.todo = <<"clone", "publish">>
      BY <1>5, <2>4
    <3>2. Registering(d)' /\ d.todo # <<>>
      BY <1>4, <2>3, <3>1 DEF Registering
    <3> QED BY <1>2, <1>4, <1>10, <3>2, GoesOnAlone DEF Stage
  <2>5. CASE c.todo = <<"publish">> /\ Publishing(c)
    <3>1. d.todo = <<>>
      BY <1>5, <2>5
    <3>2. Agree'
      <4>1. Suspending(record') = {}
        BY <2>3, SuspendingFails
      <4> QED BY <1>7, <2>3, <2>5, <4>1 DEF Agree, RegistrationAgrees, MarksAgree, Registered
    <3> QED BY <1>2, <1>4, <3>1, <3>2, EndsAlone
  <2> QED BY <2>1, <2>4, <2>5
<1>11. CASE c.call = "remove" /\ Removing(c)
  <2>1. c.todo = <<"publish">> /\ c.live /\ Gone
    BY <1>2, <1>11 DEF Removing
  <2>2. d.todo = <<>>
    BY <1>5, <2>1
  <2>3. Agree'
    BY <1>1, <1>7, <2>1 DEF Agree, RegistrationAgrees, MarksAgree, Gone
  <2> QED BY <1>2, <1>4, <2>2, <2>3, EndsAlone
<1>12. CASE c.call \in {"toggle", "refresh"} /\ Storing(c)
  <2>1. c.todo = <<"publish">> /\ c.live /\ RegistrationAgrees /\ MarksAgree
    BY <1>2, <1>12 DEF Storing
  <2>2. d.todo = <<>>
    BY <1>5, <2>1
  <2>3. settled' = settled \cup Settles(d.call) => settled' = settled \cup {"scheduler"}
    BY <1>4, <1>12 DEF Settles, Modifying
  <2>4. settled' = settled \cup {"scheduler"} => Agree'
    BY <1>1, <1>7, <2>1 DEF Agree, RegistrationAgrees, MarksAgree
  <2> QED BY <1>2, <1>4, <2>2, <2>3, <2>4, EndsAlone
<1>13. CASE c.call = "result" /\ \E m \in Model : c.models = {m} /\ Marking(c, m)
  <2>1. PICK m \in Model : c.models = {m} /\ Marking(c, m)
    BY <1>13
  <2>2. /\ RegistrationAgrees /\ AgreeBut(m) /\ Publishing(c)
        /\ \/ c.todo = <<"publish", "suspend">> /\ m \in Suspending(record)
           \/ c.todo = <<"publish", "resume">> /\ m \notin Failing(record)
           \/ c.todo = <<"publish">> /\ MarksAgree
    BY <1>2, <2>1 DEF Marking
  <2>3. entry' = EntryOf(record)' /\ SchedulerAgrees'
    <3>1. Publishing(c)
      BY <2>2
    <3> QED BY <1>7, <3>1, Zenon
  <2>4. settled' = settled => RegistrationAgrees' /\ AgreeBut(m)'
    BY <1>1, <2>2 DEF RegistrationAgrees, AgreeBut, Failing, Suspending
  <2>5. CASE c.todo = <<"publish", "suspend">> /\ m \in Suspending(record)
    <3>1. d.todo = <<"suspend">> /\ m \in Suspending(record)'
      BY <1>1, <1>5, <2>5 DEF Suspending
    <3>2. settled' = settled => Marking(d, m)'
      BY <2>3, <2>4, <3>1 DEF Marking
    <3> QED BY <1>2, <1>4, <1>13, <2>1, <3>1, <3>2, OneIsSome, GoesOnAlone DEF Stage
  <2>6. CASE c.todo = <<"publish", "resume">> /\ m \notin Failing(record)
    <3>1. d.todo = <<"resume">> /\ m \notin Failing(record)'
      BY <1>1, <1>5, <2>6 DEF Failing
    <3>2. settled' = settled => Marking(d, m)'
      BY <2>3, <2>4, <3>1 DEF Marking
    <3> QED BY <1>2, <1>4, <1>13, <2>1, <3>1, <3>2, OneIsSome, GoesOnAlone DEF Stage
  <2>7. CASE c.todo = <<"publish">> /\ MarksAgree
    <3>1. d.todo = <<>>
      BY <1>5, <2>7
    <3>2. settled' = settled \cup Settles(d.call) => settled' = settled \cup {"scheduler"}
      BY <1>4, <1>13 DEF Settles, Modifying
    <3>3. settled' = settled \cup {"scheduler"} => Agree'
      BY <1>1, <2>2, <2>3, <2>7 DEF Agree, RegistrationAgrees, MarksAgree, Failing, Suspending
    <3> QED BY <1>2, <1>4, <3>1, <3>2, <3>3, EndsAlone
  <2> QED BY <2>2, <2>5, <2>6, <2>7
<1>14. CASE c.call = "pick" /\ Picking(c)
  <2>1. c.todo = <<"publish", "pickAgain">> /\ Publishing(c) /\ Agree
    BY <1>2, <1>14 DEF Picking
  <2>2. d.todo = <<"pickAgain">>
    BY <1>5, <2>1
  <2>3. settled' = settled => Agree'
    BY <1>1, <1>7, <2>1 DEF Agree, RegistrationAgrees, MarksAgree
  <2>4. d.todo # <<>> /\ (settled' = settled => Picking(d)')
    BY <1>7, <2>1, <2>2, <2>3 DEF Picking
  <2> QED BY <1>2, <1>4, <1>14, <2>4, GoesOnAlone DEF Stage
<1>15. ~Starting(c) /\ ~Refreshed(c)
  BY <1>2, StageHeads
<1> HIDE DEF c
<1> QED BY <1>2, <1>8, <1>9, <1>10, <1>11, <1>12, <1>13, <1>14, <1>15, StageIs

LEMMA UpdateAlone ==
  ASSUME CallersOK, TablesOK, Alone, NEW p \in Process, solo = p, Update(p)
  PROVE  Alone' /\ (AtRest' => Agree')
<1> DEFINE c == process[p]
           yes == TRUE
<1>1. /\ At(p, "update") /\ UNCHANGED <<entry, serves, marks, solo, settled>>
      /\ record' = Stored(c.auth)
  BY UpdateStep
<1>2. /\ Stage(c) /\ c.call \in CallNames /\ c.todo # <<>> /\ Head(c.todo) = "update"
      /\ c.call # "none" /\ Rest(p) = Tail(c.todo)
  BY <1>1, SoloFacts, StepsAre
<1>3. PICK d : d = Made(c, Rest(p), Enabling(c.auth), c.held, yes, c.models)
  OBVIOUS
<1>4. process'[p] = d
  BY <1>3, UpdateStep DEF CallersOK
<1>5. \A q \in Process \ {p} : process'[q] = Idle
  <2>1. \A q \in Process \ {p} : process[q] = Idle
    BY NobodyIsNoProcess DEF Alone
  <2>2. ~Idle.live
    BY DEF Idle
  <2> SUFFICES ASSUME NEW q \in Process \ {p} PROVE process'[q] = Idle
    OBVIOUS
  <2>3. process'[q] = IF process[q].live
                      THEN Made(process[q], process[q].todo, process[q].auth, Blocking(record),
                                FALSE, process[q].models)
                      ELSE process[q]
    BY UpdateStep, Zenon
  <2> QED BY <2>1, <2>2, <2>3
<1> HIDE DEF yes
<1>6. /\ d.call = c.call /\ d.auth = Enabling(c.auth) /\ d.live /\ d.todo = Tail(c.todo)
  BY <1>2, <1>3 DEF Made, yes
<1>7. record \in Record /\ c.auth \in Record
  BY <1>1, CallerOK, StepsAre
<1>8. /\ record'.disabled = c.auth.disabled /\ record'.present = c.auth.present
      /\ d.auth.disabled = c.auth.disabled
  BY <1>1, <1>6, <1>7, StoredOK, EnablingOK
<1>9. Stage(d)'
  <2>1. CASE c.call = "modify" /\ Updating(c)
    <3>1. /\ c.todo = <<"update", "publish", "register", "supported",
                        "reconcile", "publish", "clone", "publish">>
          /\ c.auth.present
      BY <1>2, <2>1 DEF Updating
    <3>2. d.todo = <<"publish", "register", "supported", "reconcile", "publish", "clone", "publish">>
      BY <1>6, <3>1
    <3>3. Updating(d)'
      BY <1>8, <3>1, <3>2 DEF Updating
    <3> QED BY <1>6, <2>1, <3>3 DEF Stage
  <2>2. CASE c.call = "remove" /\ Removing(c)
    <3>1. c.todo = <<"update", "publish">> /\ c.auth.disabled /\ Gone
      BY <1>2, <2>2 DEF Removing
    <3>2. d.todo = <<"publish">>
      BY <1>6, <3>1
    <3>3. d.live /\ record'.disabled /\ Gone'
      BY <1>1, <1>6, <1>8, <3>1 DEF Gone
    <3>4. Removing(d)'
      BY <3>2, <3>3 DEF Removing
    <3> QED BY <1>6, <2>2, <3>4 DEF Stage
  <2>3. CASE c.call \in {"toggle", "refresh"} /\ Storing(c)
    <3>1. /\ c.todo = <<"update", "publish">> /\ RegistrationAgrees /\ MarksAgree
          /\ c.auth.states = record.states
          /\ c.call = "refresh" => c.auth = record
          /\ c.call = "toggle" => "registration" \notin settled
      BY <1>2, <2>3 DEF Storing
    <3>2. d.todo = <<"publish">>
      BY <1>6, <3>1
    <3>3. record' = c.auth
      BY <1>1, <1>7, <3>1, StoredOK
    <3>4. MarksAgree'
      <4>1. Failing(record') = Failing(record) /\ Suspending(record') = Suspending(record)
        BY <3>1, <3>3 DEF Failing, Suspending
      <4> QED BY <1>1, <3>1, <4>1 DEF MarksAgree
    <3>5. RegistrationAgrees'
      BY <1>1, <2>3, <3>1, <3>3 DEF RegistrationAgrees
    <3>6. Storing(d)'
      BY <1>6, <3>2, <3>4, <3>5 DEF Storing
    <3> QED BY <1>6, <2>3, <3>6 DEF Stage
  <2> HIDE DEF c
  <2> QED BY <1>2, <2>1, <2>2, <2>3, StageIs, StageHeads
<1>10. solo' = p /\ solo' # Nobody /\ d.call # "none"
  BY <1>1, <1>2, <1>6, NobodyIsNoProcess
<1>11. Alone'
  BY <1>4, <1>5, <1>9, <1>10 DEF Alone
<1>12. ~AtRest'
  BY <1>4, <1>10 DEF AtRest, Running
<1> QED BY <1>11, <1>12

LEMMA RegisterAlone ==
  ASSUME CallersOK, TablesOK, Alone, NEW p \in Process, solo = p,
         NEW offer \in SUBSET Model, Register(p, offer)
  PROVE  Alone' /\ (AtRest' => Agree')
<1> DEFINE c == process[p]
<1>1. /\ At(p, "register") /\ UNCHANGED <<record, entry>> /\ RegisterModels(c.auth, offer)
      /\ Continue(p, Made(c, Rest(p), NoRecord, c.held, c.live, c.models))
  BY RegisterStep
<1>2. /\ Stage(c) /\ c.call \in CallNames /\ c.todo # <<>> /\ Head(c.todo) = "register"
      /\ c.call # "none" /\ Rest(p) = Tail(c.todo)
  BY <1>1, SoloFacts, StepsAre
<1>3. PICK d : d = Made(c, Rest(p), NoRecord, c.held, c.live, c.models)
  OBVIOUS
<1>4. d.call = c.call /\ d.live = c.live /\ Continue(p, d)
  BY <1>1, <1>3 DEF Made
<1>5. d.todo = Tail(c.todo)
  BY <1>2, <1>3 DEF Made
<1>6. CASE c.call = "catalog" /\ Cataloguing(c)
  <2>1. /\ c.todo = <<"register", "supported", "reconcile", "publish", "latest">>
        /\ record.present /\ ~record.disabled /\ ~c.live
    BY <1>2, <1>6 DEF Cataloguing
  <2>2. d.todo = <<"supported", "reconcile", "publish", "latest">>
    BY <1>5, <2>1
  <2>3. Cataloguing(d)' /\ d.todo # <<>>
    BY <1>1, <1>4, <2>1, <2>2 DEF Cataloguing
  <2> QED BY <1>2, <1>4, <1>6, <2>3, GoesOnAlone DEF Stage
<1>7. CASE c.call \in {"modify", "catalog"} /\ Registering(c)
  <2>1. /\ c.todo = <<"register", "supported", "reconcile", "publish", "clone", "publish">>
        /\ c.auth.disabled = record.disabled /\ record.present /\ ~c.live
    BY <1>2, <1>7 DEF Registering
  <2>2. d.todo = <<"supported", "reconcile", "publish", "clone", "publish">>
    BY <1>5, <2>1
  <2>3. Registered'
    BY <1>1, <2>1 DEF Registered, RegisterModels, UnregisterModels
  <2>4. Registering(d)' /\ d.todo # <<>>
    BY <1>1, <1>4, <2>1, <2>2, <2>3 DEF Registering
  <2> QED BY <1>2, <1>4, <1>7, <2>4, GoesOnAlone DEF Stage
<1> HIDE DEF c
<1> QED BY <1>2, <1>6, <1>7, StageIs, StageHeads

LEMMA UnregisterAlone ==
  ASSUME CallersOK, TablesOK, Alone, NEW p \in Process, solo = p, Unregister(p)
  PROVE  Alone' /\ (AtRest' => Agree')
<1> DEFINE c == process[p]
<1>1. /\ At(p, "unregister") /\ UNCHANGED <<record, entry>> /\ UnregisterModels
      /\ Continue(p, Made(c, Rest(p), c.auth, c.held, c.live, c.models))
  BY UnregisterStep
<1>2. /\ Stage(c) /\ c.call \in CallNames /\ c.todo # <<>> /\ Head(c.todo) = "unregister"
      /\ c.call # "none" /\ Rest(p) = Tail(c.todo)
  BY <1>1, SoloFacts, StepsAre
<1>3. PICK d : d = Made(c, Rest(p), c.auth, c.held, c.live, c.models)
  OBVIOUS
<1>4. d.call = c.call /\ Continue(p, d)
  BY <1>1, <1>3 DEF Made
<1>5. d.todo = Tail(c.todo)
  BY <1>2, <1>3 DEF Made
<1>6. CASE Starting(c)
  <2>1. c.call = "remove" /\ Agree
    BY <1>2, <1>6, StartingCall DEF Starting
  <2>2. c.todo = <<"unregister", "get", "update", "publish">>
    BY <1>6, <2>1, ProgramHeads DEF Starting
  <2>3. d.todo = <<"get", "update", "publish">>
    BY <1>5, <2>2
  <2>4. Gone'
    BY <1>1 DEF Gone, UnregisterModels
  <2>5. settled' = settled =>
          ("scheduler" \in settled' /\ ~record'.present => entry' = EntryOf(record)')
    BY <1>1, <2>1 DEF Agree, SchedulerAgrees, EntryOf
  <2>6. d.todo # <<>> /\ (settled' = settled => Removing(d)')
    BY <2>3, <2>4, <2>5 DEF Removing
  <2> QED BY <1>2, <1>4, <2>1, <2>6, GoesOnAlone DEF Stage
<1> HIDE DEF c
<1> QED BY <1>2, <1>6, StageIs, StageHeads

LEMMA ReadSupportedAlone ==
  ASSUME CallersOK, TablesOK, Alone, NEW p \in Process, solo = p, ReadSupported(p)
  PROVE  Alone' /\ (AtRest' => Agree')
<1> DEFINE c == process[p]
<1>1. /\ At(p, "supported") /\ UNCHANGED <<record, entry, serves, marks>>
      /\ Continue(p, Made(c, Rest(p), c.auth, c.held, c.live, serves))
  BY ReadSupportedStep
<1>2. /\ Stage(c) /\ c.call \in CallNames /\ c.todo # <<>> /\ Head(c.todo) = "supported"
      /\ c.call # "none" /\ Rest(p) = Tail(c.todo)
  BY <1>1, SoloFacts, StepsAre
<1>3. PICK d : d = Made(c, Rest(p), c.auth, c.held, c.live, serves)
  OBVIOUS
<1>4. d.call = c.call /\ d.live = c.live /\ Continue(p, d)
  BY <1>1, <1>3 DEF Made
<1>5. d.todo = Tail(c.todo)
  BY <1>2, <1>3 DEF Made
<1>6. CASE c.call = "catalog" /\ Cataloguing(c)
  <2>1. /\ c.todo = <<"supported", "reconcile", "publish", "latest">>
        /\ record.present /\ ~record.disabled /\ ~c.live
    BY <1>2, <1>6 DEF Cataloguing
  <2>2. d.todo = <<"reconcile", "publish", "latest">>
    BY <1>5, <2>1
  <2>3. Cataloguing(d)' /\ d.todo # <<>>
    BY <1>1, <1>4, <2>1, <2>2 DEF Cataloguing
  <2> QED BY <1>2, <1>4, <1>6, <2>3, GoesOnAlone DEF Stage
<1>7. CASE c.call \in {"modify", "catalog"} /\ Registering(c)
  <2>1. /\ c.todo = <<"supported", "reconcile", "publish", "clone", "publish">>
        /\ record.present /\ ~c.live /\ Registered
    BY <1>2, <1>7 DEF Registering
  <2>2. d.todo = <<"reconcile", "publish", "clone", "publish">>
    BY <1>5, <2>1
  <2>3. Registered'
    BY <1>1, <2>1 DEF Registered
  <2>4. Registering(d)' /\ d.todo # <<>>
    BY <1>1, <1>4, <2>1, <2>2, <2>3 DEF Registering
  <2> QED BY <1>2, <1>4, <1>7, <2>4, GoesOnAlone DEF Stage
<1> HIDE DEF c
<1> QED BY <1>2, <1>6, <1>7, StageIs, StageHeads

LEMMA ReconcileAlone ==
  ASSUME CallersOK, TablesOK, Alone, NEW p \in Process, solo = p, Reconcile(p)
  PROVE  Alone' /\ (AtRest' => Agree')
<1> DEFINE c == process[p]
           t == IF record' = record THEN Tail(Rest(p)) ELSE Rest(p)
           held == IF record' = record THEN NoRecord ELSE Blocking(record')
           none == {}
<1>1. /\ At(p, "reconcile") /\ UNCHANGED <<entry, serves, marks>>
      /\ record' = Reconciled(record, c.models)
      /\ t \in Seq(Steps) => Continue(p, Made(c, t, c.auth, held, c.live, none))
  BY ReconcileStep
<1>2. /\ Stage(c) /\ c.call \in CallNames /\ c.todo # <<>> /\ Head(c.todo) = "reconcile"
      /\ c.call # "none" /\ Rest(p) = Tail(c.todo)
  BY <1>1, SoloFacts, StepsAre
<1>3. /\ record'.present = record.present /\ record'.disabled = record.disabled
      /\ Failing(record') = {}
  BY <1>1, CallerOK, ReconciledOK, StepsAre
<1> HIDE DEF held, none
<1>4. PICK d : d = Made(c, t, c.auth, held, c.live, none)
  OBVIOUS
<1>5. d.call = c.call /\ d.live = c.live /\ d.todo = t
  BY <1>4 DEF Made
<1>6. t \in Seq(Steps) => Continue(p, d)
  BY <1>1, <1>4
<1>7. CASE c.call = "catalog" /\ Cataloguing(c)
  <2>1. /\ c.todo = <<"reconcile", "publish", "latest">>
        /\ record.present /\ ~record.disabled /\ ~c.live
    BY <1>2, <1>7 DEF Cataloguing
  <2>2. Rest(p) = <<"publish", "latest">>
    BY <1>2, <2>1
  <2>3. t = <<"latest">> \/ t = <<"publish", "latest">>
    BY <2>2
  <2> HIDE DEF t
  <2>4. t \in Seq(Steps) /\ t # <<>>
    <3>1. CASE t = <<"latest">>
      BY <3>1 DEF Steps
    <3>2. CASE t = <<"publish", "latest">>
      BY <3>2 DEF Steps
    <3> QED BY <2>3, <3>1, <3>2
  <2>5. Cataloguing(d)' /\ d.todo # <<>>
    <3>1. record'.present /\ ~record'.disabled /\ ~d.live
      BY <1>3, <1>5, <2>1
    <3> QED BY <1>5, <2>3, <2>4, <3>1 DEF Cataloguing
  <2> QED BY <1>2, <1>5, <1>6, <1>7, <2>4, <2>5, GoesOnAlone DEF Stage
<1>8. CASE c.call \in {"modify", "catalog"} /\ Registering(c)
  <2>1. /\ c.todo = <<"reconcile", "publish", "clone", "publish">>
        /\ record.present /\ ~c.live /\ Registered
    BY <1>2, <1>8 DEF Registering
  <2>2. Rest(p) = <<"publish", "clone", "publish">>
    BY <1>2, <2>1
  <2>3. t = <<"clone", "publish">> \/ t = <<"publish", "clone", "publish">>
    BY <2>2
  <2> HIDE DEF t
  <2>4. t \in Seq(Steps) /\ t # <<>>
    <3>1. CASE t = <<"clone", "publish">>
      BY <3>1 DEF Steps
    <3>2. CASE t = <<"publish", "clone", "publish">>
      BY <3>2 DEF Steps
    <3> QED BY <2>3, <3>1, <3>2
  <2>5. Registered'
    BY <1>1, <1>3, <2>1 DEF Registered
  <2>6. Registering(d)' /\ d.todo # <<>>
    <3>1. record'.present /\ ~d.live
      BY <1>3, <1>5, <2>1
    <3> QED BY <1>3, <1>5, <2>3, <2>4, <2>5, <3>1 DEF Registering
  <2> QED BY <1>2, <1>5, <1>6, <1>8, <2>4, <2>6, GoesOnAlone DEF Stage
<1> HIDE DEF c
<1> QED BY <1>2, <1>7, <1>8, StageIs, StageHeads

LEMMA LatestAlone ==
  ASSUME CallersOK, TablesOK, Alone, NEW p \in Process, solo = p, Latest(p)
  PROVE  Alone' /\ (AtRest' => Agree')
<1> DEFINE c == process[p]
<1>1. At(p, "latest") /\ UNCHANGED <<record, entry, serves, marks>>
  BY LatestStep
<1>2. /\ Stage(c) /\ c.call \in CallNames /\ c.todo # <<>> /\ Head(c.todo) = "latest"
      /\ c.call # "none"
  BY <1>1, SoloFacts, StepsAre
<1>3. PICK t \in Seq(Steps) :
        /\ t = IF ~record.present \/ record.disabled
               THEN <<"unregister", "clone", "publish">>
               ELSE <<"register", "supported", "reconcile", "publish", "clone", "publish">>
        /\ Continue(p, Made(c, t, Enabling(record), c.held, c.live, c.models))
  BY LatestStep
<1>4. PICK d : d = Made(c, t, Enabling(record), c.held, c.live, c.models)
  OBVIOUS
<1>5. d.call = c.call /\ d.live = c.live /\ d.todo = t /\ d.auth = Enabling(record)
  BY <1>4 DEF Made
<1>6. Continue(p, d)
  BY <1>3, <1>4
<1>7. d.auth.disabled = record.disabled
  BY <1>5, EnablingOK DEF TablesOK
<1>8. CASE c.call = "catalog" /\ Cataloguing(c)
  <2>1. record.present /\ ~record.disabled /\ ~c.live
    BY <1>8 DEF Cataloguing
  <2>2. d.todo = <<"register", "supported", "reconcile", "publish", "clone", "publish">>
    BY <1>3, <1>5, <2>1
  <2>3. Registering(d)' /\ d.todo # <<>>
    BY <1>1, <1>5, <1>7, <2>1, <2>2 DEF Registering
  <2> QED BY <1>2, <1>5, <1>6, <1>8, <2>3, GoesOnAlone DEF Stage
<1> HIDE DEF c
<1> QED BY <1>2, <1>8, StageIs, StageHeads

LEMMA CloneAlone ==
  ASSUME CallersOK, TablesOK, Alone, NEW p \in Process, solo = p, Clone(p)
  PROVE  Alone' /\ (AtRest' => Agree')
<1> DEFINE c == process[p]
<1>1. /\ At(p, "clone") /\ UNCHANGED <<record, entry, serves, marks>>
      /\ record.present =>
           Continue(p, Made(c, Rest(p), c.auth, Blocking(record), c.live, c.models))
  BY CloneStep
<1>2. /\ Stage(c) /\ c.call \in CallNames /\ c.todo # <<>> /\ Head(c.todo) = "clone"
      /\ c.call # "none" /\ Rest(p) = Tail(c.todo)
  BY <1>1, SoloFacts, StepsAre
<1>3. PICK d : d = Made(c, Rest(p), c.auth, Blocking(record), c.live, c.models)
  OBVIOUS
<1>4. d.call = c.call /\ d.live = c.live /\ d.held = Blocking(record)
  BY <1>3 DEF Made
<1>5. d.todo = Tail(c.todo) /\ (record.present => Continue(p, d))
  BY <1>1, <1>2, <1>3 DEF Made
<1>6. Blocking(record)' = Blocking(record)
  BY <1>1 DEF Blocking
<1>7. CASE c.call \in {"modify", "catalog"} /\ Registering(c)
  <2>1. /\ c.todo = <<"clone", "publish">>
        /\ record.present /\ ~c.live /\ Registered /\ Failing(record) = {}
    BY <1>2, <1>7 DEF Registering
  <2>2. d.todo = <<"publish">>
    BY <1>5, <2>1
  <2>3. Registered' /\ Publishing(d)'
    BY <1>1, <1>4, <1>6, <2>1 DEF Registered, Publishing
  <2>4. Registering(d)' /\ d.todo # <<>>
    BY <1>1, <1>4, <2>1, <2>2, <2>3 DEF Registering
  <2> QED BY <1>2, <1>4, <1>5, <1>7, <2>1, <2>4, GoesOnAlone DEF Stage
<1>8. CASE c.call = "pick" /\ Picking(c)
  <2>1. c.todo = <<"clone", "publish", "pickAgain">> /\ record.present /\ ~c.live /\ Agree
    BY <1>2, <1>8 DEF Picking
  <2>2. d.todo = <<"publish", "pickAgain">>
    BY <1>5, <2>1
  <2>3. Publishing(d)'
    BY <1>4, <1>6, <2>1 DEF Publishing
  <2>4. settled' = settled => Agree'
    BY <1>1, <2>1 DEF Agree, SchedulerAgrees, RegistrationAgrees, MarksAgree, EntryOf
  <2>5. d.todo # <<>> /\ (settled' = settled => Picking(d)')
    BY <2>2, <2>3, <2>4 DEF Picking
  <2> QED BY <1>2, <1>4, <1>5, <1>8, <2>1, <2>5, GoesOnAlone DEF Stage
<1> HIDE DEF c
<1> QED BY <1>2, <1>7, <1>8, StageIs, StageHeads

LEMMA RefreshAlone ==
  ASSUME CallersOK, TablesOK, Alone, NEW p \in Process, solo = p,
         RefreshCancelled(p) \/ RefreshFailed(p) \/ RefreshSucceeded(p)
  PROVE  Alone' /\ (AtRest' => Agree')
<1> DEFINE c == process[p]
<1>1. At(p, "refreshed")
  BY DEF RefreshCancelled, RefreshFailed, RefreshSucceeded
<1>2. /\ Stage(c) /\ c.call \in CallNames /\ c.todo # <<>> /\ Head(c.todo) = "refreshed"
      /\ c.call # "none"
  BY <1>1, SoloFacts, StepsAre
<1>3. c.call = "refresh" /\ Refreshed(c)
  <2> HIDE DEF c
  <2> QED BY <1>2, StageIs, StageHeads
<1>4. Agree /\ c.auth = record
  BY <1>3 DEF Refreshed
<1>5. CASE RefreshCancelled(p)
  <2>1. Return(p) /\ UNCHANGED <<record, entry, serves, marks, settled>>
    BY <1>5 DEF RefreshCancelled, Return
  <2>2. Agree'
    BY <1>4, <2>1 DEF Agree, SchedulerAgrees, RegistrationAgrees, MarksAgree, EntryOf
  <2> QED BY <2>1, <2>2, ReturnAlone
<1>6. CASE RefreshFailed(p)
  <2> DEFINE t == <<>>
  <2>1. /\ UNCHANGED <<record, serves, marks>> /\ entry' = EntryOf(record)
        /\ Continue(p, Made(c, t, c.auth, c.held, c.live, c.models))
    BY <1>6, RefreshFailedStep
  <2>2. PICK d : d = Made(c, t, c.auth, c.held, c.live, c.models)
    OBVIOUS
  <2>3. d.call = c.call /\ d.todo = t
    BY <2>2 DEF Made
  <2>4. settled' = settled \cup Settles(d.call) => settled' = settled \cup {"scheduler"}
    BY <1>3, <2>3 DEF Settles, Modifying
  <2>5. settled' = settled \cup {"scheduler"} => Agree'
    BY <1>4, <2>1 DEF Agree, SchedulerAgrees, RegistrationAgrees, MarksAgree, EntryOf
  <2> QED BY <1>2, <2>1, <2>2, <2>3, <2>4, <2>5, EndsAlone
<1>7. CASE RefreshSucceeded(p)
  <2> DEFINE t == <<"update", "publish">>
  <2>1. /\ UNCHANGED <<record, entry, serves, marks>>
        /\ Continue(p, Made(c, t, c.auth, c.held, c.live, c.models))
    BY <1>7, RefreshSucceededStep
  <2>2. PICK d : d = Made(c, t, c.auth, c.held, c.live, c.models)
    OBVIOUS
  <2>3. d.call = c.call /\ d.todo = t /\ d.auth = c.auth
    BY <2>2 DEF Made
  <2>4. settled' = settled => RegistrationAgrees' /\ MarksAgree'
    BY <1>4, <2>1 DEF Agree, RegistrationAgrees, MarksAgree
  <2>5. settled' = settled => Storing(d)'
    BY <1>3, <1>4, <2>1, <2>3, <2>4 DEF Storing
  <2>6. d.todo # <<>>
    BY <2>3
  <2>7. Continue(p, d)
    BY <2>1, <2>2
  <2> QED BY <1>2, <1>3, <2>3, <2>5, <2>6, <2>7, GoesOnAlone DEF Stage
<1> QED BY <1>5, <1>6, <1>7

LEMMA RecordResultAlone ==
  ASSUME CallersOK, TablesOK, Alone, NEW p \in Process, solo = p,
         NEW outcome \in Outcomes, RecordResult(p, outcome)
  PROVE  Alone' /\ (AtRest' => Agree')
<1> DEFINE c == process[p]
<1>1. At(p, "record") /\ UNCHANGED <<entry, serves, marks>>
      /\ record' = Marked(record, ModelOf(p), outcome)
  BY RecordResultStep
<1>2. /\ Stage(c) /\ c.call \in CallNames /\ c.todo # <<>> /\ Head(c.todo) = "record"
      /\ c.call # "none"
  BY <1>1, SoloFacts, StepsAre
<1>3. Continue(p, Made(c, Reports(outcome), c.auth, Blocking(record'), c.live, c.models))
  BY RecordResultStep
<1>4. Starting(c) /\ c.call = "result"
  <2> HIDE DEF c
  <2> QED BY <1>2, StageIs, StageHeads, StartingCall
<1>5. Agree /\ ~c.live
  BY <1>4 DEF Starting
<1>6. PICK m \in Model : c.models = {m}
  BY <1>1, <1>4, AtFacts, StepsAre DEF Sound
<1>7. PICK s : s = Marked(record, m, outcome)
  OBVIOUS
<1>8. /\ s.disabled = record.disabled /\ s.present = record.present
      /\ Failing(s) \ {m} = Failing(record) \ {m}
      /\ Suspending(s) \ {m} = Suspending(record) \ {m}
      /\ outcome = "clean" => m \notin Failing(s)
      /\ outcome = "suspending" => m \in Suspending(s)
      /\ outcome \in {"noted", "cooling"} => m \in Failing(s) /\ m \notin Suspending(s)
      /\ outcome = "notFound" => s = record
  <2>1. record \in Record
    BY DEF TablesOK
  <2> QED BY <1>7, <2>1, MarkedOK
<1>9. record' = s
  <2>1. ModelOf(p) = m
    BY <1>6, ModelOfOK
  <2> QED BY <1>1, <1>7, <2>1
<1>10. PICK d : d = Made(c, Reports(outcome), c.auth, Blocking(record'), c.live, c.models)
  OBVIOUS
<1>11. /\ d.call = c.call /\ d.live = c.live /\ d.todo = Reports(outcome) /\ d.models = c.models
       /\ d.held = Blocking(record') /\ Continue(p, d)
  BY <1>3, <1>10 DEF Made
<1>12. d.todo # <<>>
  BY <1>11, ReportsOK
<1>13. settled' = settled => RegistrationAgrees'
  BY <1>1, <1>5, <1>8, <1>9 DEF Agree, RegistrationAgrees
<1>14. settled' = settled => AgreeBut(m)'
  BY <1>1, <1>5, <1>8, <1>9 DEF Agree, MarksAgree, AgreeBut
<1>15. Publishing(d)'
  <2>1. Blocking(record') = Blocking(record)'
    BY DEF Blocking, Blocked
  <2> QED BY <1>5, <1>11, <2>1 DEF Publishing
<1>16. CASE outcome = "clean"
  <2>1. d.todo = <<"publish", "resume">> /\ m \notin Failing(record)'
    BY <1>8, <1>9, <1>11, <1>16, ReportsOK
  <2>2. settled' = settled => Marking(d, m)'
    BY <1>13, <1>14, <1>15, <2>1 DEF Marking
  <2>3. settled' = settled => Stage(d)'
    BY <1>4, <1>6, <1>11, <2>2 DEF Stage
  <2> QED BY <1>2, <1>11, <1>12, <2>3, GoesOnAlone
<1>17. CASE outcome = "suspending"
  <2>1. d.todo = <<"publish", "suspend">> /\ m \in Suspending(record)'
    BY <1>8, <1>9, <1>11, <1>17, ReportsOK
  <2>2. settled' = settled => Marking(d, m)'
    BY <1>13, <1>14, <1>15, <2>1 DEF Marking
  <2>3. settled' = settled => Stage(d)'
    BY <1>4, <1>6, <1>11, <2>2 DEF Stage
  <2> QED BY <1>2, <1>11, <1>12, <2>3, GoesOnAlone
<1>18. CASE outcome \notin {"clean", "suspending"}
  <2>1. d.todo = <<"publish">>
    BY <1>11, <1>18, ReportsOK
  <2>2. settled' = settled => MarksAgree'
    <3>1. CASE outcome = "notFound"
      BY <1>1, <1>5, <1>8, <1>9, <3>1 DEF Agree, MarksAgree
    <3>2. CASE outcome # "notFound"
      <4>1. m \in Failing(s) /\ m \notin Suspending(s)
        BY <1>8, <1>18, <3>2 DEF Outcomes, State
      <4> QED BY <1>1, <1>5, <1>8, <1>9, <4>1 DEF Agree, MarksAgree
    <3> QED BY <3>1, <3>2
  <2>3. settled' = settled => Marking(d, m)'
    BY <1>13, <1>14, <1>15, <2>1, <2>2 DEF Marking
  <2>4. settled' = settled => Stage(d)'
    BY <1>4, <1>6, <1>11, <2>3 DEF Stage
  <2> QED BY <1>2, <1>11, <1>12, <2>4, GoesOnAlone
<1> QED BY <1>16, <1>17, <1>18

LEMMA ReportAlone ==
  ASSUME CallersOK, TablesOK, Alone, NEW p \in Process, solo = p,
         ReportFailure(p) \/ ReportSuccess(p)
  PROVE  Alone' /\ (AtRest' => Agree')
<1> DEFINE c == process[p]
<1>1. /\ At(p, "suspend") \/ At(p, "resume")
      /\ UNCHANGED <<record, entry, serves>>
      /\ At(p, "suspend") => marks' = Suspended(ModelOf(p))
      /\ At(p, "resume") => marks' = marks \ {ModelOf(p)}
      /\ Continue(p, Made(c, Rest(p), c.auth, c.held, c.live, c.models))
  BY ReportFailureStep, ReportSuccessStep DEF At
<1>2. /\ Stage(c) /\ c.call \in CallNames /\ c.todo # <<>>
      /\ Head(c.todo) \in {"suspend", "resume"}
      /\ c.call # "none" /\ Rest(p) = Tail(c.todo)
  BY <1>1, SoloFacts, StepsAre
<1>3. c.call = "result" /\ \E m \in Model : c.models = {m} /\ Marking(c, m)
  <2> HIDE DEF c
  <2> QED BY <1>2, StageIs, StageHeads
<1>4. PICK m \in Model : c.models = {m} /\ Marking(c, m)
  BY <1>3
<1>5. ModelOf(p) = m
  BY <1>4, ModelOfOK
<1>6. PICK d : d = Made(c, Rest(p), c.auth, c.held, c.live, c.models)
  OBVIOUS
<1>7. d.call = c.call /\ d.todo = Tail(c.todo) /\ Continue(p, d)
  BY <1>1, <1>2, <1>6 DEF Made
<1>8. /\ RegistrationAgrees /\ entry = EntryOf(record) /\ AgreeBut(m)
      /\ \/ c.todo = <<"suspend">> /\ m \in Suspending(record)
         \/ c.todo = <<"resume">> /\ m \notin Failing(record)
  BY <1>2, <1>4 DEF Marking
<1>9. marks \subseteq serves
  BY DEF TablesOK
<1>10. "marks" \in settled => /\ marks' \subseteq Failing(record)
                              /\ Suspending(record) \cap serves \subseteq marks'
  <2>1. CASE c.todo = <<"suspend">> /\ m \in Suspending(record)
    <3>1. marks' = Suspended(m)
      BY <1>1, <1>5, <2>1 DEF At
    <3>2. m \in Failing(record)
      BY <2>1, SuspendingFails
    <3> QED BY <1>8, <1>9, <3>1, <3>2 DEF AgreeBut, Suspended
  <2>2. CASE c.todo = <<"resume">> /\ m \notin Failing(record)
    <3>1. marks' = marks \ {m}
      BY <1>1, <1>5, <2>2 DEF At
    <3>2. m \notin Suspending(record)
      BY <2>2, SuspendingFails
    <3> QED BY <1>8, <2>2, <3>1, <3>2 DEF AgreeBut
  <2> QED BY <1>8, <2>1, <2>2
<1>11. d.todo = <<>>
  <2>1. CASE c.todo = <<"suspend">>
    BY <1>7, <2>1
  <2>2. CASE c.todo = <<"resume">>
    BY <1>7, <2>2
  <2> QED BY <1>8, <2>1, <2>2
<1>12. settled' = settled \cup Settles(d.call) => settled' = settled \cup {"scheduler"}
  BY <1>3, <1>7 DEF Settles, Modifying
<1>13. settled' = settled \cup {"scheduler"} => Agree'
  BY <1>1, <1>8, <1>10 DEF Agree, SchedulerAgrees, RegistrationAgrees, MarksAgree, EntryOf
<1> QED BY <1>2, <1>7, <1>11, <1>12, <1>13, EndsAlone

LEMMA PickAlone ==
  ASSUME CallersOK, TablesOK, Absent, Alone, NEW p \in Process, solo = p, Pick(p)
  PROVE  Alone' /\ (AtRest' => Agree')
<1> DEFINE c == process[p]
<1>1. At(p, "pick") /\ UNCHANGED <<record, entry, serves, marks>>
  BY PickStep
<1>2. /\ Stage(c) /\ c.call \in CallNames /\ c.todo # <<>> /\ Head(c.todo) = "pick"
      /\ c.call # "none"
  BY <1>1, SoloFacts, StepsAre
<1>3. Starting(c) /\ c.call = "pick"
  <2> HIDE DEF c
  <2> QED BY <1>2, StageIs, StageHeads, StartingCall
<1>4. Agree /\ ~c.live
  BY <1>3 DEF Starting
<1>5. settled' = settled => Agree'
  BY <1>1, <1>4 DEF Agree, SchedulerAgrees, RegistrationAgrees, MarksAgree, EntryOf
<1>6. CASE Return(p)
  BY <1>5, <1>6, ReturnAlone DEF Return
<1>7. ASSUME NEW t \in Seq(Steps),
             t = IF record.present THEN <<"clone", "publish", "pickAgain">>
                 ELSE <<"pickAgain">>,
             Continue(p, Made(c, t, c.auth, c.held, c.live, c.models))
      PROVE  Alone' /\ (AtRest' => Agree')
  <2>1. PICK d : d = Made(c, t, c.auth, c.held, c.live, c.models)
    OBVIOUS
  <2>2. d.call = c.call /\ d.todo = t /\ d.live = c.live /\ Continue(p, d)
    BY <1>7, <2>1 DEF Made
  <2>3. d.todo # <<>> /\ (settled' = settled => Picking(d)')
    <3>1. CASE record.present
      <4>1. d.todo = <<"clone", "publish", "pickAgain">>
        BY <1>7, <2>2, <3>1
      <4> QED BY <1>1, <1>4, <1>5, <2>2, <3>1, <4>1 DEF Picking
    <3>2. CASE ~record.present
      <4>1. d.todo = <<"pickAgain">>
        BY <1>7, <2>2, <3>2
      <4>2. entry' = EntryOf(record)'
        BY <1>1, <3>2 DEF Absent, EntryOf
      <4> QED BY <1>5, <4>1, <4>2 DEF Picking
    <3> QED BY <3>1, <3>2
  <2> QED BY <1>2, <1>3, <2>2, <2>3, GoesOnAlone DEF Stage
<1> QED BY <1>6, <1>7, PickStep

LEMMA PickAgainAlone ==
  ASSUME CallersOK, TablesOK, Alone, NEW p \in Process, solo = p, PickAgain(p)
  PROVE  Alone' /\ (AtRest' => Agree')
<1> DEFINE c == process[p]
<1>1. /\ At(p, "pickAgain") /\ UNCHANGED <<record, entry, serves, marks>>
      /\ Continue(p, Made(c, Rest(p), c.auth, c.held, c.live, c.models))
  BY PickAgainStep
<1>2. /\ Stage(c) /\ c.call \in CallNames /\ c.todo # <<>> /\ Head(c.todo) = "pickAgain"
      /\ c.call # "none" /\ Rest(p) = Tail(c.todo)
  BY <1>1, SoloFacts, StepsAre
<1>3. c.call = "pick" /\ Picking(c)
  <2> HIDE DEF c
  <2> QED BY <1>2, StageIs, StageHeads
<1>4. Agree /\ c.todo = <<"pickAgain">> /\ entry = EntryOf(record)
  BY <1>2, <1>3 DEF Picking
<1>5. PICK d : d = Made(c, Rest(p), c.auth, c.held, c.live, c.models)
  OBVIOUS
<1>6. d.call = c.call /\ d.todo = Tail(c.todo) /\ Continue(p, d)
  BY <1>1, <1>2, <1>5 DEF Made
<1>7. d.todo = <<>>
  BY <1>4, <1>6
<1>8. settled' = settled \cup Settles(d.call) => settled' = settled \cup {"scheduler"}
  BY <1>3, <1>6 DEF Settles, Modifying
<1>9. settled' = settled \cup {"scheduler"} => Agree'
  BY <1>1, <1>4 DEF Agree, SchedulerAgrees, RegistrationAgrees, MarksAgree, EntryOf
<1> QED BY <1>2, <1>6, <1>7, <1>8, <1>9, EndsAlone
-----------------------------------------------------------------------------
(* The invariant, and what it says of the runs' properties.                *)
LEMMA StepAlone ==
  ASSUME IInv, NEW p \in Process, BeginSome(p) \/ Acts(p)
  PROVE  Alone' /\ (AtRest' => Agree')
<1>1. CallersOK /\ TablesOK /\ Alone /\ Absent /\ (AtRest => Agree)
  BY TypedParts DEF IInv
<1>2. CASE BeginSome(p)
  BY <1>1, <1>2, BeginAlone
<1>3. CASE Acts(p) /\ solo # p
  BY <1>1, <1>3, OverlappedAct
<1>4. CASE Acts(p) /\ solo = p
  BY <1>1, <1>4, GetAlone, UpdateAlone, PublishAlone, RegisterAlone, UnregisterAlone,
     ReadSupportedAlone, ReconcileAlone, LatestAlone, CloneAlone, RefreshAlone,
     RecordResultAlone, ReportAlone, PickAlone, PickAgainAlone DEF Acts
<1> QED BY <1>2, <1>3, <1>4

LEMMA InvInit == Init => IInv
<1> SUFFICES ASSUME Init PROVE IInv
  OBVIOUS
<1>1. \A p \in Process : process[p] = Idle
  BY DEF Init
<1>2. TypeOK
  <2>1. entry \in Entry
    BY DEF Init, NoAuthEntry, Entry
  <2>2. process \in [Process -> Caller]
    BY IdleOK DEF Init
  <2> QED BY <2>1, <2>2, SimpleRecords DEF Init, TypeOK
<1>3. Typed
  BY <1>1, <1>2, IdleOK DEF Typed
<1>4. Carried /\ Absent
  BY <1>1, IdleCarries DEF Carried, Absent, Init
<1>5. AtRest /\ Alone
  BY <1>1, IdleOK DEF AtRest, Running, Alone, Init
<1>6. ~record.present /\ Failing(record) = {}
  BY DEF Init, NoRecord, NoStates, Failing
<1>7. Agree
  BY <1>6, GoneIsEmpty, SuspendingFails DEF Agree, SchedulerAgrees, RegistrationAgrees, MarksAgree, Init
<1> QED BY <1>3, <1>4, <1>5, <1>7 DEF IInv

LEMMA InvNext == IInv /\ [Next]_vars => IInv'
<1> SUFFICES ASSUME IInv, [Next]_vars PROVE IInv'
  OBVIOUS
<1>1. CASE Next
  <2>1. PICK p \in Process : BeginSome(p) \/ Acts(p)
    BY <1>1, NextIs
  <2>2. Typed' /\ Carried' /\ Absent'
    BY <2>1, ActsTyped, ActsCarried DEF IInv
  <2>3. Alone' /\ (AtRest' => Agree')
    BY <2>1, StepAlone
  <2> QED BY <2>2, <2>3 DEF IInv
<1>2. CASE UNCHANGED vars
  <2>1. UNCHANGED <<record, entry, serves, marks, process, solo, settled>>
    BY <1>2 DEF vars
  <2>2. Typed' /\ Carried' /\ Absent'
    BY <2>1 DEF IInv, Typed, TypeOK, Carried, Absent
  <2>3. \A c : Stage(c) => Stage(c)'
    BY <2>1 DEF Stage, Updating, Cataloguing, Registering, Removing, Storing, Refreshed,
       Marking, AgreeBut, Picking, Agree, SchedulerAgrees, RegistrationAgrees, MarksAgree, EntryOf,
       Registered, Gone, Publishing
  <2>4. Alone' /\ (AtRest' => Agree')
    BY <2>1, <2>3 DEF IInv, Alone, AtRest, Running, Agree, SchedulerAgrees,
       RegistrationAgrees, MarksAgree, EntryOf
  <2> QED BY <2>2, <2>4 DEF IInv
<1> QED BY <1>1, <1>2

LEMMA Invariant == Spec => []IInv
BY InvInit, InvNext, PTL DEF Spec

(* The types hold, however the calls interleave: every call carries what   *)
(* its remaining steps read.                                               *)
THEOREM TypeCorrect == Spec => []TypeOK
<1>1. IInv => TypeOK
  BY DEF IInv, Typed
<1> QED BY <1>1, Invariant, PTL

(* A call that publishes and that nothing overlapped leaves the scheduler  *)
(* with what the manager and the registry hold.                            *)
THEOREM SchedulerSettlesInvariant == Spec => []SchedulerSettles
<1>1. IInv => SchedulerSettles
  BY DEF IInv, Agree, SchedulerAgrees, SchedulerSettles
<1> QED BY <1>1, Invariant, PTL

(* After an undisturbed update, removal or catalog refresh, no disabled    *)
(* credential has models registered.                                       *)
THEOREM RegistrationSettlesInvariant == Spec => []RegistrationSettles
<1>1. IInv => RegistrationSettles
  BY DEF IInv, Agree, RegistrationAgrees, RegistrationSettles
<1> QED BY <1>1, Invariant, PTL

(* After an undisturbed update, removal or catalog refresh, the registry   *)
(* suspends no model that works again, and every registered one whose last *)
(* failure suspends it.                                                    *)
THEOREM MarksSettleInvariant == Spec => []MarksSettle
<1>1. IInv => MarksSettle
  BY DEF IInv, Agree, MarksAgree, MarksSettle
<1> QED BY <1>1, Invariant, PTL

(* A pick that nothing overlapped refuses no credential that can serve its *)
(* model: before it tries again the scheduler has been told.               *)
THEOREM UndisturbedPickFindsInvariant == Spec => []UndisturbedPickFinds
<1>1. ASSUME IInv PROVE UndisturbedPickFinds
  <2> SUFFICES ASSUME NEW p \in Process, At(p, "pickAgain"), solo = p, UsableFor(ModelOf(p))
               PROVE  Ready(ModelOf(p))
    BY DEF UndisturbedPickFinds
  <2> DEFINE c == process[p]
  <2>1. CallersOK /\ TablesOK /\ Alone
    BY <1>1, TypedParts DEF IInv
  <2>2. /\ Stage(c) /\ c.call \in CallNames /\ c.todo # <<>> /\ Head(c.todo) = "pickAgain"
    BY <2>1, SoloFacts, StepsAre
  <2>3. Picking(c)
    <3> HIDE DEF c
    <3> QED BY <2>2, StageIs, StageHeads
  <2>4. entry = EntryOf(record)
    BY <2>2, <2>3 DEF Picking
  <2> QED BY <2>4 DEF UsableFor, Ready, EntryOf
<1> QED BY <1>1, Invariant, PTL
=============================================================================
