------------------------- MODULE AuthWatcher_proofs -------------------------
(***************************************************************************)
(* Proofs about AuthWatcher: its type invariant, that what the service     *)
(* will be told is what currentAuths says, and that the cache of hashes    *)
(* has what the directory has once everything is handled.                  *)
(***************************************************************************)
EXTENDS AuthWatcher, SequenceTheorems, TLAPS

-----------------------------------------------------------------------------
(* The inductive invariant. *)

(* An agent holds updates only when it is through with computing them, and  *)
(* only the startup's reload waits for the watcher and rescans for it.      *)
Unencumbered ==
  /\ handler.pc = "idle" => handler = Idle
  /\ handler.pc # "idle" => handler.file \in File /\ held[Handler] = NoUpdates
  /\ handler.pc = "update" => handler.data \in Content
  /\ \A r \in Reload : reload[r].pc # "done" => held[r] = NoUpdates
  /\ \A r \in Reload : reload[r].pc \in {"none", "rescan"} => r = Startup

(* Before the watcher starts there are callbacks only.                      *)
Quiet ==
  ~Watching =>
    /\ pending = NoUpdates /\ batch = NoUpdates /\ runtime = {}
    /\ handler.pc = "idle" /\ events = <<>>
    /\ \A r \in Reload \ {Startup} : reload[r].pc = "off"
    /\ \A a \in Agent \ early : held[a] = NoUpdates

(* A callback that is yet to run holds nothing and was not early; what is   *)
(* in runtimeAuths is what the watcher was told.                            *)
SessionIsCurrent(s) ==
  /\ session[s] \in {"off", "gone"} => held[<<s, "connect">>] = NoUpdates /\ <<s, "connect">> \notin early
  /\ session[s] \in {"off", "on"} => held[<<s, "disconnect">>] = NoUpdates /\ <<s, "disconnect">> \notin early
  /\ s \in runtime <=> session[s] \in {"on", "dead"} /\ <<s, "connect">> \notin early
  /\ current[s] = IF s \in runtime THEN Connected ELSE None

(* What the service is to hold of a credential.                             *)
Due(i) == IF i \in File THEN current[i]
          ELSE IF session[i] \in {"on", "dead"} THEN Connected ELSE None

(* One agent at most has an update of a credential in hand, and it says     *)
(* what the service is to hold; with none in hand it will hold that.        *)
Told(i) ==
  i \notin loose =>
    /\ \A a \in Agent : i \in DOMAIN held[a] =>
         /\ held[a][i] = Due(i)
         /\ \A b \in Agent : i \in DOMAIN held[b] => b = a
    /\ (\A a \in Agent : i \notin DOMAIN held[a]) => WillServe[i] = Due(i)

(* Nothing overtakes what an early callback has to tell the service.        *)
Ahead(c) ==
  \A i \in DOMAIN held[c] : c \in early /\ i \notin loose =>
    i \notin DOMAIN pending \cup DOMAIN batch

(* The last notification of a file says whether it is there.                *)
LastTells(f) ==
  \A n \in 1..Len(events) :
    /\ events[n].file = f
    /\ \A m \in 1..Len(events) : m > n => events[m].file # f
    => events[n].op = IF disk[f] = None THEN "remove" ELSE "write"

Noted(f) == \E n \in 1..Len(events) : events[n].file = f

(* When no notification of a file is left and the cache has been built, the *)
(* hash is the file's, but for the exceptions of CacheTellsTheTruth, or the *)
(* event goroutine is about to make it so.                                  *)
Fresh(f) ==
  disk[f] # Partial /\ ~Noted(f) =>
    /\ handler.file # f =>
         \/ hash[f] = disk[f]
         \/ disk[f] \in Content \ Parsable
         \/ f \in swallowed /\ None \in {disk[f], hash[f]}
         \/ reload[Startup].pc \in {"none", "rescan"}
    /\ handler.file = f =>
         /\ handler.pc = "read" => disk[f] # None
         /\ handler.pc = "update" => handler.data = disk[f]
         /\ handler.pc = "remove" => disk[f] = None

(* A reload that is to compare has what the cache has of the files that are *)
(* not in doubt; and so has currentAuths when no reload runs.               *)
SeenAlike(r) ==
  reload[r].pc = "diff" =>
    \A f \in File \ reload[r].doubtful : reload[r].seen[f] = Yield(hash[f])

Matched(f) ==
  f \notin misread /\ (\A r \in Reload : reload[r].pc \in {"none", "off", "done"}) =>
    current[f] = Yield(hash[f])

IInv ==
  /\ TypeOK
  /\ Unencumbered /\ Quiet
  /\ \A s \in Session : SessionIsCurrent(s)
  /\ \A i \in Id : Told(i)
  /\ \A c \in Callback : Ahead(c)
  /\ \A f \in File : LastTells(f) /\ Fresh(f) /\ Matched(f)
  /\ \A r \in Reload : SeenAlike(r)

-----------------------------------------------------------------------------
(* Updates and notifications. *)

LEMMA NoUpdatesType == NoUpdates \in Updates /\ DOMAIN NoUpdates = {}
<1>1. NoUpdates = [x \in {} |-> None]
  BY DEF NoUpdates
<1> QED
  BY <1>1 DEF Updates, Value

LEMMA UpdatesType ==
  ASSUME NEW u \in Updates
  PROVE  /\ DOMAIN u \subseteq Id
         /\ \A i \in DOMAIN u : u[i] \in Value
  BY DEF Updates

LEMMA OneType ==
  ASSUME NEW i \in Id, NEW v \in Value
  PROVE  One(i, v) \in Updates /\ DOMAIN One(i, v) = {i} /\ One(i, v)[i] = v
<1>1. One(i, v) \in [{i} -> Value] /\ {i} \in SUBSET Id
  BY DEF One
<1>2. One(i, v) \in Updates
  BY <1>1 DEF Updates
<1> QED
  BY <1>2 DEF One

LEMMA OverType ==
  ASSUME NEW u \in Updates, NEW v \in Updates
  PROVE  /\ Over(u, v) \in Updates
         /\ DOMAIN Over(u, v) = DOMAIN u \cup DOMAIN v
         /\ \A i \in DOMAIN u : Over(u, v)[i] = u[i]
         /\ \A i \in DOMAIN v \ DOMAIN u : Over(u, v)[i] = v[i]
<1>1. PICK S \in SUBSET Id : u \in [S -> Value]
  BY DEF Updates
<1>2. PICK T \in SUBSET Id : v \in [T -> Value]
  BY DEF Updates
<1>3. Over(u, v) \in [S \cup T -> Value] /\ S \cup T \in SUBSET Id
  BY <1>1, <1>2 DEF Over
<1>4. Over(u, v) \in Updates
  BY <1>3 DEF Updates
<1> QED
  BY <1>4 DEF Over

LEMMA RestrictType ==
  ASSUME NEW u \in Updates, NEW S \in SUBSET DOMAIN u
  PROVE  /\ Restrict(u, S) \in Updates
         /\ DOMAIN Restrict(u, S) = S
         /\ \A i \in S : Restrict(u, S)[i] = u[i]
  BY DEF Updates, Restrict

LEMMA CurrentType ==
  ASSUME NEW u \in [Id -> Value]
  PROVE  u \in Updates /\ DOMAIN u = Id
  BY DEF Updates

LEMMA NotifyEffect ==
  ASSUME NEW f \in File, NEW ops, events \in Seq(Event), Notify(f, ops),
         ops = <<"remove">> \/ ops = <<"write">> \/ ops = <<"remove", "write">>
  PROVE  /\ events' \in Seq(Event)
         /\ Len(events') = Len(events) + Len(ops)
         /\ \A n \in 1..Len(events) : events'[n] = events[n]
         /\ \A n \in Len(events) + 1..Len(events') : events'[n].file = f
         /\ events'[Len(events')].op = ops[Len(ops)]
<1> DEFINE added == [n \in DOMAIN ops |-> [file |-> f, op |-> ops[n]]]
<1>1. /\ Len(ops) \in {1, 2} /\ DOMAIN ops = 1..Len(ops)
      /\ \A n \in 1..Len(ops) : ops[n] \in {"write", "remove"}
  OBVIOUS
<1>2. added \in Seq(Event) /\ Len(added) = Len(ops)
  <2>1. \A n \in 1..Len(ops) : [file |-> f, op |-> ops[n]] \in Event
    BY <1>1 DEF Event
  <2>2. added \in [1..Len(ops) -> Event] /\ Len(ops) \in Nat
    BY <1>1, <2>1
  <2> QED
    BY <2>2
<1>3. \A n \in 1..Len(ops) : added[n].file = f /\ added[n].op = ops[n]
  BY <1>1
<1>4. events' = events \o added
  BY DEF Notify
<1> HIDE DEF added
<1>5. /\ events' \in Seq(Event) /\ Len(events') = Len(events) + Len(ops)
      /\ \A n \in 1..Len(events) : events'[n] = events[n]
      /\ \A n \in Len(events) + 1..Len(events') : events'[n] = added[n - Len(events)]
  <2>1. /\ events' \in Seq(Event)
        /\ Len(events') = Len(events) + Len(added)
        /\ \A n \in 1..Len(events) + Len(added) :
             events'[n] = IF n <= Len(events) THEN events[n] ELSE added[n - Len(events)]
    <3>1. /\ events \o added \in Seq(Event)
          /\ Len(events \o added) = Len(events) + Len(added)
          /\ \A n \in 1..Len(events) + Len(added) :
               (events \o added)[n] = IF n <= Len(events) THEN events[n] ELSE added[n - Len(events)]
      BY <1>2, ConcatProperties
    <3> QED
      BY <1>4, <3>1
  <2>2. Len(events) \in Nat /\ Len(added) \in Nat
    BY <1>2
  <2> QED
    BY <1>2, <2>1, <2>2
<1>6. Len(events) \in Nat
  OBVIOUS
<1>7. \A n \in Len(events) + 1..Len(events') : n - Len(events) \in 1..Len(ops)
  BY <1>1, <1>5, <1>6
<1>8. Len(events') \in Len(events) + 1..Len(events') /\ Len(events') - Len(events) = Len(ops)
  BY <1>1, <1>5, <1>6
<1>9. \A n \in Len(events) + 1..Len(events') : events'[n].file = f
  <2> SUFFICES ASSUME NEW n \in Len(events) + 1..Len(events') PROVE events'[n].file = f
    OBVIOUS
  <2>1. events'[n] = added[n - Len(events)] /\ n - Len(events) \in 1..Len(ops)
    BY <1>5, <1>7
  <2> QED
    BY <1>3, <2>1
<1>10. events'[Len(events')].op = ops[Len(ops)]
  <2>1. events'[Len(events')] = added[Len(ops)] /\ Len(ops) \in 1..Len(ops)
    BY <1>1, <1>5, <1>8
  <2> QED
    BY <1>3, <2>1
<1> QED
  BY <1>5, <1>9, <1>10

(* A step of the file system changes one file and notifies of it last what  *)
(* it has become.                                                           *)
LEMMA TouchEffect ==
  ASSUME TypeOK, NEW f \in File, Touch(f)
  PROVE  /\ disk' \in [File -> Content \cup {None, Partial}]
         /\ changes' \in 0..MaxChanges
         /\ events' \in Seq(Event)
         /\ Len(events') \in Nat /\ Len(events') > Len(events)
         /\ \A n \in 1..Len(events) : events'[n] = events[n]
         /\ \A n \in Len(events) + 1..Len(events') : events'[n].file = f
         /\ events'[Len(events')].op = IF disk'[f] = None THEN "remove" ELSE "write"
         /\ \A g \in File \ {f} : disk'[g] = disk[g]
<1>1. PICK c \in Content \cup {None, Partial} : Change(f, c) \/ (c \in Content /\ Finish(f, c))
  BY DEF Touch
<1>2. disk' = [disk EXCEPT ![f] = c] /\ changes' \in 0..MaxChanges
  <2>1. changes \in Nat /\ MaxChanges \in Nat /\ changes \in 0..MaxChanges
    BY WatcherAssumption DEF TypeOK
  <2> QED
    BY <1>1, <2>1 DEF Change, Finish
<1>3. events \in Seq(Event) /\ Len(events) \in Nat
  BY DEF TypeOK
<1>4. PICK ops : /\ Notify(f, ops)
                 /\ ops = <<"remove">> \/ ops = <<"write">> \/ ops = <<"remove", "write">>
                 /\ ops[Len(ops)] = IF c = None THEN "remove" ELSE "write"
                 /\ Len(ops) \in {1, 2}
  <2>1. CASE c = None /\ Notify(f, <<"remove">>)
    BY <2>1
  <2>2. CASE c # None /\ Notify(f, <<"write">>)
    BY <2>2
  <2>3. CASE c \in Content /\ Notify(f, <<"remove", "write">>)
    BY <2>3, WatcherAssumption
  <2> QED
    BY <1>1, <2>1, <2>2, <2>3, WatcherAssumption DEF Change, Finish
<1>5. /\ events' \in Seq(Event)
      /\ Len(events') = Len(events) + Len(ops)
      /\ \A n \in 1..Len(events) : events'[n] = events[n]
      /\ \A n \in Len(events) + 1..Len(events') : events'[n].file = f
      /\ events'[Len(events')].op = ops[Len(ops)]
  BY <1>3, <1>4, NotifyEffect
<1>6. /\ disk'[f] = c /\ disk' \in [File -> Content \cup {None, Partial}]
      /\ \A g \in File \ {f} : disk'[g] = disk[g]
  BY <1>2 DEF TypeOK
<1>7. Len(events') \in Nat /\ Len(events') > Len(events)
  <2>1. Len(events') = Len(events) + Len(ops)
    BY <1>5
  <2>2. Len(ops) \in {1, 2}
    BY <1>4
  <2>3. CASE Len(ops) = 1
    BY <1>3, <2>1, <2>3
  <2>4. CASE Len(ops) = 2
    BY <1>3, <2>1, <2>4
  <2> QED
    BY <2>2, <2>3, <2>4
<1> QED
  BY <1>2, <1>4, <1>5, <1>6, <1>7

LEMMA TakeEffect ==
  ASSUME TypeOK, TakeEvent
  PROVE  /\ events' \in Seq(Event)
         /\ Len(events) \in Nat \ {0} /\ Len(events') = Len(events) - 1
         /\ Head(events) = events[1] /\ events[1] \in Event
         /\ \A n \in 1..Len(events') : n + 1 \in 1..Len(events) /\ events'[n] = events[n + 1]
         /\ \A n \in 1..Len(events) : n # 1 => n - 1 \in 1..Len(events') /\ events'[n - 1] = events[n]
<1>1. events \in Seq(Event) /\ events # <<>> /\ events' = Tail(events)
  BY DEF TypeOK, TakeEvent
<1> QED
  BY <1>1

-----------------------------------------------------------------------------
(* Types. *)

HeldType ==
  /\ held \in [Agent -> Updates]
  /\ \A c \in Callback : DOMAIN held[c] \subseteq {c[1]}
  /\ DOMAIN held[Handler] \subseteq File

(* A callback is told apart from the other agents and from its opposite.    *)
LEMMA CallbackType ==
  /\ \A c \in Callback : c[1] \in Session /\ c[1] \in Id /\ c[1] \notin File
                         /\ c \in Agent /\ c # Handler /\ c \notin Reload
  /\ \A s \in Session : <<s, "connect">> \in Callback /\ <<s, "disconnect">> \in Callback
  /\ \A s, t : <<s, "connect">> # <<t, "disconnect">>
  /\ \A s, t, k : s # t => <<s, k>> # <<t, "connect">> /\ <<s, k>> # <<t, "disconnect">>
  /\ Handler \in Agent /\ Handler \notin Reload /\ Reload \subseteq Agent
  BY WatcherAssumption DEF Callback, Agent, Id

LEMMA HoldEffect ==
  ASSUME HeldType, loose \subseteq Id,
         NEW a \in Agent, NEW u \in Updates, Hold(a, u),
         a = Handler => DOMAIN u \subseteq File,
         a \in Callback => DOMAIN u \subseteq {a[1]}
  PROVE  /\ HeldType' /\ loose' \subseteq Id
         /\ held'[a] = u /\ \A b \in Agent \ {a} : held'[b] = held[b]
         /\ loose' = (loose \ DOMAIN u) \cup
                     {i \in DOMAIN u : \E b \in Agent \ {a} : i \in DOMAIN held[b]}
<1>1. DOMAIN u \subseteq Id
  BY UpdatesType
<1>2. /\ held' = [held EXCEPT ![a] = u]
      /\ loose' = (loose \ DOMAIN u) \cup
                  {i \in DOMAIN u : \E b \in Agent \ {a} : i \in DOMAIN held[b]}
  BY DEF Hold
<1>3. held'[a] = u /\ (\A b \in Agent \ {a} : held'[b] = held[b]) /\ held' \in [Agent -> Updates]
  BY <1>2 DEF HeldType
<1>4. HeldType'
  <2>1. \A c \in Callback : c \in Agent
    BY CallbackType
  <2>2. Handler \in Agent
    BY CallbackType
  <2>3. \A c \in Callback : DOMAIN held'[c] \subseteq {c[1]}
    BY <1>3, <2>1 DEF HeldType
  <2>4. DOMAIN held'[Handler] \subseteq File
    BY <1>3, <2>2 DEF HeldType
  <2> QED
    BY <1>3, <2>3, <2>4 DEF HeldType
<1> QED
  BY <1>1, <1>2, <1>3, <1>4

LEMMA InitTypeOK == Init => TypeOK
  BY WatcherAssumption, NoUpdatesType
     DEF Init, TypeOK, Idle, NoFiles, Handling, Run, Value, Agent, Event

LEMMA YieldType == \A x \in Content \cup {None, Partial} : Yield(x) \in Content \cup {None}
  BY WatcherAssumption DEF Yield

LEMMA SynthesizedType ==
  ASSUME TypeOK
  PROVE  [f \in File |-> Synthesized(f)] \in [File -> Content \cup {None}]
  BY YieldType DEF Synthesized, TypeOK

-----------------------------------------------------------------------------
(* What each action does. *)

(* The event goroutine stores what a file holds, v: whom it tells of it.    *)
Stored(f, v, u) ==
  /\ u \in Updates /\ DOMAIN u \subseteq {f} /\ (f \in DOMAIN u => u[f] = v)
  /\ u # NoUpdates => f \in DOMAIN u
  /\ f \notin DOMAIN u => current[f] = v \/ (v = None /\ hash[f] \notin Yielding)

LEMMA PerPathType ==
  ASSUME TypeOK, NEW f \in File, NEW v \in Content \cup {None}
  PROVE  Stored(f, v, PerPathUpdates(f, v))
<1>1. f \in Id /\ v \in Value /\ None \in Value
  BY DEF Id, Value
<1>2. /\ One(f, v) \in Updates /\ DOMAIN One(f, v) = {f} /\ One(f, v)[f] = v
      /\ One(f, None) \in Updates /\ DOMAIN One(f, None) = {f} /\ One(f, None)[f] = None
  BY <1>1, OneType
<1>3. Stored(f, v, One(f, v)) /\ (v = None => Stored(f, v, One(f, None)))
  BY <1>2 DEF Stored
<1>4. current[f] = v \/ (v = None /\ hash[f] \notin Yielding) => Stored(f, v, NoUpdates)
  BY NoUpdatesType DEF Stored
<1> QED
  BY <1>3, <1>4 DEF PerPathUpdates

LEMMA OvertakenEffect ==
  ASSUME reload \in [Reload -> Run], NEW f \in File, reload' = Overtaken(f)
  PROVE  /\ reload' \in [Reload -> Run]
         /\ \A r \in Reload : /\ reload'[r].pc = reload[r].pc
                              /\ reload'[r].seen = reload[r].seen
                              /\ reload[r].pc = "diff" => reload'[r].doubtful = reload[r].doubtful \cup {f}
<1>1. ASSUME NEW q \in Run
      PROVE  /\ [q EXCEPT !.doubtful = @ \cup {f}] \in Run
             /\ [q EXCEPT !.doubtful = @ \cup {f}].pc = q.pc
             /\ [q EXCEPT !.doubtful = @ \cup {f}].seen = q.seen
             /\ [q EXCEPT !.doubtful = @ \cup {f}].doubtful = q.doubtful \cup {f}
  BY DEF Run
<1> SUFFICES ASSUME NEW r \in Reload
             PROVE  /\ reload'[r] \in Run
                    /\ reload'[r].pc = reload[r].pc
                    /\ reload'[r].seen = reload[r].seen
                    /\ reload[r].pc = "diff" => reload'[r].doubtful = reload[r].doubtful \cup {f}
  BY DEF Overtaken
<1>2. reload'[r] = IF reload[r].pc = "diff"
                   THEN [reload[r] EXCEPT !.doubtful = @ \cup {f}] ELSE reload[r]
  BY DEF Overtaken
<1> QED
  BY <1>1, <1>2

LEMMA StoreEffect ==
  ASSUME TypeOK, NEW f \in File, NEW data \in Content \cup {None}, Store(f, data)
  PROVE  \E u :
         /\ Stored(f, Yield(data), u)
         /\ HeldType' /\ loose' \subseteq Id
         /\ held'[Handler] = u /\ \A b \in Agent \ {Handler} : held'[b] = held[b]
         /\ loose' = (loose \ DOMAIN u) \cup
                     {i \in DOMAIN u : \E b \in Agent \ {Handler} : i \in DOMAIN held[b]}
         /\ current' \in [Id -> Value]
         /\ \A i \in Id : current'[i] = IF i \in DOMAIN u THEN u[i] ELSE current[i]
         /\ hash' = [hash EXCEPT ![f] = data]
         /\ reload' = Overtaken(f)
         /\ misread' = IF Yield(data) = None /\ u = NoUpdates THEN misread ELSE misread \ {f}
<1>1. PICK u : u = PerPathUpdates(f, Yield(data))
  OBVIOUS
<1>2. Stored(f, Yield(data), u)
  BY <1>1, PerPathType, YieldType
<1>3. /\ hash' = [hash EXCEPT ![f] = data] /\ current' = Over(u, current) /\ Hold(Handler, u)
      /\ reload' = Overtaken(f)
      /\ misread' = IF Yield(data) = None /\ u = NoUpdates THEN misread ELSE misread \ {f}
  BY <1>1 DEF Store, Remember
<1>4. HeldType /\ loose \subseteq Id /\ current \in [Id -> Value] /\ f \in Id
  BY DEF TypeOK, HeldType, Id
<1>5. u \in Updates /\ DOMAIN u \subseteq File /\ DOMAIN u \subseteq Id
  BY <1>2, <1>4 DEF Stored
<1>6. /\ HeldType' /\ loose' \subseteq Id
      /\ held'[Handler] = u /\ \A b \in Agent \ {Handler} : held'[b] = held[b]
      /\ loose' = (loose \ DOMAIN u) \cup
                  {i \in DOMAIN u : \E b \in Agent \ {Handler} : i \in DOMAIN held[b]}
  BY <1>3, <1>4, <1>5, HoldEffect, CallbackType
<1>7. /\ current' \in [Id -> Value]
      /\ \A i \in Id : current'[i] = IF i \in DOMAIN u THEN u[i] ELSE current[i]
  <2>1. \A i \in DOMAIN u : u[i] \in Value
    BY <1>5, UpdatesType
  <2>2. DOMAIN u \cup DOMAIN current = Id
    BY <1>4, <1>5
  <2> QED
    BY <1>3, <1>4, <2>1, <2>2 DEF Over
<1> QED
  BY <1>2, <1>3, <1>6, <1>7

LEMMA StoreType ==
  ASSUME TypeOK, NEW f \in File, NEW data \in Content \cup {None}, Store(f, data)
  PROVE  /\ HeldType' /\ loose' \subseteq Id /\ current' \in [Id -> Value]
         /\ hash' \in [File -> Content \cup {None}]
         /\ reload' \in [Reload -> Run] /\ misread' \subseteq File
<1>1. PICK u :
        /\ Stored(f, Yield(data), u)
        /\ HeldType' /\ loose' \subseteq Id
        /\ held'[Handler] = u /\ \A b \in Agent \ {Handler} : held'[b] = held[b]
        /\ loose' = (loose \ DOMAIN u) \cup
                    {i \in DOMAIN u : \E b \in Agent \ {Handler} : i \in DOMAIN held[b]}
        /\ current' \in [Id -> Value]
        /\ \A i \in Id : current'[i] = IF i \in DOMAIN u THEN u[i] ELSE current[i]
        /\ hash' = [hash EXCEPT ![f] = data]
        /\ reload' = Overtaken(f)
        /\ misread' = IF Yield(data) = None /\ u = NoUpdates THEN misread ELSE misread \ {f}
  BY StoreEffect
<1>2. hash \in [File -> Content \cup {None}] /\ reload \in [Reload -> Run] /\ misread \subseteq File
  BY DEF TypeOK
<1>3. reload' \in [Reload -> Run]
  BY <1>1, <1>2, OvertakenEffect
<1> QED
  BY <1>1, <1>2, <1>3

LEMMA FileType ==
  ASSUME TypeOK, Unencumbered,
         (\E f \in File : Touch(f)) \/ TakeEvent \/ Wake \/ ReadFile
  PROVE  TypeOK'
<1> USE DEF TypeOK, sessionVars
<1>1. ASSUME NEW f \in File, Touch(f) PROVE TypeOK'
  BY <1>1, TouchEffect DEF Touch, dispatchVars
<1>2. CASE TakeEvent
  <2>1. Head(events).file \in File
    BY <1>2, TakeEffect DEF Event
  <2>2. handler' \in Handling
    BY <1>2, <2>1 DEF TakeEvent, Goto, Idle, Handling
  <2> QED
    BY <1>2, <2>1, <2>2, TakeEffect DEF TakeEvent, dispatchVars
<1>3. CASE Wake
  <2>1. handler' \in Handling
    BY <1>3 DEF Wake, Goto, Idle, Handling, Unencumbered
  <2> QED
    BY <1>3, <2>1 DEF Wake, fileVars, dispatchVars
<1>4. CASE ReadFile
  <2>1. handler.file \in File /\ (Readable(disk[handler.file]) => disk[handler.file] \in Content)
    BY <1>4, WatcherAssumption DEF ReadFile, Readable, Unencumbered
  <2>2. handler' \in Handling
    BY <1>4, <2>1 DEF ReadFile, Goto, Idle, Handling
  <2> QED
    BY <1>4, <2>2 DEF ReadFile, fileVars, dispatchVars
<1> QED
  BY <1>1, <1>2, <1>3, <1>4

LEMMA ClientType ==
  ASSUME TypeOK, Unencumbered, AddOrUpdateClient \/ RemoveClient
  PROVE  TypeOK'
<1> USE DEF TypeOK
<1>1. handler.file \in File /\ handler' \in Handling
  BY DEF Unencumbered, AddOrUpdateClient, RemoveClient, Idle, Handling
<1>2. ASSUME NEW data \in Content \cup {None}, Store(handler.file, data),
             UNCHANGED <<fileVars, recent, sessionVars, dispatchVars, swallowed>>
      PROVE  TypeOK'
  <2>1. /\ HeldType' /\ loose' \subseteq Id /\ current' \in [Id -> Value]
        /\ hash' \in [File -> Content \cup {None}]
        /\ reload' \in [Reload -> Run] /\ misread' \subseteq File
    BY <1>1, <1>2, StoreType
  <2> QED
    BY <1>1, <1>2, <2>1 DEF fileVars, sessionVars, dispatchVars, HeldType
<1>3. CASE AddOrUpdateClient
  <2>1. handler.data \in Content
    BY <1>3 DEF Unencumbered, AddOrUpdateClient
  <2>2. CASE hash[handler.file] = handler.data
    BY <1>1, <1>3, <2>2 DEF AddOrUpdateClient, fileVars, sessionVars, dispatchVars
  <2>3. CASE hash[handler.file] # handler.data
    BY <1>2, <1>3, <2>1, <2>3 DEF AddOrUpdateClient
  <2> QED
    BY <2>2, <2>3
<1>4. CASE RemoveClient
  BY <1>2, <1>4 DEF RemoveClient
<1> QED
  BY <1>3, <1>4

(* What a reload makes the current state, and what it tells of it.          *)
LEMMA NewStateType ==
  ASSUME TypeOK, NEW r \in Reload
  PROVE  /\ NewState(r) \in [Id -> Value]
         /\ ToTell(r) \subseteq Id
         /\ Restrict(NewState(r), ToTell(r)) \in Updates
         /\ DOMAIN Restrict(NewState(r), ToTell(r)) = ToTell(r)
         /\ \A i \in ToTell(r) : Restrict(NewState(r), ToTell(r))[i] = NewState(r)[i]
<1>1. reload[r].seen \in [File -> Content \cup {None}]
  BY DEF TypeOK, Run
<1>2. NewState(r) \in [Id -> Value] /\ ToTell(r) \subseteq Id
  BY <1>1 DEF NewState, ToTell, Value
<1>3. NewState(r) \in Updates /\ ToTell(r) \in SUBSET DOMAIN NewState(r)
  BY <1>2, CurrentType
<1> QED
  BY <1>2, <1>3, RestrictType

LEMMA DiffEffect ==
  ASSUME TypeOK, NEW r \in Reload, Diff(r)
  PROVE  /\ HeldType' /\ loose' \subseteq Id
         /\ current' = NewState(r)
         /\ held'[r] = Restrict(NewState(r), ToTell(r))
         /\ \A b \in Agent \ {r} : held'[b] = held[b]
         /\ loose' = (loose \ ToTell(r)) \cup
                     {i \in ToTell(r) : \E b \in Agent \ {r} : i \in DOMAIN held[b]}
         /\ reload' \in [Reload -> Run]
         /\ reload[r].pc = "diff" /\ reload'[r].pc = "done"
         /\ \A q \in Reload \ {r} : reload'[q] = reload[q]
         /\ misread' = reload[r].doubtful /\ misread' \subseteq File
<1>1. HeldType /\ loose \subseteq Id
  BY DEF TypeOK, HeldType
<1>2. r \in Agent /\ r # Handler /\ r \notin Callback
  BY CallbackType
<1>3. Hold(r, Restrict(NewState(r), ToTell(r))) /\ current' = NewState(r)
  BY DEF Diff
<1>4. /\ Restrict(NewState(r), ToTell(r)) \in Updates
      /\ DOMAIN Restrict(NewState(r), ToTell(r)) = ToTell(r)
  BY NewStateType
<1> DEFINE u == Restrict(NewState(r), ToTell(r))
<1> HIDE DEF u
<1>5. u \in Updates /\ Hold(r, u) /\ DOMAIN u = ToTell(r)
  BY <1>3, <1>4 DEF u
<1>6. /\ HeldType' /\ loose' \subseteq Id
      /\ held'[r] = u /\ \A b \in Agent \ {r} : held'[b] = held[b]
      /\ loose' = (loose \ DOMAIN u) \cup
                  {i \in DOMAIN u : \E b \in Agent \ {r} : i \in DOMAIN held[b]}
  BY <1>1, <1>2, <1>5, HoldEffect
<1>7. /\ reload' \in [Reload -> Run] /\ reload'[r].pc = "done"
      /\ \A q \in Reload \ {r} : reload'[q] = reload[q]
      /\ misread' = reload[r].doubtful /\ misread' \subseteq File
  <2>1. reload \in [Reload -> Run] /\ reload[r] \in Run /\ NoFiles \in [File -> Content \cup {None}]
    BY DEF TypeOK, NoFiles
  <2>2. PICK q : q = [reload[r] EXCEPT !.pc = "done", !.seen = NoFiles, !.doubtful = {}]
    OBVIOUS
  <2>3. q \in Run /\ q.pc = "done"
    BY <2>1, <2>2 DEF Run
  <2>4. reload' = [reload EXCEPT ![r] = q] /\ misread' = reload[r].doubtful
    BY <2>2 DEF Diff
  <2>5. reload[r].doubtful \subseteq File
    BY <2>1 DEF Run
  <2> QED
    BY <2>1, <2>3, <2>4, <2>5
<1>8. reload[r].pc = "diff"
  BY DEF Diff
<1> QED
  BY <1>3, <1>5, <1>6, <1>7, <1>8 DEF u

LEMMA StartEffect ==
  ASSUME TypeOK, StartWatcher
  PROVE  /\ reload' \in [Reload -> Run]
         /\ Startup \in Reload /\ reload[Startup].pc = "none" /\ reload'[Startup].pc = "rescan"
         /\ \A q \in Reload \ {Startup} : reload'[q] = reload[q]
<1>1. reload \in [Reload -> Run] /\ Startup \in Reload /\ reload[Startup] \in Run
  BY WatcherAssumption DEF TypeOK
<1>2. PICK q : q = [reload[Startup] EXCEPT !.pc = "rescan"]
  OBVIOUS
<1>3. q \in Run /\ q.pc = "rescan"
  BY <1>1, <1>2 DEF Run
<1>4. reload' = [reload EXCEPT ![Startup] = q] /\ reload[Startup].pc = "none"
  BY <1>2 DEF StartWatcher, Watching
<1> QED
  BY <1>1, <1>3, <1>4

LEMMA BeginEffect ==
  ASSUME TypeOK, NEW r \in Reload, BeginReload(r)
  PROVE  /\ reload' \in [Reload -> Run]
         /\ reload[r].pc = "off" /\ reload'[r].pc \in {"moved", "snapshot"}
         /\ \A q \in Reload \ {r} : reload'[q] = reload[q]
         /\ current' \in [Id -> Value] /\ \A i \in Id \ File : current'[i] = current[i]
         /\ loose' = loose \cup {i \in Id : current'[i] # current[i]}
<1>1. PICK change \in ConfigChange :
        /\ reload' = [reload EXCEPT ![r].pc = IF "moves" \in change THEN "moved" ELSE "snapshot",
                                    ![r].force = "forces" \in change]
        /\ current' = [i \in Id |-> IF "excludes" \in change /\ i \in File
                                    THEN None ELSE current[i]]
  BY DEF BeginReload
<1>2. reload \in [Reload -> Run] /\ reload[r] \in Run
  BY DEF TypeOK
<1>3. PICK q : q = [reload[r] EXCEPT !.pc = IF "moves" \in change THEN "moved" ELSE "snapshot",
                                     !.force = "forces" \in change]
  OBVIOUS
<1>4. q \in Run /\ q.pc \in {"moved", "snapshot"}
  <2>1. ("forces" \in change) \in BOOLEAN
    OBVIOUS
  <2>2. \A b \in BOOLEAN, p \in {"moved", "snapshot"} :
          /\ [reload[r] EXCEPT !.pc = p, !.force = b] \in Run
          /\ [reload[r] EXCEPT !.pc = p, !.force = b].pc = p
    BY <1>2 DEF Run
  <2> QED
    BY <1>3, <2>1, <2>2
<1>5. reload' = [reload EXCEPT ![r] = q]
  BY <1>1, <1>3
<1>6. current' \in [Id -> Value] /\ \A i \in Id \ File : current'[i] = current[i]
  BY <1>1 DEF TypeOK, Value
<1> QED
  BY <1>2, <1>4, <1>5, <1>6 DEF BeginReload

LEMMA RescanEffect ==
  ASSUME TypeOK, NEW r \in Reload, Rescan(r)
  PROVE  /\ reload' \in [Reload -> Run]
         /\ reload'[r].pc = "snapshot"
         /\ \A q \in Reload \ {r} : reload'[q].pc = reload[q].pc
         /\ \A q \in Reload \ {r} : reload[q].pc = "diff" => reload'[q].doubtful = File
         /\ hash' \in [File -> Content \cup {None}] /\ swallowed' \subseteq File
         /\ \/ /\ reload[r].pc = "rescan" /\ swallowed' = swallowed
               /\ \A f \in File : hash'[f] = IF disk[f] \in Content THEN disk[f] ELSE None
            \/ /\ reload[r].pc = "moved" /\ swallowed' = File
               /\ \A f \in File : hash'[f] = None
<1>1. reload \in [Reload -> Run]
  BY DEF TypeOK
<1>2. ASSUME NEW q \in Run
      PROVE  /\ [q EXCEPT !.pc = "snapshot"] \in Run /\ [q EXCEPT !.pc = "snapshot"].pc = "snapshot"
             /\ [q EXCEPT !.doubtful = File] \in Run /\ [q EXCEPT !.doubtful = File].pc = q.pc
             /\ [q EXCEPT !.doubtful = File].doubtful = File
  BY DEF Run
<1>3. ASSUME NEW q \in Reload
      PROVE  /\ reload'[q] \in Run
             /\ q = r => reload'[q].pc = "snapshot"
             /\ q # r => reload'[q].pc = reload[q].pc
             /\ q # r /\ reload[q].pc = "diff" => reload'[q].doubtful = File
  <2>1. reload'[q] = IF q = r THEN [reload[q] EXCEPT !.pc = "snapshot"]
                     ELSE IF reload[q].pc = "diff" THEN [reload[q] EXCEPT !.doubtful = File]
                     ELSE reload[q]
    BY DEF Rescan
  <2> QED
    BY <1>1, <1>2, <2>1
<1>4. reload' \in [Reload -> Run]
  BY <1>3 DEF Rescan
<1>5. /\ hash' \in [File -> Content \cup {None}] /\ swallowed' \subseteq File
      /\ \/ /\ reload[r].pc = "rescan" /\ swallowed' = swallowed
            /\ \A f \in File : hash'[f] = IF disk[f] \in Content THEN disk[f] ELSE None
         \/ /\ reload[r].pc = "moved" /\ swallowed' = File
            /\ \A f \in File : hash'[f] = None
  BY DEF Rescan, TypeOK, NoFiles
<1> QED
  BY <1>3, <1>4, <1>5

LEMMA SnapshotEffect ==
  ASSUME TypeOK, NEW r \in Reload, Snapshot(r)
  PROVE  /\ reload' \in [Reload -> Run]
         /\ reload[r].pc = "snapshot" /\ reload'[r].pc = "diff"
         /\ \A f \in File \ reload'[r].doubtful : reload'[r].seen[f] = Yield(hash[f])
         /\ \A q \in Reload \ {r} : reload'[q] = reload[q]
<1>1. reload \in [Reload -> Run] /\ reload[r] \in Run
  BY DEF TypeOK
<1>2. PICK seen : seen = [f \in File |-> Synthesized(f)]
  OBVIOUS
<1>3. PICK doubtful : doubtful = {f \in File : Synthesized(f) # Yield(hash[f])}
  OBVIOUS
<1>4. /\ seen \in [File -> Content \cup {None}] /\ doubtful \subseteq File
      /\ \A f \in File \ doubtful : seen[f] = Yield(hash[f])
  BY <1>2, <1>3, SynthesizedType
<1>5. PICK q : q = [reload[r] EXCEPT !.pc = "diff", !.seen = seen, !.doubtful = doubtful]
  OBVIOUS
<1>6. q \in Run /\ q.pc = "diff" /\ q.seen = seen /\ q.doubtful = doubtful
  BY <1>1, <1>4, <1>5 DEF Run
<1>7. reload' = [reload EXCEPT ![r] = q] /\ reload[r].pc = "snapshot"
  BY <1>2, <1>3, <1>5 DEF Snapshot
<1> QED
  BY <1>1, <1>4, <1>6, <1>7

LEMMA RuntimeEffect ==
  ASSUME TypeOK, NEW c \in Callback, NEW value \in Value, RuntimeUpdate(c, value)
  PROVE  /\ HeldType' /\ loose' \subseteq Id
         /\ DOMAIN held'[c] = {c[1]} /\ held'[c][c[1]] = value
         /\ \A b \in Agent \ {c} : held'[b] = held[b]
         /\ loose' = (loose \ {c[1]}) \cup
                     {i \in {c[1]} : \E b \in Agent \ {c} : i \in DOMAIN held[b]}
         /\ current' \in [Id -> Value] /\ runtime' \subseteq Session /\ early' \subseteq Callback
<1>1. HeldType /\ loose \subseteq Id
  BY DEF TypeOK, HeldType
<1>2. c \in Agent /\ c # Handler /\ c[1] \in Id /\ c[1] \in Session
  BY CallbackType
<1>3. One(c[1], value) \in Updates /\ DOMAIN One(c[1], value) = {c[1]} /\ One(c[1], value)[c[1]] = value
  BY <1>2, OneType
<1>4. Hold(c, One(c[1], value))
  BY DEF RuntimeUpdate
<1> DEFINE u == One(c[1], value)
<1> HIDE DEF u
<1>5. u \in Updates /\ Hold(c, u) /\ DOMAIN u = {c[1]} /\ u[c[1]] = value
  BY <1>3, <1>4 DEF u
<1>6. /\ HeldType' /\ loose' \subseteq Id
      /\ held'[c] = u /\ \A b \in Agent \ {c} : held'[b] = held[b]
      /\ loose' = (loose \ DOMAIN u) \cup
                  {i \in DOMAIN u : \E b \in Agent \ {c} : i \in DOMAIN held[b]}
  BY <1>1, <1>2, <1>5, HoldEffect
<1>7. current' \in [Id -> Value] /\ runtime' \subseteq Session /\ early' \subseteq Callback
  BY <1>2 DEF RuntimeUpdate, TypeOK
<1> QED
  BY <1>5, <1>6, <1>7

-----------------------------------------------------------------------------
(* Types. *)

LEMMA ReloadType ==
  ASSUME TypeOK, NEW r \in Reload, BeginReload(r) \/ Rescan(r) \/ Snapshot(r) \/ Diff(r)
  PROVE  TypeOK'
<1> USE DEF TypeOK, fileVars, sessionVars, dispatchVars
<1>1. CASE BeginReload(r)
  <2>1. reload' \in [Reload -> Run] /\ current' \in [Id -> Value] /\ loose' \subseteq Id
    BY <1>1, BeginEffect
  <2> QED
    BY <1>1, <2>1 DEF BeginReload
<1>2. CASE Rescan(r)
  <2>1. /\ reload' \in [Reload -> Run]
        /\ hash' \in [File -> Content \cup {None}] /\ swallowed' \subseteq File
    BY <1>2, RescanEffect
  <2> QED
    BY <1>2, <2>1 DEF Rescan
<1>3. CASE Snapshot(r)
  <2>1. reload' \in [Reload -> Run]
    BY <1>3, SnapshotEffect
  <2> QED
    BY <1>3, <2>1 DEF Snapshot
<1>4. CASE Diff(r)
  <2>1. HeldType' /\ loose' \subseteq Id /\ reload' \in [Reload -> Run] /\ misread' \subseteq File
    BY <1>4, DiffEffect
  <2>2. current' \in [Id -> Value]
    BY <1>4, DiffEffect, NewStateType
  <2> QED
    BY <1>4, <2>1, <2>2 DEF Diff, HeldType
<1> QED
  BY <1>1, <1>2, <1>3, <1>4

LEMMA StartType == TypeOK /\ StartWatcher => TypeOK'
<1> SUFFICES ASSUME TypeOK, StartWatcher PROVE TypeOK'
  OBVIOUS
<1>1. reload' \in [Reload -> Run]
  BY StartEffect
<1> QED
  BY <1>1 DEF StartWatcher, TypeOK, fileVars, sessionVars, dispatchVars

LEMMA SessionType ==
  ASSUME TypeOK, NEW s \in Session, OnConnected(s) \/ OnDisconnected(s)
  PROVE  TypeOK'
<1> USE DEF TypeOK
<1>1. PICK c \in Callback, value \in Value : RuntimeUpdate(c, value)
  BY CallbackType DEF OnConnected, OnDisconnected, Value
<1>2. /\ HeldType' /\ loose' \subseteq Id
      /\ current' \in [Id -> Value] /\ runtime' \subseteq Session /\ early' \subseteq Callback
  BY <1>1, RuntimeEffect
<1>3. changes' \in 0..MaxChanges
  <2>1. MaxChanges \in Nat
    BY WatcherAssumption
  <2> QED
    BY <1>1, <2>1 DEF RuntimeUpdate
<1>4. session' \in [Session -> {"off", "on", "over", "gone", "dead"}]
  BY DEF OnConnected, OnDisconnected
<1> QED
  BY <1>1, <1>2, <1>3, <1>4 DEF RuntimeUpdate, dispatchVars, HeldType

LEMMA DispatchType ==
  ASSUME TypeOK,
         (\E a \in Agent : HandOver(a)) \/ NextPendingBatch \/ (\E i \in Id : Send(i))
  PROVE  TypeOK'
<1> USE DEF TypeOK, fileVars, sessionVars
<1>1. ASSUME NEW a \in Agent, HandOver(a) PROVE TypeOK'
  <2>1. held[a] \in Updates
    OBVIOUS
  <2>2. pending' \in Updates
    <3>1. Over(held[a], pending) \in Updates
      BY <2>1, OverType
    <3>2. pending' = Over(held[a], pending) \/ pending' = pending
      BY <1>1 DEF HandOver, Dispatched
    <3> QED
      BY <3>1, <3>2
  <2>3. served' \in [Id -> Value]
    <3>1. DOMAIN held[a] \cup DOMAIN served = Id /\ \A i \in DOMAIN held[a] : held[a][i] \in Value
      BY <2>1, UpdatesType
    <3>2. Over(held[a], served) \in [Id -> Value]
      BY <3>1 DEF Over
    <3>3. CASE a \in early
      BY <1>1, <3>2, <3>3 DEF HandOver
    <3>4. CASE a \notin early
      BY <1>1, <3>4 DEF HandOver
    <3> QED
      BY <3>3, <3>4
  <2>4. HeldType'
    BY <1>1, NoUpdatesType, CallbackType DEF HandOver, HeldType
  <2> QED
    BY <1>1, <2>2, <2>3, <2>4 DEF HandOver, HeldType
<1>2. CASE NextPendingBatch
  BY <1>2, NoUpdatesType DEF NextPendingBatch
<1>3. ASSUME NEW i \in Id, Send(i) PROVE TypeOK'
  <2>1. batch' \in Updates
    BY <1>3, RestrictType DEF Send
  <2>2. batch[i] \in Value
    BY <1>3, UpdatesType DEF Send
  <2> QED
    BY <1>3, <2>1, <2>2 DEF Send
<1> QED
  BY <1>1, <1>2, <1>3

-----------------------------------------------------------------------------
(* What the service will be told. *)

LEMMA WillServeIs ==
  ASSUME NEW p \in Updates, NEW b \in Updates, NEW s \in [Id -> Value], NEW i \in Id
  PROVE  Over(p, Over(b, s))[i] =
           IF i \in DOMAIN p THEN p[i] ELSE IF i \in DOMAIN b THEN b[i] ELSE s[i]
<1>1. DOMAIN s = Id
  OBVIOUS
<1>2. /\ DOMAIN Over(b, s) = DOMAIN b \cup Id
      /\ Over(b, s)[i] = IF i \in DOMAIN b THEN b[i] ELSE s[i]
  BY <1>1 DEF Over
<1>3. \A t : i \in DOMAIN t => Over(p, t)[i] = IF i \in DOMAIN p THEN p[i] ELSE t[i]
  BY DEF Over
<1> QED
  BY <1>2, <1>3

LEMMA WillServeAt ==
  ASSUME NEW i \in Id
  PROVE  /\ TypeOK => WillServe[i] = IF i \in DOMAIN pending THEN pending[i]
                                    ELSE IF i \in DOMAIN batch THEN batch[i] ELSE served[i]
         /\ TypeOK' => WillServe'[i] = IF i \in DOMAIN pending' THEN pending'[i]
                                      ELSE IF i \in DOMAIN batch' THEN batch'[i] ELSE served'[i]
<1>1. TypeOK => pending \in Updates /\ batch \in Updates /\ served \in [Id -> Value]
  BY DEF TypeOK
<1>2. TypeOK' => pending' \in Updates /\ batch' \in Updates /\ served' \in [Id -> Value]
  BY DEF TypeOK
<1>3. WillServe[i] = Over(pending, Over(batch, served))[i]
      /\ WillServe'[i] = Over(pending', Over(batch', served'))[i]
  BY DEF WillServe
<1>4. CASE TypeOK /\ TypeOK'
  BY <1>1, <1>2, <1>3, <1>4, WillServeIs
<1>5. CASE TypeOK /\ ~TypeOK'
  BY <1>1, <1>3, <1>5, WillServeIs
<1>6. CASE ~TypeOK /\ TypeOK'
  BY <1>2, <1>3, <1>6, WillServeIs
<1> QED
  BY <1>4, <1>5, <1>6

(* An agent that held nothing leaves the lock with what it has changed.     *)
LEMMA HoldTold ==
  ASSUME NEW a \in Agent, NEW u,
         DOMAIN held[a] = {}, held'[a] = u, \A b \in Agent \ {a} : held'[b] = held[b],
         loose' = (loose \ DOMAIN u) \cup
                  {j \in DOMAIN u : \E b \in Agent \ {a} : j \in DOMAIN held[b]},
         UNCHANGED <<pending, batch, served>>,
         NEW i \in Id, Told(i),
         i \in DOMAIN u => u[i] = Due(i)',
         i \notin DOMAIN u => Due(i)' = Due(i)
  PROVE  Told(i)'
<1>1. WillServe' = WillServe
  BY DEF WillServe
<1>2. CASE i \in DOMAIN u
  BY <1>2 DEF Told
<1>3. CASE i \notin DOMAIN u
  BY <1>1, <1>3 DEF Told
<1> QED
  BY <1>2, <1>3

LEMMA HandOverTold ==
  ASSUME TypeOK, TypeOK', NEW a \in Agent, HandOver(a), \A c \in Callback : Ahead(c),
         NEW i \in Id, Told(i)
  PROVE  Told(i)'
<1>1. /\ held'[a] = NoUpdates /\ \A b \in Agent \ {a} : held'[b] = held[b]
      /\ UNCHANGED <<current, session, loose, batch>>
  BY DEF HandOver, TypeOK, sessionVars
<1>2. held[a] \in Updates /\ DOMAIN held'[a] = {}
  BY <1>1, NoUpdatesType DEF TypeOK
<1>3. WillServe[i] = IF i \in DOMAIN pending THEN pending[i]
                     ELSE IF i \in DOMAIN batch THEN batch[i] ELSE served[i]
  BY WillServeAt
<1>4. WillServe'[i] = IF i \in DOMAIN pending' THEN pending'[i]
                      ELSE IF i \in DOMAIN batch' THEN batch'[i] ELSE served'[i]
  BY WillServeAt
<1>5. Due(i)' = Due(i)
  BY <1>1 DEF Due
<1>6. /\ i \in DOMAIN held[a] /\ i \notin loose => WillServe'[i] = held[a][i]
      /\ i \notin DOMAIN held[a] => WillServe'[i] = WillServe[i]
  <2>1. CASE a \in early
    <3>1. served' = Over(held[a], served) /\ pending' = pending /\ a \in Callback
      BY <2>1 DEF HandOver, TypeOK
    <3>2. served'[i] = IF i \in DOMAIN held[a] THEN held[a][i] ELSE served[i]
      <4>1. i \in DOMAIN served
        BY DEF TypeOK
      <4> QED
        BY <3>1, <4>1 DEF Over
    <3>3. i \in DOMAIN held[a] /\ i \notin loose => i \notin DOMAIN pending \cup DOMAIN batch
      BY <2>1, <3>1 DEF Ahead
    <3> QED
      BY <1>1, <1>3, <1>4, <3>1, <3>2, <3>3
  <2>2. CASE a \notin early
    <3>1. pending' = Over(held[a], pending) /\ served' = served
      BY <2>2 DEF HandOver, Dispatched
    <3>2. pending \in Updates
      BY DEF TypeOK
    <3>3. /\ DOMAIN Over(held[a], pending) = DOMAIN held[a] \cup DOMAIN pending
          /\ \A x \in DOMAIN held[a] : Over(held[a], pending)[x] = held[a][x]
          /\ \A x \in DOMAIN pending \ DOMAIN held[a] : Over(held[a], pending)[x] = pending[x]
      BY <1>2, <3>2, OverType, Zenon
    <3> QED
      BY <1>1, <1>3, <1>4, <3>1, <3>3
  <2> QED
    BY <2>1, <2>2
<1>7. CASE i \in DOMAIN held[a]
  BY <1>1, <1>2, <1>5, <1>6, <1>7 DEF Told
<1>8. CASE i \notin DOMAIN held[a]
  BY <1>1, <1>2, <1>5, <1>6, <1>8 DEF Told
<1> QED
  BY <1>7, <1>8

LEMMA BatchTold ==
  ASSUME TypeOK, TypeOK', NextPendingBatch \/ (\E j \in Id : Send(j)), NEW i \in Id, Told(i)
  PROVE  Told(i)'
<1>1. UNCHANGED <<held, current, session, loose>>
  BY DEF NextPendingBatch, Send, sessionVars
<1>2. WillServe[i] = IF i \in DOMAIN pending THEN pending[i]
                     ELSE IF i \in DOMAIN batch THEN batch[i] ELSE served[i]
  BY WillServeAt
<1>3. WillServe'[i] = IF i \in DOMAIN pending' THEN pending'[i]
                      ELSE IF i \in DOMAIN batch' THEN batch'[i] ELSE served'[i]
  BY WillServeAt
<1>4. WillServe'[i] = WillServe[i]
  <2>1. CASE NextPendingBatch
    BY <1>2, <1>3, <2>1, NoUpdatesType DEF NextPendingBatch
  <2>2. ASSUME NEW j \in Id, Send(j) PROVE WillServe'[i] = WillServe[i]
    <3>1. /\ j \in DOMAIN batch /\ UNCHANGED pending
          /\ served'[j] = batch[j] /\ \A k \in Id \ {j} : served'[k] = served[k]
      BY <2>2 DEF Send, TypeOK
    <3>2. /\ DOMAIN batch' = DOMAIN batch \ {j}
          /\ \A k \in DOMAIN batch \ {j} : batch'[k] = batch[k]
      BY <2>2, RestrictType DEF Send, TypeOK
    <3> QED
      BY <1>2, <1>3, <3>1, <3>2
  <2> QED
    BY <2>1, <2>2
<1>5. Due(i)' = Due(i)
  BY <1>1 DEF Due
<1> QED
  BY <1>1, <1>4, <1>5 DEF Told

LEMMA StaysTold ==
  ASSUME UNCHANGED <<held, pending, batch, served, session>>,
         NEW i \in Id, Told(i),
         i \notin loose' => i \notin loose /\ (i \in File => current'[i] = current[i])
  PROVE  Told(i)'
<1>1. WillServe' = WillServe
  BY DEF WillServe
<1>2. i \notin loose' => Due(i)' = Due(i)
  BY DEF Due
<1> QED
  BY <1>1, <1>2 DEF Told

LEMMA StoreTold ==
  ASSUME TypeOK, NEW f \in File, NEW data \in Content \cup {None}, Store(f, data),
         UNCHANGED <<pending, batch, served, session>>, held[Handler] = NoUpdates,
         NEW i \in Id, Told(i)
  PROVE  Told(i)'
<1>1. PICK u :
        /\ Stored(f, Yield(data), u)
        /\ HeldType' /\ loose' \subseteq Id
        /\ held'[Handler] = u /\ \A b \in Agent \ {Handler} : held'[b] = held[b]
        /\ loose' = (loose \ DOMAIN u) \cup
                    {j \in DOMAIN u : \E b \in Agent \ {Handler} : j \in DOMAIN held[b]}
        /\ current' \in [Id -> Value]
        /\ \A j \in Id : current'[j] = IF j \in DOMAIN u THEN u[j] ELSE current[j]
        /\ hash' = [hash EXCEPT ![f] = data]
        /\ reload' = Overtaken(f)
        /\ misread' = IF Yield(data) = None /\ u = NoUpdates THEN misread ELSE misread \ {f}
  BY StoreEffect
<1>2. DOMAIN held[Handler] = {} /\ Handler \in Agent
  BY NoUpdatesType, CallbackType
<1>3. i \in DOMAIN u => u[i] = Due(i)'
  BY <1>1 DEF Due, Stored
<1>4. i \notin DOMAIN u => Due(i)' = Due(i)
  BY <1>1 DEF Due
<1> QED
  BY <1>1, <1>2, <1>3, <1>4, HoldTold

LEMMA DiffTold ==
  ASSUME TypeOK, Unencumbered, NEW r \in Reload, Diff(r), NEW i \in Id, Told(i),
         \A s \in Session : SessionIsCurrent(s)
  PROVE  Told(i)'
<1>1. /\ held'[r] = Restrict(NewState(r), ToTell(r)) /\ current' = NewState(r)
      /\ \A b \in Agent \ {r} : held'[b] = held[b]
      /\ loose' = (loose \ ToTell(r)) \cup
                  {j \in ToTell(r) : \E b \in Agent \ {r} : j \in DOMAIN held[b]}
      /\ reload[r].pc = "diff"
  BY DiffEffect
<1>2. /\ DOMAIN Restrict(NewState(r), ToTell(r)) = ToTell(r)
      /\ i \in ToTell(r) => Restrict(NewState(r), ToTell(r))[i] = NewState(r)[i]
  BY NewStateType
<1>3. r \in Agent /\ DOMAIN held[r] = {} /\ UNCHANGED <<pending, batch, served, session>>
  BY <1>1, NoUpdatesType DEF Agent, Unencumbered, Diff, dispatchVars, sessionVars
<1>4. i \in ToTell(r) => NewState(r)[i] = Due(i)'
  <2>1. CASE i \in File
    BY <1>1, <2>1 DEF Due
  <2>2. CASE i \notin File
    <3>1. i \in Session /\ NewState(r)[i] = IF i \in runtime THEN Connected ELSE None
      BY <2>2 DEF NewState, Id
    <3>2. current[i] = (IF i \in runtime THEN Connected ELSE None)
          /\ (i \in runtime => session[i] \in {"on", "dead"})
      BY <3>1 DEF SessionIsCurrent
    <3>3. i \in ToTell(r) => i \in runtime
      BY <3>1, <3>2 DEF ToTell
    <3> QED
      BY <1>3, <2>2, <3>1, <3>2, <3>3 DEF Due
  <2> QED
    BY <2>1, <2>2
<1>5. i \notin ToTell(r) => Due(i)' = Due(i)
  <2>1. i \notin ToTell(r) => NewState(r)[i] = current[i]
    BY DEF ToTell
  <2> QED
    BY <1>1, <1>3, <2>1 DEF Due
<1> DEFINE u == Restrict(NewState(r), ToTell(r))
<1> HIDE DEF u
<1>6. /\ held'[r] = u /\ DOMAIN u = ToTell(r)
      /\ i \in DOMAIN u => u[i] = Due(i)'
      /\ i \notin DOMAIN u => Due(i)' = Due(i)
  BY <1>1, <1>2, <1>4, <1>5 DEF u
<1> QED
  BY <1>1, <1>3, <1>6, HoldTold

(* What a callback finds and leaves.                                        *)
LEMMA CallbackEffect ==
  ASSUME TypeOK, NEW s \in Session, SessionIsCurrent(s), OnConnected(s) \/ OnDisconnected(s)
  PROVE  \E c \in Callback, value \in Value :
           /\ c[1] = s /\ RuntimeUpdate(c, value)
           /\ held[c] = NoUpdates /\ c \notin early
           /\ value = IF session'[s] \in {"on", "dead"} THEN Connected ELSE None
           /\ \A q \in Session \ {s} : session'[q] = session[q]
           /\ \/ /\ c = <<s, "connect">> /\ session[s] \in {"off", "gone"}
                 /\ session'[s] \in {"on", "dead"} /\ (session'[s] = "on" <=> session[s] = "off")
              \/ /\ c = <<s, "disconnect">> /\ session[s] \in {"off", "on"}
                 /\ session'[s] \in {"over", "gone"} /\ (session'[s] = "over" <=> session[s] = "on")
<1>1. session \in [Session -> {"off", "on", "over", "gone", "dead"}]
  BY DEF TypeOK
<1>2. CASE OnConnected(s)
  <2>1. /\ <<s, "connect">> \in Callback /\ <<s, "connect">>[1] = s /\ Connected \in Value
        /\ RuntimeUpdate(<<s, "connect">>, Connected)
        /\ held[<<s, "connect">>] = NoUpdates /\ <<s, "connect">> \notin early
    BY <1>2, CallbackType DEF OnConnected, SessionIsCurrent, Value
  <2>2. /\ session[s] \in {"off", "gone"} /\ session'[s] \in {"on", "dead"}
        /\ session'[s] = "on" <=> session[s] = "off"
        /\ \A q \in Session \ {s} : session'[q] = session[q]
    BY <1>1, <1>2 DEF OnConnected
  <2> QED
    BY <2>1, <2>2
<1>3. CASE OnDisconnected(s)
  <2>1. /\ <<s, "disconnect">> \in Callback /\ <<s, "disconnect">>[1] = s /\ None \in Value
        /\ RuntimeUpdate(<<s, "disconnect">>, None)
        /\ held[<<s, "disconnect">>] = NoUpdates /\ <<s, "disconnect">> \notin early
    BY <1>3, CallbackType DEF OnDisconnected, SessionIsCurrent, Value
  <2>2. /\ session[s] \in {"off", "on"} /\ session'[s] \in {"over", "gone"}
        /\ session'[s] = "over" <=> session[s] = "on"
        /\ \A q \in Session \ {s} : session'[q] = session[q]
    BY <1>1, <1>3 DEF OnDisconnected
  <2> QED
    BY <2>1, <2>2
<1> QED
  BY <1>2, <1>3

LEMMA CallbackTold ==
  ASSUME TypeOK, NEW s \in Session, OnConnected(s) \/ OnDisconnected(s), SessionIsCurrent(s),
         NEW i \in Id, Told(i)
  PROVE  Told(i)'
<1>1. PICK c \in Callback, value \in Value :
        /\ c[1] = s /\ RuntimeUpdate(c, value)
        /\ held[c] = NoUpdates
        /\ value = IF session'[s] \in {"on", "dead"} THEN Connected ELSE None
        /\ \A q \in Session \ {s} : session'[q] = session[q]
  BY CallbackEffect
<1>2. /\ DOMAIN held'[c] = {s} /\ held'[c][s] = value
      /\ \A b \in Agent \ {c} : held'[b] = held[b]
      /\ loose' = (loose \ {s}) \cup {j \in {s} : \E b \in Agent \ {c} : j \in DOMAIN held[b]}
  BY <1>1, RuntimeEffect
<1>3. /\ c \in Agent /\ DOMAIN held[c] = {} /\ UNCHANGED <<pending, batch, served>>
      /\ s \in Id /\ s \notin File
  BY <1>1, NoUpdatesType, CallbackType DEF RuntimeUpdate, dispatchVars
<1>4. \A j \in File : current'[j] = current[j]
  BY <1>1, <1>3 DEF RuntimeUpdate, TypeOK, Id
<1>5. Due(s)' = value /\ (i # s => Due(i)' = Due(i))
  <2>1. Due(s)' = value
    BY <1>1, <1>3 DEF Due
  <2>2. i # s => Due(i)' = Due(i)
    BY <1>1, <1>4 DEF Due, Id
  <2> QED
    BY <2>1, <2>2
<1>6. PICK u : held'[c] = u /\ DOMAIN u = {s} /\ u[s] = value
  BY <1>2
<1> QED
  BY <1>2, <1>3, <1>5, <1>6, HoldTold

LEMMA ToldStep ==
  ASSUME TypeOK, TypeOK', Unencumbered, \A s \in Session : SessionIsCurrent(s),
         \A c \in Callback : Ahead(c), Next, NEW i \in Id, Told(i)
  PROVE  Told(i)'
<1> USE DEF fileVars, dispatchVars, sessionVars
<1>1. ASSUME NEW f \in File, Touch(f) PROVE Told(i)'
  BY <1>1, StaysTold DEF Touch
<1>2. CASE TakeEvent \/ Wake \/ ReadFile
  BY <1>2, StaysTold DEF TakeEvent, Wake, ReadFile
<1>3. CASE StartWatcher
  BY <1>3, StaysTold DEF StartWatcher
<1>4. ASSUME NEW r \in Reload, Rescan(r) \/ Snapshot(r) PROVE Told(i)'
  BY <1>4, StaysTold DEF Rescan, Snapshot
<1>5. ASSUME NEW r \in Reload, BeginReload(r) PROVE Told(i)'
  <2>1. loose' = loose \cup {j \in Id : current'[j] # current[j]}
    BY <1>5, BeginEffect
  <2> QED
    BY <1>5, <2>1, StaysTold DEF BeginReload
<1>6. ASSUME NEW r \in Reload, Diff(r) PROVE Told(i)'
  BY <1>6, DiffTold
<1>7. ASSUME NEW s \in Session, OnConnected(s) \/ OnDisconnected(s) PROVE Told(i)'
  BY <1>7, CallbackTold
<1>8. CASE AddOrUpdateClient
  <2>1. /\ handler.file \in File /\ handler.data \in Content \cup {None}
        /\ held[Handler] = NoUpdates /\ UNCHANGED <<pending, batch, served, session>>
    BY <1>8 DEF AddOrUpdateClient, Unencumbered
  <2>2. CASE hash[handler.file] = handler.data
    BY <1>8, <2>1, <2>2, StaysTold DEF AddOrUpdateClient
  <2>3. CASE hash[handler.file] # handler.data
    <3>1. Store(handler.file, handler.data)
      BY <1>8, <2>3 DEF AddOrUpdateClient
    <3> QED
      BY <2>1, <3>1, StoreTold
  <2> QED
    BY <2>2, <2>3
<1>9. CASE RemoveClient
  <2>1. /\ handler.file \in File /\ Store(handler.file, None)
        /\ held[Handler] = NoUpdates /\ UNCHANGED <<pending, batch, served, session>>
    BY <1>9 DEF RemoveClient, Unencumbered
  <2> QED
    BY <2>1, StoreTold
<1>10. ASSUME NEW a \in Agent, HandOver(a) PROVE Told(i)'
  BY <1>10, HandOverTold
<1>11. CASE NextPendingBatch \/ (\E j \in Id : Send(j))
  BY <1>11, BatchTold
<1> QED
  BY <1>1, <1>2, <1>3, <1>4, <1>5, <1>6, <1>7, <1>8, <1>9, <1>10, <1>11 DEF Next

-----------------------------------------------------------------------------
(* What the agents, the sessions and the hashes know. *)

LEMMA UnencumberedStep ==
  ASSUME TypeOK, TypeOK', Unencumbered, Quiet, \A s \in Session : SessionIsCurrent(s), Next
  PROVE  Unencumbered'
<1> USE DEF fileVars, dispatchVars, sessionVars
<1>1. ASSUME NEW f \in File, Touch(f) PROVE Unencumbered'
  BY <1>1, TouchEffect DEF Unencumbered, Idle, Touch
<1>2. CASE TakeEvent
  BY <1>2, TakeEffect DEF Unencumbered, Idle, TakeEvent, Goto, Event, Unchanged
<1>3. CASE Wake
  BY <1>3 DEF Unencumbered, Idle, Wake, Goto, Unchanged
<1>4. CASE ReadFile
  BY <1>4, WatcherAssumption DEF Unencumbered, Idle, ReadFile, Goto, Readable
<1>5. ASSUME NEW f \in File, NEW data \in Content \cup {None}, Store(f, data), handler' = Idle
      PROVE  Unencumbered'
  <2>1. /\ \A b \in Agent \ {Handler} : held'[b] = held[b]
        /\ reload' = Overtaken(f)
    <3>1. PICK u :
            /\ Stored(f, Yield(data), u)
            /\ HeldType' /\ loose' \subseteq Id
            /\ held'[Handler] = u /\ \A b \in Agent \ {Handler} : held'[b] = held[b]
            /\ loose' = (loose \ DOMAIN u) \cup
                        {j \in DOMAIN u : \E b \in Agent \ {Handler} : j \in DOMAIN held[b]}
            /\ current' \in [Id -> Value]
            /\ \A j \in Id : current'[j] = IF j \in DOMAIN u THEN u[j] ELSE current[j]
            /\ hash' = [hash EXCEPT ![f] = data]
            /\ reload' = Overtaken(f)
            /\ misread' = IF Yield(data) = None /\ u = NoUpdates THEN misread ELSE misread \ {f}
      BY <1>5, StoreEffect
    <3> QED
      BY <3>1
  <2>2. \A r \in Reload : reload'[r].pc = reload[r].pc
    <3>1. reload \in [Reload -> Run]
      BY DEF TypeOK
    <3> QED
      BY <2>1, <3>1, OvertakenEffect
  <2>3. \A r \in Reload : r \in Agent \ {Handler}
    BY CallbackType
  <2> QED
    BY <1>5, <2>1, <2>2, <2>3 DEF Unencumbered, Idle
<1>6. CASE AddOrUpdateClient
  <2>1. handler' = Idle /\ handler.file \in File /\ handler.data \in Content \cup {None}
    BY <1>6 DEF AddOrUpdateClient, Unencumbered
  <2>2. CASE hash[handler.file] = handler.data
    <3>1. UNCHANGED <<held, reload>>
      BY <1>6, <2>2 DEF AddOrUpdateClient
    <3> QED
      BY <2>1, <3>1 DEF Unencumbered, Idle
  <2>3. CASE hash[handler.file] # handler.data
    <3>1. Store(handler.file, handler.data)
      BY <1>6, <2>3 DEF AddOrUpdateClient
    <3> QED
      BY <1>5, <2>1, <3>1
  <2> QED
    BY <2>2, <2>3
<1>7. CASE RemoveClient
  <2>1. handler' = Idle /\ handler.file \in File /\ Store(handler.file, None)
    BY <1>7 DEF RemoveClient, Unencumbered
  <2> QED
    BY <1>5, <2>1
<1>8. ASSUME NEW r \in Reload, BeginReload(r) PROVE Unencumbered'
  <2>1. /\ reload[r].pc = "off" /\ reload'[r].pc \in {"moved", "snapshot"}
        /\ \A q \in Reload \ {r} : reload'[q] = reload[q]
        /\ UNCHANGED <<handler, held>>
    BY <1>8, BeginEffect DEF BeginReload
  <2> QED
    BY <2>1 DEF Unencumbered, Idle
<1>9. ASSUME NEW r \in Reload, Rescan(r) PROVE Unencumbered'
  <2>1. /\ reload'[r].pc = "snapshot"
        /\ \A q \in Reload \ {r} : reload'[q].pc = reload[q].pc
        /\ reload[r].pc \in {"rescan", "moved"}
        /\ UNCHANGED <<handler, held>>
    BY <1>9, RescanEffect DEF Rescan
  <2> QED
    BY <2>1 DEF Unencumbered, Idle
<1>10. ASSUME NEW r \in Reload, Snapshot(r) PROVE Unencumbered'
  <2>1. /\ reload[r].pc = "snapshot" /\ reload'[r].pc = "diff"
        /\ \A q \in Reload \ {r} : reload'[q] = reload[q]
        /\ UNCHANGED <<handler, held>>
    BY <1>10, SnapshotEffect DEF Snapshot
  <2> QED
    BY <2>1 DEF Unencumbered, Idle
<1>11. ASSUME NEW r \in Reload, Diff(r) PROVE Unencumbered'
  <2>1. /\ \A b \in Agent \ {r} : held'[b] = held[b]
        /\ reload'[r].pc = "done" /\ \A q \in Reload \ {r} : reload'[q] = reload[q]
        /\ UNCHANGED handler
    BY <1>11, DiffEffect DEF Diff
  <2>2. Handler \in Agent \ {r} /\ \A q \in Reload \ {r} : q \in Agent \ {r}
    BY CallbackType
  <2> QED
    BY <2>1, <2>2 DEF Unencumbered, Idle
<1>12. CASE StartWatcher
  <2>1. /\ reload'[Startup].pc = "rescan"
        /\ reload[Startup].pc = "none"
        /\ \A q \in Reload \ {Startup} : reload'[q] = reload[q]
        /\ UNCHANGED <<handler, held>>
    BY <1>12, StartEffect DEF StartWatcher
  <2> QED
    BY <2>1 DEF Unencumbered, Idle
<1>13. ASSUME NEW s \in Session, OnConnected(s) \/ OnDisconnected(s) PROVE Unencumbered'
  <2>1. PICK c \in Callback, value \in Value : RuntimeUpdate(c, value)
    BY <1>13, CallbackEffect
  <2>2. /\ \A b \in Agent \ {c} : held'[b] = held[b]
        /\ UNCHANGED <<handler, reload>>
    BY <2>1, RuntimeEffect DEF RuntimeUpdate
  <2>3. Handler \in Agent \ {c} /\ \A q \in Reload : q \in Agent \ {c}
    BY CallbackType
  <2> QED
    BY <2>2, <2>3 DEF Unencumbered, Idle
<1>14. ASSUME NEW a \in Agent, HandOver(a) PROVE Unencumbered'
  <2>1. /\ \A b \in Agent : held'[b] = held[b] \/ held'[b] = NoUpdates
        /\ UNCHANGED <<handler, reload>>
    BY <1>14 DEF HandOver, TypeOK
  <2> QED
    BY <2>1, CallbackType DEF Unencumbered, Idle
<1>15. CASE NextPendingBatch
  BY <1>15 DEF Unencumbered, Idle, NextPendingBatch
<1>16. ASSUME NEW j \in Id, Send(j) PROVE Unencumbered'
  BY <1>16 DEF Unencumbered, Idle, Send
<1> QED
  BY <1>1, <1>2, <1>3, <1>4, <1>6, <1>7, <1>8, <1>9, <1>10, <1>11, <1>12, <1>13,
       <1>14, <1>15, <1>16 DEF Next

(* Before the watcher starts there are callbacks, and what they hand over.  *)
LEMMA QuietSteps ==
  ASSUME TypeOK, Unencumbered, Quiet, ~Watching, Next
  PROVE  \/ StartWatcher
         \/ \E s \in Session : OnConnected(s) \/ OnDisconnected(s)
         \/ \E a \in Agent : HandOver(a)
<1>1. /\ pending = NoUpdates /\ batch = NoUpdates
      /\ handler.pc = "idle" /\ events = <<>>
      /\ \A r \in Reload \ {Startup} : reload[r].pc = "off"
      /\ reload[Startup].pc = "none"
  BY DEF Quiet, Watching
<1>2. ~(\E f \in File : Touch(f))
  BY DEF Touch
<1>3. ~TakeEvent /\ ~Wake /\ ~ReadFile /\ ~AddOrUpdateClient /\ ~RemoveClient
  BY <1>1 DEF TakeEvent, Wake, ReadFile, AddOrUpdateClient, RemoveClient
<1>4. ~(\E r \in Reload : BeginReload(r) \/ Rescan(r) \/ Snapshot(r) \/ Diff(r))
  BY <1>1 DEF BeginReload, Rescan, Snapshot, Diff
<1>5. ~NextPendingBatch /\ ~(\E i \in Id : Send(i))
  BY <1>1, NoUpdatesType DEF NextPendingBatch, Send
<1> QED
  BY <1>2, <1>3, <1>4, <1>5 DEF Next

(* The watcher that started stays. *)
LEMMA StaysStarted ==
  ASSUME TypeOK, Unencumbered, Watching, Next
  PROVE  Watching'
<1> USE DEF fileVars, dispatchVars, sessionVars
<1>1. reload \in [Reload -> Run] /\ Startup \in Reload /\ reload[Startup].pc # "none"
  BY WatcherAssumption DEF TypeOK, Watching
<1>2. ASSUME reload' = reload PROVE Watching'
  BY <1>2 DEF Watching
<1>3. ASSUME NEW r \in Reload, BeginReload(r) \/ Rescan(r) \/ Snapshot(r) \/ Diff(r)
      PROVE  Watching'
  <2>1. reload'[r].pc # "none" /\ \A q \in Reload \ {r} : reload'[q].pc = reload[q].pc
    <3>1. CASE BeginReload(r)
      BY <3>1, BeginEffect
    <3>2. CASE Rescan(r)
      BY <3>2, RescanEffect
    <3>3. CASE Snapshot(r)
      BY <3>3, SnapshotEffect
    <3>4. CASE Diff(r)
      BY <3>4, DiffEffect
    <3> QED
      BY <1>3, <3>1, <3>2, <3>3, <3>4
  <2> QED
    BY <1>1, <2>1 DEF Watching
<1>4. ASSUME AddOrUpdateClient \/ RemoveClient PROVE Watching'
  <2>1. handler.file \in File
    BY <1>4 DEF AddOrUpdateClient, RemoveClient, Unencumbered
  <2>2. reload' = reload \/ reload' = Overtaken(handler.file)
    BY <1>4 DEF AddOrUpdateClient, RemoveClient, Store
  <2>3. reload'[Startup].pc = reload[Startup].pc
    BY <1>1, <2>1, <2>2, OvertakenEffect
  <2> QED
    BY <1>1, <2>3 DEF Watching
<1>5. ASSUME NEW s \in Session, OnConnected(s) \/ OnDisconnected(s) PROVE Watching'
  BY <1>2, <1>5 DEF OnConnected, OnDisconnected, RuntimeUpdate
<1>6. ASSUME NEW f \in File, Touch(f) PROVE Watching'
  BY <1>2, <1>6 DEF Touch
<1>7. CASE TakeEvent \/ Wake \/ ReadFile
  BY <1>2, <1>7 DEF TakeEvent, Wake, ReadFile
<1>8. CASE NextPendingBatch \/ (\E i \in Id : Send(i)) \/ (\E a \in Agent : HandOver(a))
  BY <1>2, <1>8 DEF NextPendingBatch, Send, HandOver
<1>9. ~StartWatcher
  BY <1>1 DEF StartWatcher, Watching
<1> QED
  BY <1>3, <1>4, <1>5, <1>6, <1>7, <1>8, <1>9 DEF Next

LEMMA QuietStep ==
  ASSUME TypeOK, Unencumbered, Quiet, \A s \in Session : SessionIsCurrent(s), Next
  PROVE  Quiet'
<1> SUFFICES ASSUME ~Watching' PROVE Quiet'
  BY DEF Quiet
<1>1. ~Watching
  BY StaysStarted
<1>2. /\ pending = NoUpdates /\ batch = NoUpdates /\ runtime = {}
      /\ handler.pc = "idle" /\ events = <<>>
      /\ \A r \in Reload \ {Startup} : reload[r].pc = "off"
      /\ \A a \in Agent \ early : held[a] = NoUpdates
  BY <1>1 DEF Quiet
<1>3. ~StartWatcher
  BY StartEffect DEF Watching
<1>4. ASSUME NEW s \in Session, OnConnected(s) \/ OnDisconnected(s) PROVE Quiet'
  <2>1. PICK c \in Callback, value \in Value : RuntimeUpdate(c, value)
    BY <1>4, CallbackEffect
  <2>2. \A b \in Agent \ {c} : held'[b] = held[b]
    BY <2>1, RuntimeEffect
  <2>3. early' = early \cup {c} /\ UNCHANGED <<pending, batch, runtime, handler, events, reload>>
    BY <1>1, <2>1 DEF RuntimeUpdate, dispatchVars
  <2> QED
    BY <1>2, <2>2, <2>3 DEF Quiet
<1>5. ASSUME NEW a \in Agent, HandOver(a) PROVE Quiet'
  <2>1. a \in early
    BY <1>2, <1>5 DEF HandOver
  <2>2. /\ UNCHANGED <<pending, batch, runtime, handler, events, reload, early>>
        /\ \A b \in Agent : held'[b] = held[b] \/ held'[b] = NoUpdates
    BY <1>5, <2>1 DEF HandOver, fileVars, sessionVars, TypeOK
  <2> QED
    BY <1>2, <2>2 DEF Quiet
<1> QED
  BY <1>1, <1>3, <1>4, <1>5, QuietSteps

LEMMA SessionFrame ==
  ASSUME UNCHANGED <<session, runtime, early>>, NEW q \in Session, SessionIsCurrent(q),
         current'[q] = current[q],
         \A c \in Callback : held'[c] = held[c] \/ held'[c] = NoUpdates
  PROVE  SessionIsCurrent(q)'
<1>1. <<q, "connect">> \in Callback /\ <<q, "disconnect">> \in Callback
  BY CallbackType
<1> QED
  BY <1>1 DEF SessionIsCurrent

LEMMA CallbackSession ==
  ASSUME TypeOK, Quiet, NEW s \in Session, OnConnected(s) \/ OnDisconnected(s),
         SessionIsCurrent(s), NEW q \in Session, SessionIsCurrent(q)
  PROVE  SessionIsCurrent(q)'
<1>1. PICK c \in Callback, value \in Value :
        /\ c[1] = s /\ RuntimeUpdate(c, value)
        /\ held[c] = NoUpdates /\ c \notin early
        /\ value = IF session'[s] \in {"on", "dead"} THEN Connected ELSE None
        /\ \A t \in Session \ {s} : session'[t] = session[t]
        /\ \/ /\ c = <<s, "connect">> /\ session[s] \in {"off", "gone"}
              /\ session'[s] \in {"on", "dead"} /\ (session'[s] = "on" <=> session[s] = "off")
           \/ /\ c = <<s, "disconnect">> /\ session[s] \in {"off", "on"}
              /\ session'[s] \in {"over", "gone"} /\ (session'[s] = "over" <=> session[s] = "on")
  BY CallbackEffect
<1>2. \A b \in Agent \ {c} : held'[b] = held[b]
  BY <1>1, RuntimeEffect
<1>3. /\ <<q, "connect">> \in Agent /\ <<q, "disconnect">> \in Agent
      /\ <<q, "connect">> # <<q, "disconnect">>
      /\ <<q, "connect">> \in Callback /\ <<q, "disconnect">> \in Callback
  BY CallbackType
<1>4. /\ IF Watching
         THEN /\ runtime' = IF value = None THEN runtime \ {s} ELSE runtime \cup {s}
              /\ current' = [current EXCEPT ![s] = value]
              /\ early' = early
         ELSE early' = early \cup {c} /\ runtime' = runtime /\ current' = current
      /\ current \in [Id -> Value] /\ q \in Id /\ s \in Id
  BY <1>1 DEF RuntimeUpdate, TypeOK, Id
<1>5. CASE q # s
  <2>1. <<q, "connect">> # c /\ <<q, "disconnect">> # c
    BY <1>1, <1>5, CallbackType
  <2>2. /\ held'[<<q, "connect">>] = held[<<q, "connect">>]
        /\ held'[<<q, "disconnect">>] = held[<<q, "disconnect">>]
        /\ <<q, "connect">> \in early' <=> <<q, "connect">> \in early
        /\ <<q, "disconnect">> \in early' <=> <<q, "disconnect">> \in early
    BY <1>2, <1>3, <1>4, <2>1
  <2>3. session'[q] = session[q] /\ current'[q] = current[q] /\ (q \in runtime' <=> q \in runtime)
    BY <1>1, <1>4, <1>5
  <2> QED
    BY <2>2, <2>3 DEF SessionIsCurrent
<1>6. CASE q = s
  <2> DEFINE x == <<s, "connect">>
             y == <<s, "disconnect">>
  <2>1. x # y /\ x \in Agent /\ y \in Agent
    BY <1>3, <1>6
  <2>2. /\ session[s] \in {"off", "gone"} => held[x] = NoUpdates /\ x \notin early
        /\ session[s] \in {"off", "on"} => held[y] = NoUpdates /\ y \notin early
        /\ s \in runtime <=> session[s] \in {"on", "dead"} /\ x \notin early
        /\ current[s] = IF s \in runtime THEN Connected ELSE None
    BY DEF SessionIsCurrent
  <2>3. SessionIsCurrent(s)' =
        (/\ session'[s] \in {"off", "gone"} => held'[x] = NoUpdates /\ x \notin early'
         /\ session'[s] \in {"off", "on"} => held'[y] = NoUpdates /\ y \notin early'
         /\ s \in runtime' <=> session'[s] \in {"on", "dead"} /\ x \notin early'
         /\ current'[s] = IF s \in runtime' THEN Connected ELSE None)
    BY DEF SessionIsCurrent
  <2>4. /\ c = x => \/ session[s] = "off" /\ session'[s] = "on"
                    \/ session[s] = "gone" /\ session'[s] = "dead"
        /\ c = y => \/ session[s] = "off" /\ session'[s] = "gone"
                    \/ session[s] = "on" /\ session'[s] = "over"
        /\ c = x \/ c = y
    BY <1>1, <2>1
  <2> HIDE DEF x, y
  <2>5. Connected # None
    BY WatcherAssumption
  <2>6. CASE c = x
    <3>1. held'[y] = held[y] /\ value = Connected
      BY <1>1, <1>2, <2>1, <2>4, <2>6
    <3>2. /\ session'[s] \in {"on", "dead"}
          /\ session'[s] = "on" => held'[y] = NoUpdates /\ y \notin early'
          /\ s \in runtime' <=> x \notin early'
          /\ current'[s] = IF s \in runtime' THEN Connected ELSE None
      <4>1. session'[s] \in {"on", "dead"} /\ (session'[s] = "on" => session[s] = "off")
        BY <2>4, <2>6, <2>1
      <4>2. y \in early' <=> y \in early
        BY <1>4, <2>1, <2>6
      <4>3. session'[s] = "on" => held'[y] = NoUpdates /\ y \notin early'
        BY <2>2, <3>1, <4>1, <4>2
      <4>4. x \notin early /\ ~(session[s] \in {"on", "dead"})
        BY <1>1, <2>4, <2>6, <2>1
      <4>5. (s \in runtime' <=> x \notin early') /\ current'[s] = IF s \in runtime' THEN Connected ELSE None
        <5>1. CASE Watching
          BY <1>4, <2>5, <3>1, <4>4, <5>1
        <5>2. CASE ~Watching
          BY <1>4, <2>2, <2>6, <4>4, <5>2
        <5> QED
          BY <5>1, <5>2
      <4> QED
        BY <4>1, <4>3, <4>5
    <3> QED
      BY <1>6, <2>3, <3>2
  <2>7. CASE c = y
    <3>1. held'[x] = held[x] /\ value = None
      BY <1>1, <1>2, <2>1, <2>4, <2>7
    <3>2. /\ session'[s] \in {"over", "gone"}
          /\ session'[s] = "gone" => held'[x] = NoUpdates /\ x \notin early'
          /\ s \notin runtime' /\ current'[s] = None
      <4>1. /\ session'[s] \in {"over", "gone"}
            /\ session'[s] = "gone" => session[s] = "off"
        BY <2>1, <2>4, <2>7
      <4>2. x \in early' <=> x \in early
        BY <1>4, <2>1, <2>7
      <4>3. s \notin runtime' /\ current'[s] = None
        <5>1. CASE Watching
          BY <1>4, <3>1, <5>1
        <5>2. CASE ~Watching
          BY <1>4, <2>2, <5>2 DEF Quiet
        <5> QED
          BY <5>1, <5>2
      <4> QED
        BY <2>2, <3>1, <4>1, <4>2, <4>3
    <3> QED
      BY <1>6, <2>3, <3>2
  <2> QED
    BY <2>4, <2>6, <2>7
<1> QED
  BY <1>5, <1>6

LEMMA SessionStep ==
  ASSUME TypeOK, Unencumbered, Quiet, \A s \in Session : SessionIsCurrent(s), Next,
         NEW q \in Session
  PROVE  SessionIsCurrent(q)'
<1> USE DEF fileVars, dispatchVars, sessionVars
<1>1. SessionIsCurrent(q) /\ q \in Id /\ q \notin File
  BY WatcherAssumption DEF Id
<1>2. CASE UNCHANGED <<session, runtime, early, current, held>>
  BY <1>1, <1>2, SessionFrame
<1>3. ASSUME NEW f \in File, Touch(f) PROVE SessionIsCurrent(q)'
  BY <1>2, <1>3 DEF Touch
<1>4. CASE TakeEvent \/ Wake \/ ReadFile
  BY <1>2, <1>4 DEF TakeEvent, Wake, ReadFile
<1>5. ASSUME NEW f \in File, NEW data \in Content \cup {None}, Store(f, data),
             UNCHANGED <<session, runtime, early>>
      PROVE  SessionIsCurrent(q)'
  <2>1. PICK u :
          /\ Stored(f, Yield(data), u)
          /\ HeldType' /\ loose' \subseteq Id
          /\ held'[Handler] = u /\ \A b \in Agent \ {Handler} : held'[b] = held[b]
          /\ loose' = (loose \ DOMAIN u) \cup
                      {j \in DOMAIN u : \E b \in Agent \ {Handler} : j \in DOMAIN held[b]}
          /\ current' \in [Id -> Value]
          /\ \A j \in Id : current'[j] = IF j \in DOMAIN u THEN u[j] ELSE current[j]
          /\ hash' = [hash EXCEPT ![f] = data]
          /\ reload' = Overtaken(f)
          /\ misread' = IF Yield(data) = None /\ u = NoUpdates THEN misread ELSE misread \ {f}
    BY <1>5, StoreEffect
  <2>2. current'[q] = current[q]
    BY <1>1, <2>1 DEF Stored
  <2>3. \A c \in Callback : held'[c] = held[c]
    BY <2>1, CallbackType
  <2> QED
    BY <1>1, <1>5, <2>2, <2>3, SessionFrame
<1>6. CASE AddOrUpdateClient
  <2>1. handler.file \in File /\ handler.data \in Content \cup {None}
    BY <1>6 DEF AddOrUpdateClient, Unencumbered
  <2> QED
    BY <1>2, <1>5, <1>6, <2>1 DEF AddOrUpdateClient
<1>7. CASE RemoveClient
  <2>1. handler.file \in File
    BY <1>7 DEF RemoveClient, Unencumbered
  <2> QED
    BY <1>5, <1>7, <2>1 DEF RemoveClient
<1>8. ASSUME NEW r \in Reload, BeginReload(r) PROVE SessionIsCurrent(q)'
  <2>1. current'[q] = current[q] /\ UNCHANGED <<session, runtime, early, held>>
    BY <1>1, <1>8, BeginEffect DEF BeginReload
  <2> QED
    BY <1>1, <2>1, SessionFrame
<1>9. ASSUME NEW r \in Reload, Rescan(r) \/ Snapshot(r) PROVE SessionIsCurrent(q)'
  BY <1>2, <1>9 DEF Rescan, Snapshot
<1>10. ASSUME NEW r \in Reload, Diff(r) PROVE SessionIsCurrent(q)'
  <2>1. /\ current' = NewState(r) /\ \A b \in Agent \ {r} : held'[b] = held[b]
        /\ UNCHANGED <<session, runtime, early>>
    BY <1>10, DiffEffect DEF Diff
  <2>2. current'[q] = current[q]
    BY <1>1, <2>1 DEF NewState, SessionIsCurrent
  <2>3. \A c \in Callback : held'[c] = held[c]
    BY <2>1, CallbackType
  <2> QED
    BY <1>1, <2>1, <2>2, <2>3, SessionFrame
<1>11. CASE StartWatcher
  BY <1>2, <1>11 DEF StartWatcher
<1>12. ASSUME NEW s \in Session, OnConnected(s) \/ OnDisconnected(s) PROVE SessionIsCurrent(q)'
  BY <1>1, <1>12, CallbackSession
<1>13. ASSUME NEW a \in Agent, HandOver(a) PROVE SessionIsCurrent(q)'
  <2>1. \A b \in Agent : held'[b] = held[b] \/ held'[b] = NoUpdates
    BY <1>13 DEF HandOver, TypeOK
  <2>2. UNCHANGED <<session, runtime, early, current>>
    BY <1>13 DEF HandOver
  <2> QED
    BY <1>1, <2>1, <2>2, SessionFrame, CallbackType
<1>14. CASE NextPendingBatch \/ (\E j \in Id : Send(j))
  BY <1>2, <1>14 DEF NextPendingBatch, Send
<1> QED
  BY <1>3, <1>4, <1>6, <1>7, <1>8, <1>9, <1>10, <1>11, <1>12, <1>13, <1>14 DEF Next

(* Whoever takes the lock after an early callback makes its credential      *)
(* loose, if the callback still has it in hand.                             *)
LEMMA HoldAhead ==
  ASSUME NEW a \in Agent, NEW u, \A b \in Agent \ {a} : held'[b] = held[b],
         loose' = (loose \ DOMAIN u) \cup
                  {j \in DOMAIN u : \E b \in Agent \ {a} : j \in DOMAIN held[b]},
         UNCHANGED <<pending, batch>>,
         NEW c \in Callback, c # a, c \in early' => c \in early, Ahead(c)
  PROVE  Ahead(c)'
<1>1. c \in Agent \ {a}
  BY CallbackType
<1>2. ASSUME NEW i \in DOMAIN held[c], i \notin loose' PROVE i \notin loose
  BY <1>1, <1>2
<1> QED
  BY <1>1, <1>2 DEF Ahead

LEMMA AheadStep ==
  ASSUME TypeOK, Unencumbered, Quiet, \A s \in Session : SessionIsCurrent(s),
         \A i \in Id : Told(i), Next, NEW c \in Callback, Ahead(c)
  PROVE  Ahead(c)'
<1> USE DEF fileVars, dispatchVars, sessionVars
<1>1. CASE UNCHANGED <<held, early, pending, batch>> /\ loose \subseteq loose'
  BY <1>1 DEF Ahead
<1>2. ASSUME NEW f \in File, Touch(f) PROVE Ahead(c)'
  BY <1>1, <1>2 DEF Touch
<1>3. CASE TakeEvent \/ Wake \/ ReadFile \/ StartWatcher
  BY <1>1, <1>3 DEF TakeEvent, Wake, ReadFile, StartWatcher
<1>4. ASSUME NEW f \in File, NEW data \in Content \cup {None}, Store(f, data),
             UNCHANGED <<pending, batch, early>>
      PROVE  Ahead(c)'
  <2>1. PICK u :
          /\ Stored(f, Yield(data), u)
          /\ HeldType' /\ loose' \subseteq Id
          /\ held'[Handler] = u /\ \A b \in Agent \ {Handler} : held'[b] = held[b]
          /\ loose' = (loose \ DOMAIN u) \cup
                      {j \in DOMAIN u : \E b \in Agent \ {Handler} : j \in DOMAIN held[b]}
          /\ current' \in [Id -> Value]
          /\ \A j \in Id : current'[j] = IF j \in DOMAIN u THEN u[j] ELSE current[j]
          /\ hash' = [hash EXCEPT ![f] = data]
          /\ reload' = Overtaken(f)
          /\ misread' = IF Yield(data) = None /\ u = NoUpdates THEN misread ELSE misread \ {f}
    BY <1>4, StoreEffect
  <2>2. Handler \in Agent /\ c # Handler
    BY CallbackType
  <2> QED
    BY <1>4, <2>1, <2>2, HoldAhead
<1>5. CASE AddOrUpdateClient
  <2>1. handler.file \in File /\ handler.data \in Content \cup {None}
    BY <1>5 DEF AddOrUpdateClient, Unencumbered
  <2> QED
    BY <1>1, <1>4, <1>5, <2>1 DEF AddOrUpdateClient
<1>6. CASE RemoveClient
  <2>1. handler.file \in File
    BY <1>6 DEF RemoveClient, Unencumbered
  <2> QED
    BY <1>4, <1>6, <2>1 DEF RemoveClient
<1>7. ASSUME NEW r \in Reload, BeginReload(r) PROVE Ahead(c)'
  <2>1. loose \subseteq loose' /\ UNCHANGED <<held, early, pending, batch>>
    BY <1>7 DEF BeginReload
  <2> QED
    BY <1>1, <2>1
<1>8. ASSUME NEW r \in Reload, Rescan(r) \/ Snapshot(r) PROVE Ahead(c)'
  BY <1>1, <1>8 DEF Rescan, Snapshot
<1>9. ASSUME NEW r \in Reload, Diff(r) PROVE Ahead(c)'
  <2>1. /\ \A b \in Agent \ {r} : held'[b] = held[b]
        /\ loose' = (loose \ ToTell(r)) \cup
                    {j \in ToTell(r) : \E b \in Agent \ {r} : j \in DOMAIN held[b]}
        /\ UNCHANGED <<early, pending, batch>>
    BY <1>9, DiffEffect DEF Diff
  <2>2. DOMAIN Restrict(NewState(r), ToTell(r)) = ToTell(r)
    BY NewStateType
  <2>3. PICK u : DOMAIN u = ToTell(r)
    BY <2>2
  <2>4. r \in Agent /\ c # r
    BY CallbackType
  <2> QED
    BY <2>1, <2>3, <2>4, HoldAhead
<1>10. ASSUME NEW s \in Session, OnConnected(s) \/ OnDisconnected(s) PROVE Ahead(c)'
  <2>1. PICK d \in Callback, value \in Value :
          d[1] = s /\ RuntimeUpdate(d, value) /\ d \notin early
    BY <1>10, CallbackEffect
  <2>2. /\ DOMAIN held'[d] = {d[1]} /\ \A b \in Agent \ {d} : held'[b] = held[b]
        /\ loose' = (loose \ {d[1]}) \cup
                    {i \in {d[1]} : \E b \in Agent \ {d} : i \in DOMAIN held[b]}
    BY <2>1, RuntimeEffect
  <2>3. /\ UNCHANGED <<pending, batch>> /\ d \in Agent
        /\ IF Watching THEN early' = early ELSE early' = early \cup {d}
    BY <2>1, CallbackType DEF RuntimeUpdate
  <2>4. CASE c # d
    <3>1. PICK u : DOMAIN u = {d[1]}
      BY <2>2
    <3> QED
      BY <2>2, <2>3, <2>4, <3>1, HoldAhead
  <2>5. CASE c = d /\ Watching
    <3>1. c \notin early'
      BY <2>1, <2>3, <2>5
    <3> QED
      BY <3>1 DEF Ahead
  <2>6. CASE c = d /\ ~Watching
    <3>1. DOMAIN pending' = {} /\ DOMAIN batch' = {}
      BY <2>3, <2>6, NoUpdatesType DEF Quiet
    <3> QED
      BY <3>1 DEF Ahead
  <2> QED
    BY <2>4, <2>5, <2>6
<1>11. ASSUME NEW a \in Agent, HandOver(a) PROVE Ahead(c)'
  <2>1. /\ held'[a] = NoUpdates /\ \A b \in Agent \ {a} : held'[b] = held[b]
        /\ UNCHANGED <<early, batch, loose>>
    BY <1>11 DEF HandOver, TypeOK
  <2>2. CASE c = a
    BY <2>1, <2>2, NoUpdatesType DEF Ahead
  <2>3. CASE c # a
    <3>1. c \in Agent /\ held'[c] = held[c] /\ held[c] \in Updates /\ held[a] \in Updates
      BY <2>1, <2>3, CallbackType DEF TypeOK
    <3>2. DOMAIN pending' \subseteq DOMAIN pending \cup DOMAIN held[a]
      <4>1. pending' = pending \/ pending' = Over(held[a], pending)
        BY <1>11 DEF HandOver, Dispatched
      <4>2. DOMAIN Over(held[a], pending) = DOMAIN held[a] \cup DOMAIN pending
        BY DEF Over
      <4> QED
        BY <4>1, <4>2
    <3>3. ASSUME NEW i \in DOMAIN held[c], i \notin loose PROVE i \notin DOMAIN held[a]
      <4>1. i \in Id
        BY <3>1, UpdatesType
      <4> QED
        BY <2>3, <3>1, <3>3, <4>1 DEF Told
    <3> QED
      BY <2>1, <3>1, <3>2, <3>3 DEF Ahead
  <2> QED
    BY <2>2, <2>3
<1>12. CASE NextPendingBatch
  <2>1. batch' = pending /\ DOMAIN pending' = {} /\ UNCHANGED <<held, early, loose>>
    BY <1>12, NoUpdatesType DEF NextPendingBatch
  <2> QED
    BY <2>1 DEF Ahead
<1>13. ASSUME NEW j \in Id, Send(j) PROVE Ahead(c)'
  <2>1. DOMAIN batch' \subseteq DOMAIN batch /\ UNCHANGED <<held, early, loose, pending>>
    BY <1>13, RestrictType DEF Send, TypeOK
  <2> QED
    BY <2>1 DEF Ahead
<1> QED
  BY <1>2, <1>3, <1>5, <1>6, <1>7, <1>8, <1>9, <1>10, <1>11, <1>12, <1>13 DEF Next

LEMMA LastTellsStep ==
  ASSUME TypeOK, TypeOK', Unencumbered, Next, NEW g \in File, LastTells(g)
  PROVE  LastTells(g)'
<1> USE DEF fileVars, dispatchVars
<1>1. ASSUME NEW f \in File, Touch(f) PROVE LastTells(g)'
  <2> DEFINE last == Len(events')
  <2>1. /\ last \in Nat /\ last > Len(events) /\ Len(events) \in Nat
        /\ \A n \in 1..Len(events) : events'[n] = events[n]
        /\ \A n \in Len(events) + 1..last : events'[n].file = f
        /\ events'[last].op = IF disk'[f] = None THEN "remove" ELSE "write"
        /\ g # f => disk'[g] = disk[g]
    <3>1. Len(events) \in Nat
      BY DEF TypeOK
    <3> QED
      BY <1>1, <3>1, TouchEffect
  <2> HIDE DEF last
  <2> SUFFICES ASSUME NEW n \in 1..last, events'[n].file = g,
                      \A m \in 1..last : m > n => events'[m].file # g
               PROVE  events'[n].op = IF disk'[g] = None THEN "remove" ELSE "write"
    BY DEF LastTells, last
  <2>2. CASE g = f
    <3>1. last \in 1..last /\ events'[last].file = f
      BY <2>1
    <3>2. n = last
      BY <2>1, <2>2, <3>1
    <3> QED
      BY <2>1, <2>2, <3>2
  <2>3. CASE g # f
    <3>1. n \in 1..Len(events)
      BY <2>1, <2>3
    <3>2. events[n].file = g /\ \A m \in 1..Len(events) : m > n => events[m].file # g
      BY <2>1, <3>1
    <3>3. events[n].op = IF disk[g] = None THEN "remove" ELSE "write"
      BY <3>1, <3>2 DEF LastTells
    <3> QED
      BY <2>1, <2>3, <3>1, <3>3
  <2> QED
    BY <2>2, <2>3
<1>2. CASE TakeEvent
  <2>1. /\ Len(events) \in Nat \ {0} /\ Len(events') = Len(events) - 1
        /\ \A n \in 1..Len(events') : n + 1 \in 1..Len(events) /\ events'[n] = events[n + 1]
        /\ \A n \in 1..Len(events) : n # 1 => n - 1 \in 1..Len(events') /\ events'[n - 1] = events[n]
        /\ UNCHANGED disk
    BY <1>2, TakeEffect DEF TakeEvent
  <2> SUFFICES ASSUME NEW n \in 1..Len(events'), events'[n].file = g,
                      \A m \in 1..Len(events') : m > n => events'[m].file # g
               PROVE  events'[n].op = IF disk'[g] = None THEN "remove" ELSE "write"
    BY DEF LastTells
  <2>2. n + 1 \in 1..Len(events) /\ events[n + 1].file = g /\ events'[n] = events[n + 1]
    BY <2>1
  <2>3. ASSUME NEW m \in 1..Len(events), m > n + 1 PROVE events[m].file # g
    <3>1. m # 1 /\ m - 1 > n
      BY <2>1, <2>3
    <3> QED
      BY <2>1, <3>1
  <2>4. events[n + 1].op = IF disk[g] = None THEN "remove" ELSE "write"
    BY <2>2, <2>3 DEF LastTells
  <2> QED
    BY <2>1, <2>2, <2>4
<1>3. CASE Wake
  BY <1>3 DEF LastTells, Wake, Goto, Idle, Unchanged
<1>4. CASE ReadFile
  BY <1>4 DEF LastTells, ReadFile, Goto, Idle
<1>5. CASE AddOrUpdateClient
  BY <1>5 DEF LastTells, AddOrUpdateClient
<1>6. CASE RemoveClient
  BY <1>6 DEF LastTells, RemoveClient
<1>7. ASSUME NEW r \in Reload, BeginReload(r) \/ Rescan(r) \/ Snapshot(r) \/ Diff(r)
      PROVE  LastTells(g)'
  BY <1>7 DEF LastTells, BeginReload, Rescan, Snapshot, Diff
<1>8. CASE StartWatcher
  BY <1>8 DEF LastTells, StartWatcher
<1>9. ASSUME NEW s \in Session, OnConnected(s) \/ OnDisconnected(s) PROVE LastTells(g)'
  BY <1>9 DEF LastTells, OnConnected, OnDisconnected, RuntimeUpdate
<1>10. ASSUME NEW a \in Agent, HandOver(a) PROVE LastTells(g)'
  BY <1>10 DEF LastTells, HandOver
<1>11. CASE NextPendingBatch \/ (\E j \in Id : Send(j))
  BY <1>11 DEF LastTells, NextPendingBatch, Send
<1> QED
  BY <1>1, <1>2, <1>3, <1>4, <1>5, <1>6, <1>7, <1>8, <1>9, <1>10, <1>11 DEF Next

LEMMA FreshFrame ==
  ASSUME UNCHANGED <<disk, events, handler, hash, swallowed>>, NEW g \in File, Fresh(g),
         reload[Startup].pc \in {"none", "rescan"} => reload'[Startup].pc \in {"none", "rescan"}
  PROVE  Fresh(g)'
  BY DEF Fresh, Noted

(* The event goroutine is done with its file, and the hash is as it should. *)
LEMMA FreshDone ==
  ASSUME UNCHANGED <<disk, events, swallowed>>, NEW g \in File, Fresh(g), handler' = Idle,
         g # handler.file => hash'[g] = hash[g],
         reload'[Startup].pc = reload[Startup].pc,
         g = handler.file /\ disk[g] # Partial /\ ~Noted(g) =>
           hash'[g] = disk[g] \/ disk[g] \in Content \ Parsable
  PROVE  Fresh(g)'
<1>1. handler'.file # g /\ (Noted(g)' <=> Noted(g))
  BY WatcherAssumption DEF Idle, Noted
<1> QED
  BY <1>1 DEF Fresh

LEMMA FreshStep ==
  ASSUME TypeOK, TypeOK', Unencumbered, Next, NEW g \in File, LastTells(g), Fresh(g)
  PROVE  Fresh(g)'
<1> USE DEF fileVars, dispatchVars, sessionVars
<1>1. ASSUME NEW f \in File, Touch(f) PROVE Fresh(g)'
  BY <1>1, TouchEffect DEF Fresh, Noted, Touch
<1>2. CASE TakeEvent
  <2>1. /\ 1 \in 1..Len(events) /\ events[1] \in Event /\ Head(events) = events[1]
        /\ Len(events) \in Nat \ {0}
        /\ \A n \in 1..Len(events) : n # 1 => n - 1 \in 1..Len(events') /\ events'[n - 1] = events[n]
    BY <1>2, TakeEffect
  <2>2. PICK f \in File : f = events[1].file
    BY <2>1 DEF Event
  <2>3. /\ UNCHANGED <<disk, hash, reload>> /\ handler.file = None /\ f # None
        /\ \/ /\ events[1].op = "write"
              /\ IF Unchanged(f) THEN handler' = Idle ELSE Goto("read", f, None)
              /\ swallowed' = swallowed \ {f}
           \/ /\ events[1].op = "remove"
              /\ swallowed' = swallowed \cup {f} /\ UNCHANGED handler
           \/ /\ events[1].op = "remove"
              /\ Goto("asleep", f, None) /\ swallowed' = swallowed \ {f}
    BY <1>2, <2>1, <2>2, WatcherAssumption DEF TakeEvent, Unencumbered, Idle
  <2>4. handler'.file \in {f, None}
    BY <2>3 DEF Goto, Idle
  <2>5. CASE g # f
    <3>1. Noted(g) => Noted(g)'
      BY <2>1, <2>2, <2>5 DEF Noted
    <3>2. g \in swallowed' <=> g \in swallowed
      BY <2>3, <2>5
    <3>3. handler'.file # g /\ handler.file # g
      BY <2>3, <2>4, <2>5, WatcherAssumption
    <3> QED
      BY <2>3, <3>1, <3>2, <3>3 DEF Fresh
  <2>6. CASE g = f
    <3> SUFFICES ASSUME ~Noted(f)', disk[f] # Partial
                 PROVE  Fresh(f)'
      BY <2>3, <2>6 DEF Fresh
    <3>1. \A m \in 1..Len(events) : m > 1 => events[m].file # f
      BY <2>1 DEF Noted
    <3>2. events[1].op = IF disk[f] = None THEN "remove" ELSE "write"
      BY <2>1, <2>2, <2>6, <3>1 DEF LastTells
    <3>3. CASE events[1].op = "write"
      <4>1. disk[f] # None
        BY <3>2, <3>3
      <4>2. CASE handler' = Idle /\ Unchanged(f)
        <5>1. hash[f] = disk[f] /\ handler'.file # f
          BY <2>3, <4>2 DEF Unchanged, Idle
        <5> QED
          BY <2>3, <5>1 DEF Fresh
      <4>3. CASE Goto("read", f, None)
        <5>1. handler'.pc = "read" /\ handler'.file = f
          BY <4>3 DEF Goto
        <5> QED
          BY <2>3, <4>1, <5>1 DEF Fresh
      <4> QED
        BY <2>3, <3>3, <4>2, <4>3
    <3>4. CASE Goto("asleep", f, None)
      <4>1. handler'.pc = "asleep" /\ handler'.file = f
        BY <3>4 DEF Goto
      <4> QED
        BY <2>3, <4>1 DEF Fresh
    <3>5. CASE events[1].op = "remove" /\ swallowed' = swallowed \cup {f} /\ UNCHANGED handler
      <4>1. disk[f] = None /\ f \in swallowed' /\ handler'.file # f
        BY <2>3, <3>2, <3>5
      <4> QED
        BY <2>3, <4>1 DEF Fresh
    <3> QED
      BY <2>3, <3>3, <3>4, <3>5
  <2> QED
    BY <2>5, <2>6
<1>3. CASE Wake
  BY <1>3 DEF Fresh, Noted, Wake, Goto, Idle, Unchanged
<1>4. CASE ReadFile
  <2>1. UNCHANGED <<disk, events, hash, swallowed, reload>> /\ handler.pc = "read"
    BY <1>4 DEF ReadFile
  <2>2. CASE Readable(disk[handler.file])
    <3>1. handler'.pc = "update" /\ handler'.file = handler.file /\ handler'.data = disk[handler.file]
      BY <1>4, <2>2 DEF ReadFile, Goto
    <3> QED
      BY <2>1, <3>1 DEF Fresh, Noted
  <2>3. CASE ~Readable(disk[handler.file])
    <3>1. handler' = Idle
      BY <1>4, <2>3 DEF ReadFile
    <3>2. g = handler.file /\ disk[g] # Partial /\ ~Noted(g) => disk[g] \in Content \ Parsable
      BY <2>1, <2>3 DEF Fresh, Readable, TypeOK
    <3> QED
      BY <2>1, <3>1, <3>2, FreshDone
  <2> QED
    BY <2>2, <2>3
<1>5. ASSUME NEW f \in File, f = handler.file, NEW data \in Content \cup {None}, Store(f, data),
             handler' = Idle, UNCHANGED <<disk, events, swallowed>>,
             f = g /\ disk[f] # Partial /\ ~Noted(f) => data = disk[f]
      PROVE  Fresh(g)'
  <2>1. hash' = [hash EXCEPT ![f] = data] /\ reload' = Overtaken(f)
    BY <1>5 DEF Store, Remember
  <2>2. Startup \in Reload /\ reload \in [Reload -> Run] /\ hash \in [File -> Content \cup {None}]
    BY WatcherAssumption DEF TypeOK
  <2>3. reload'[Startup].pc = reload[Startup].pc
    BY <2>1, <2>2, OvertakenEffect
  <2>4. hash'[f] = data /\ (g # f => hash'[g] = hash[g])
    BY <2>1, <2>2
  <2> QED
    BY <1>5, <2>3, <2>4, FreshDone
<1>6. CASE AddOrUpdateClient
  <2>1. /\ handler.file \in File /\ handler.data \in Content \cup {None} /\ handler' = Idle
        /\ handler.pc = "update" /\ UNCHANGED <<disk, events, swallowed>>
    BY <1>6 DEF AddOrUpdateClient, Unencumbered
  <2>2. handler.file = g /\ disk[g] # Partial /\ ~Noted(g) => handler.data = disk[g]
    BY <2>1 DEF Fresh
  <2>3. CASE hash[handler.file] = handler.data
    <3>1. UNCHANGED <<hash, reload>>
      BY <1>6, <2>3 DEF AddOrUpdateClient
    <3> QED
      BY <2>1, <2>2, <2>3, <3>1, FreshDone
  <2>4. CASE hash[handler.file] # handler.data
    <3>1. Store(handler.file, handler.data)
      BY <1>6, <2>4 DEF AddOrUpdateClient
    <3> QED
      BY <1>5, <2>1, <2>2, <3>1
  <2> QED
    BY <2>3, <2>4
<1>7. CASE RemoveClient
  <2>1. /\ handler.file \in File /\ handler' = Idle /\ Store(handler.file, None)
        /\ handler.pc = "remove" /\ UNCHANGED <<disk, events, swallowed>>
    BY <1>7 DEF RemoveClient, Unencumbered
  <2>2. handler.file = g /\ disk[g] # Partial /\ ~Noted(g) => None = disk[g]
    BY <2>1 DEF Fresh
  <2> QED
    BY <1>5, <2>1, <2>2
<1>8. ASSUME NEW r \in Reload, BeginReload(r) \/ Snapshot(r) \/ Diff(r) PROVE Fresh(g)'
  <2>1. UNCHANGED <<disk, events, handler, hash, swallowed>>
    BY <1>8 DEF BeginReload, Snapshot, Diff
  <2>2. /\ reload[r].pc \in {"off", "snapshot", "diff"}
        /\ \A q \in Reload \ {r} : reload'[q] = reload[q]
    BY <1>8, BeginEffect, SnapshotEffect, DiffEffect
  <2>3. reload[Startup].pc \in {"none", "rescan"} => reload'[Startup].pc \in {"none", "rescan"}
    BY <2>2, WatcherAssumption
  <2> QED
    BY <2>1, <2>3, FreshFrame
<1>9. ASSUME NEW r \in Reload, Rescan(r) PROVE Fresh(g)'
  <2>1. UNCHANGED <<disk, events, handler>>
    BY <1>9 DEF Rescan
  <2>2. \/ g \in swallowed' /\ hash'[g] = None
        \/ hash'[g] = IF disk[g] \in Content THEN disk[g] ELSE None
    BY <1>9, RescanEffect
  <2>3. disk[g] \in Content \cup {None, Partial}
    BY DEF TypeOK
  <2> QED
    BY <2>1, <2>2, <2>3 DEF Fresh, Noted
<1>10. CASE StartWatcher
  <2>1. UNCHANGED <<disk, events, handler, hash, swallowed>> /\ reload'[Startup].pc = "rescan"
    BY <1>10, StartEffect DEF StartWatcher
  <2> QED
    BY <2>1, FreshFrame
<1>11. ASSUME NEW s \in Session, OnConnected(s) \/ OnDisconnected(s) PROVE Fresh(g)'
  BY <1>11, FreshFrame DEF OnConnected, OnDisconnected, RuntimeUpdate
<1>12. ASSUME NEW a \in Agent, HandOver(a) PROVE Fresh(g)'
  BY <1>12, FreshFrame DEF HandOver
<1>13. CASE NextPendingBatch \/ (\E j \in Id : Send(j))
  BY <1>13, FreshFrame DEF NextPendingBatch, Send
<1> QED
  BY <1>1, <1>2, <1>3, <1>4, <1>6, <1>7, <1>8, <1>9, <1>10, <1>11, <1>12, <1>13 DEF Next

LEMMA SeenAlikeStep ==
  ASSUME TypeOK, Unencumbered, Next, NEW r \in Reload, SeenAlike(r)
  PROVE  SeenAlike(r)'
<1> USE DEF fileVars, dispatchVars, sessionVars
<1>1. CASE UNCHANGED hash /\ reload'[r] = reload[r]
  BY <1>1 DEF SeenAlike, Yield
<1>2. ASSUME NEW f \in File, NEW data \in Content \cup {None}, Store(f, data)
      PROVE  SeenAlike(r)'
  <2>1. hash' = [hash EXCEPT ![f] = data] /\ reload' = Overtaken(f)
    BY <1>2 DEF Store, Remember
  <2>2. reload \in [Reload -> Run] /\ hash \in [File -> Content \cup {None}]
    BY DEF TypeOK
  <2>3. /\ reload'[r].pc = reload[r].pc /\ reload'[r].seen = reload[r].seen
        /\ reload[r].pc = "diff" => reload'[r].doubtful = reload[r].doubtful \cup {f}
    BY <2>1, <2>2, OvertakenEffect
  <2>4. \A g \in File \ {f} : Yield(hash'[g]) = Yield(hash[g])
    BY <2>1, <2>2
  <2> SUFFICES ASSUME reload[r].pc = "diff", NEW g \in File \ reload'[r].doubtful
               PROVE  reload'[r].seen[g] = Yield(hash'[g])
    BY <2>3 DEF SeenAlike, Yield
  <2>5. g \notin reload[r].doubtful /\ g # f
    BY <2>3
  <2> QED
    BY <2>3, <2>4, <2>5 DEF SeenAlike
<1>3. CASE AddOrUpdateClient
  <2>1. handler.file \in File /\ handler.data \in Content \cup {None}
    BY <1>3 DEF AddOrUpdateClient, Unencumbered
  <2> QED
    BY <1>1, <1>2, <1>3, <2>1 DEF AddOrUpdateClient
<1>4. CASE RemoveClient
  <2>1. handler.file \in File
    BY <1>4 DEF RemoveClient, Unencumbered
  <2> QED
    BY <1>2, <1>4, <2>1 DEF RemoveClient
<1>5. ASSUME NEW q \in Reload, BeginReload(q) \/ Diff(q) PROVE SeenAlike(r)'
  <2>1. reload'[q].pc # "diff" /\ \A p \in Reload \ {q} : reload'[p] = reload[p]
    BY <1>5, BeginEffect, DiffEffect
  <2>2. CASE r = q
    BY <2>1, <2>2 DEF SeenAlike
  <2>3. CASE r # q
    BY <1>1, <1>5, <2>1, <2>3 DEF BeginReload, Diff
  <2> QED
    BY <2>2, <2>3
<1>6. ASSUME NEW q \in Reload, Rescan(q) PROVE SeenAlike(r)'
  <2>1. /\ reload'[q].pc = "snapshot"
        /\ \A p \in Reload \ {q} : reload'[p].pc = reload[p].pc
        /\ \A p \in Reload \ {q} : reload[p].pc = "diff" => reload'[p].doubtful = File
    BY <1>6, RescanEffect
  <2> QED
    BY <2>1 DEF SeenAlike
<1>7. ASSUME NEW q \in Reload, Snapshot(q) PROVE SeenAlike(r)'
  <2>1. /\ \A f \in File \ reload'[q].doubtful : reload'[q].seen[f] = Yield(hash[f])
        /\ \A p \in Reload \ {q} : reload'[p] = reload[p]
        /\ hash' = hash
    BY <1>7, SnapshotEffect DEF Snapshot
  <2>2. CASE r = q
    BY <2>1, <2>2 DEF SeenAlike, Yield
  <2>3. CASE r # q
    BY <1>1, <2>1, <2>3
  <2> QED
    BY <2>2, <2>3
<1>8. CASE StartWatcher
  <2>1. /\ reload'[Startup].pc = "rescan" /\ hash' = hash
        /\ \A p \in Reload \ {Startup} : reload'[p] = reload[p]
    BY <1>8, StartEffect DEF StartWatcher
  <2> QED
    BY <1>1, <2>1 DEF SeenAlike
<1>9. ASSUME NEW f \in File, Touch(f) PROVE SeenAlike(r)'
  BY <1>1, <1>9 DEF Touch
<1>10. CASE TakeEvent \/ Wake \/ ReadFile
  BY <1>1, <1>10 DEF TakeEvent, Wake, ReadFile
<1>11. ASSUME NEW s \in Session, OnConnected(s) \/ OnDisconnected(s) PROVE SeenAlike(r)'
  BY <1>1, <1>11 DEF OnConnected, OnDisconnected, RuntimeUpdate
<1>12. CASE NextPendingBatch \/ (\E j \in Id : Send(j)) \/ (\E a \in Agent : HandOver(a))
  BY <1>1, <1>12 DEF NextPendingBatch, Send, HandOver
<1> QED
  BY <1>3, <1>4, <1>5, <1>6, <1>7, <1>8, <1>9, <1>10, <1>11, <1>12 DEF Next

LEMMA MatchedStep ==
  ASSUME TypeOK, Unencumbered, \A r \in Reload : SeenAlike(r), Next, NEW g \in File, Matched(g)
  PROVE  Matched(g)'
<1> USE DEF fileVars, dispatchVars, sessionVars
<1>1. CASE UNCHANGED <<hash, reload, misread>> /\ current'[g] = current[g]
  BY <1>1 DEF Matched, Yield
<1>2. ASSUME NEW f \in File, NEW data \in Content \cup {None}, Store(f, data)
      PROVE  Matched(g)'
  <2>1. PICK u :
          /\ Stored(f, Yield(data), u)
          /\ HeldType' /\ loose' \subseteq Id
          /\ held'[Handler] = u /\ \A b \in Agent \ {Handler} : held'[b] = held[b]
          /\ loose' = (loose \ DOMAIN u) \cup
                      {j \in DOMAIN u : \E b \in Agent \ {Handler} : j \in DOMAIN held[b]}
          /\ current' \in [Id -> Value]
          /\ \A j \in Id : current'[j] = IF j \in DOMAIN u THEN u[j] ELSE current[j]
          /\ hash' = [hash EXCEPT ![f] = data]
          /\ reload' = Overtaken(f)
          /\ misread' = IF Yield(data) = None /\ u = NoUpdates THEN misread ELSE misread \ {f}
    BY <1>2, StoreEffect
  <2>2. reload \in [Reload -> Run] /\ hash \in [File -> Content \cup {None}] /\ g \in Id
    BY DEF TypeOK, Id
  <2>3. \A r \in Reload : reload'[r].pc = reload[r].pc
    BY <2>1, <2>2, OvertakenEffect
  <2> SUFFICES ASSUME g \notin misread', \A r \in Reload : reload[r].pc \in {"none", "off", "done"}
               PROVE  current'[g] = Yield(hash'[g])
    BY <2>3 DEF Matched, Yield
  <2>4. CASE g # f
    <3>1. g \notin misread /\ current'[g] = current[g] /\ hash'[g] = hash[g]
      BY <2>1, <2>2, <2>4 DEF Stored
    <3> QED
      BY <3>1 DEF Matched
  <2>5. CASE g = f
    <3>1. hash'[f] = data
      BY <2>1, <2>2
    <3>2. CASE f \in DOMAIN u
      BY <2>1, <2>2, <2>5, <3>1, <3>2 DEF Stored
    <3>3. CASE f \notin DOMAIN u
      <4>1. current'[f] = current[f] /\ u = NoUpdates
        BY <2>1, <2>2, <2>5, <3>3 DEF Stored
      <4>2. CASE current[f] = Yield(data)
        BY <2>5, <3>1, <4>1, <4>2
      <4>3. CASE Yield(data) = None /\ hash[f] \notin Yielding
        <5>1. g \notin misread
          BY <2>1, <4>1, <4>3
        <5>2. current[g] = Yield(hash[g])
          BY <5>1 DEF Matched
        <5>3. Yield(hash[g]) = None
          BY <2>5, <4>3 DEF Yield
        <5> QED
          BY <2>5, <3>1, <4>1, <4>3, <5>2, <5>3
      <4> QED
        BY <2>1, <3>3, <4>2, <4>3 DEF Stored
    <3> QED
      BY <3>2, <3>3
  <2> QED
    BY <2>4, <2>5
<1>3. CASE AddOrUpdateClient
  <2>1. handler.file \in File /\ handler.data \in Content \cup {None}
    BY <1>3 DEF AddOrUpdateClient, Unencumbered
  <2> QED
    BY <1>1, <1>2, <1>3, <2>1 DEF AddOrUpdateClient
<1>4. CASE RemoveClient
  <2>1. handler.file \in File
    BY <1>4 DEF RemoveClient, Unencumbered
  <2> QED
    BY <1>2, <1>4, <2>1 DEF RemoveClient
<1>5. ASSUME NEW r \in Reload, BeginReload(r) \/ Rescan(r) \/ Snapshot(r) PROVE Matched(g)'
  <2>1. reload'[r].pc \in {"moved", "snapshot", "diff"}
    BY <1>5, BeginEffect, RescanEffect, SnapshotEffect
  <2> QED
    BY <2>1 DEF Matched
<1>6. CASE StartWatcher
  <2>1. Startup \in Reload /\ reload'[Startup].pc = "rescan"
    BY <1>6, StartEffect
  <2> QED
    BY <2>1 DEF Matched
<1>7. ASSUME NEW r \in Reload, Diff(r) PROVE Matched(g)'
  <2>1. /\ current' = NewState(r) /\ misread' = reload[r].doubtful
        /\ reload[r].pc = "diff" /\ hash' = hash
    BY <1>7, DiffEffect DEF Diff
  <2>2. current'[g] = reload[r].seen[g]
    BY <2>1 DEF NewState, Id
  <2>3. g \notin misread' => current'[g] = Yield(hash[g])
    BY <2>1, <2>2 DEF SeenAlike
  <2> QED
    BY <2>1, <2>3 DEF Matched, Yield
<1>8. ASSUME NEW f \in File, Touch(f) PROVE Matched(g)'
  BY <1>1, <1>8 DEF Touch
<1>9. CASE TakeEvent \/ Wake \/ ReadFile
  BY <1>1, <1>9 DEF TakeEvent, Wake, ReadFile
<1>10. ASSUME NEW s \in Session, OnConnected(s) \/ OnDisconnected(s) PROVE Matched(g)'
  <2>1. PICK c \in Callback, value \in Value : RuntimeUpdate(c, value)
    BY <1>10, CallbackType DEF OnConnected, OnDisconnected, Value
  <2>2. c[1] \in Id /\ c[1] # g /\ g \in Id
    BY CallbackType DEF Id
  <2>3. UNCHANGED <<hash, reload, misread>> /\ current'[g] = current[g]
    BY <2>1, <2>2 DEF RuntimeUpdate, TypeOK
  <2> QED
    BY <1>1, <2>3
<1>11. CASE NextPendingBatch \/ (\E j \in Id : Send(j)) \/ (\E a \in Agent : HandOver(a))
  BY <1>1, <1>11 DEF NextPendingBatch, Send, HandOver
<1> QED
  BY <1>3, <1>4, <1>5, <1>6, <1>7, <1>8, <1>9, <1>10, <1>11 DEF Next

-----------------------------------------------------------------------------
(* The theorems. *)

LEMMA IInvInit == Init => IInv
<1> SUFFICES ASSUME Init PROVE IInv
  OBVIOUS
<1>1. TypeOK
  BY InitTypeOK
<1>2. Unencumbered /\ Quiet
  BY CallbackType DEF Init, Unencumbered, Quiet, Idle
<1>3. ASSUME NEW s \in Session PROVE SessionIsCurrent(s)
  BY CallbackType DEF Init, SessionIsCurrent, Id
<1>4. DOMAIN pending = {} /\ DOMAIN batch = {} /\ \A a \in Agent : DOMAIN held[a] = {}
  BY NoUpdatesType DEF Init
<1>5. ASSUME NEW i \in Id PROVE Told(i)
  <2>1. WillServe[i] = None /\ Due(i) = None
    BY <1>1, <1>4, WillServeAt DEF Init, Due, Id
  <2> QED
    BY <1>4, <2>1 DEF Told
<1>6. ASSUME NEW c \in Callback PROVE Ahead(c)
  BY <1>4 DEF Ahead
<1>7. Len(events) = 0 /\ handler.file = None /\ reload[Startup].pc = "none"
  BY WatcherAssumption DEF Init, Idle
<1>8. ASSUME NEW f \in File PROVE LastTells(f) /\ Fresh(f) /\ Matched(f)
  <2>1. LastTells(f) /\ Fresh(f)
    BY <1>7, WatcherAssumption DEF LastTells, Fresh
  <2>2. current[f] = None /\ hash[f] = None
    BY DEF Init, NoFiles, Id
  <2> QED
    BY <2>1, <2>2 DEF Matched, Yield
<1>9. ASSUME NEW r \in Reload PROVE SeenAlike(r)
  <2>1. reload[r].pc = IF r = Startup THEN "none" ELSE "off"
    BY DEF Init
  <2> QED
    BY <2>1 DEF SeenAlike
<1> QED
  BY <1>1, <1>2, <1>3, <1>5, <1>6, <1>8, <1>9 DEF IInv

LEMMA TypeStep ==
  ASSUME TypeOK, Unencumbered, Next
  PROVE  TypeOK'
  BY FileType, ClientType, ReloadType, StartType, SessionType, DispatchType DEF Next

LEMMA IInvStep == IInv /\ [Next]_vars => IInv'
<1> SUFFICES ASSUME IInv, [Next]_vars PROVE IInv'
  OBVIOUS
<1>1. CASE Next
  <2>1. TypeOK'
    BY <1>1, TypeStep DEF IInv
  <2>2. Unencumbered' /\ Quiet'
    BY <1>1, <2>1, UnencumberedStep, QuietStep DEF IInv
  <2>3. \A s \in Session : SessionIsCurrent(s)'
    BY <1>1, SessionStep DEF IInv
  <2>4. \A i \in Id : Told(i)'
    BY <1>1, <2>1, ToldStep DEF IInv
  <2>5. \A c \in Callback : Ahead(c)'
    BY <1>1, AheadStep DEF IInv
  <2>6. \A f \in File : LastTells(f)' /\ Fresh(f)' /\ Matched(f)'
    BY <1>1, <2>1, LastTellsStep, FreshStep, MatchedStep DEF IInv
  <2>7. \A r \in Reload : SeenAlike(r)'
    BY <1>1, SeenAlikeStep DEF IInv
  <2> QED
    BY <2>1, <2>2, <2>3, <2>4, <2>5, <2>6, <2>7 DEF IInv
<1>2. CASE UNCHANGED vars
  <2>1. UNCHANGED <<disk, changes, events, handler, hash, recent, current, runtime, session,
                    early, reload, held, pending, batch, served, swallowed, misread, loose>>
    BY <1>2 DEF vars
  <2>2. TypeOK' /\ Unencumbered' /\ Quiet'
    BY <2>1 DEF IInv, TypeOK, Unencumbered, Quiet, Watching
  <2>3. \A s \in Session : SessionIsCurrent(s)'
    BY <2>1 DEF IInv, SessionIsCurrent
  <2>4. \A i \in Id : Told(i)'
    BY <2>1 DEF IInv, Told, WillServe, Due
  <2>5. \A c \in Callback : Ahead(c)'
    BY <2>1 DEF IInv, Ahead
  <2>6. \A f \in File : LastTells(f)' /\ Fresh(f)' /\ Matched(f)'
    BY <2>1 DEF IInv, LastTells, Fresh, Noted, Matched, Yield
  <2>7. \A r \in Reload : SeenAlike(r)'
    BY <2>1 DEF IInv, SeenAlike, Yield
  <2> QED
    BY <2>2, <2>3, <2>4, <2>5, <2>6, <2>7 DEF IInv
<1> QED
  BY <1>1, <1>2

(* In every behaviour all of the state is of its type: among it an agent    *)
(* holds updates of its own kind of credential only, and what a reload took *)
(* from the directory was complete files.                                   *)
THEOREM TypeCorrect == Spec => []TypeOK
<1>1. IInv => TypeOK
  BY DEF IInv
<1> QED
  BY <1>1, IInvInit, IInvStep, PTL DEF Spec

(* However many files, sessions and reloads there are, coalescing and       *)
(* batching never lose the latest state of a credential, and a session is   *)
(* one exactly while it is connected, unless it died before it was          *)
(* announced.                                                               *)
THEOREM ServiceWillAgreeInvariant == Spec => []ServiceWillAgree
<1>1. IInv => ServiceWillAgree
  BY DEF IInv, Told, Due, ServiceWillAgree
<1> QED
  BY <1>1, IInvInit, IInvStep, PTL DEF Spec

(* Once the notifications of a file are handled and no reload runs, the     *)
(* cache has what the directory has and currentAuths has it too, with the   *)
(* exceptions the property names and no other.                              *)
THEOREM CacheTellsTheTruthInvariant == Spec => []CacheTellsTheTruth
<1>1. IInv => CacheTellsTheTruth
  <2> SUFFICES ASSUME IInv, NEW f \in File, Handled(f)
               PROVE  \/ hash[f] = disk[f] /\ (f \in misread \/ current[f] = Synthesized(f))
                      \/ disk[f] \in Content \ Parsable
                      \/ f \in swallowed /\ None \in {disk[f], hash[f]}
    BY DEF CacheTellsTheTruth
  <2>1. DOMAIN events = 1..Len(events) /\ Startup \in Reload
    BY WatcherAssumption DEF IInv, TypeOK
  <2>2. disk[f] # Partial /\ ~Noted(f) /\ handler.file # f
    BY <2>1 DEF Handled, Noted
  <2>3. \A r \in Reload : reload[r].pc \in {"off", "done"}
    BY DEF Handled
  <2>4. f \notin misread => current[f] = Yield(hash[f])
    BY <2>3 DEF IInv, Matched
  <2>5. \/ hash[f] = disk[f]
        \/ disk[f] \in Content \ Parsable
        \/ f \in swallowed /\ None \in {disk[f], hash[f]}
    BY <2>1, <2>2, <2>3 DEF IInv, Fresh
  <2> QED
    BY <2>4, <2>5 DEF Synthesized
<1> QED
  BY <1>1, IInvInit, IInvStep, PTL DEF Spec
=============================================================================
