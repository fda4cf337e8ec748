----------------------------- MODULE AuthWatcher -----------------------------
(***************************************************************************)
(* How a change of a credential file, of the configuration or of the set   *)
(* of relay sessions reaches the service: internal/watcher and the queue   *)
(* it feeds.  The goroutine of the file events, every reload of the        *)
(* configuration and the relay's callbacks compute updates under one lock  *)
(* and hand them over after it is released; a dispatch loop coalesces them *)
(* for each credential and sends them to the service's bounded queue.      *)
(*                                                                         *)
(* A file yields one credential, named after it, whose content is the      *)
(* file's, or none; and the goroutine of the file events refuses contents  *)
(* that a reload accepts, so a content is known by two marks, whether the  *)
(* one can parse it and whether the synthesizer, which both use, makes a   *)
(* credential of it.  A file being written is empty until the write is     *)
(* over.  A create and a write are handled alike, and so are a remove and  *)
(* a rename.                                                               *)
(*                                                                         *)
(* A relay session is named once.  It is in the relay's map before its     *)
(* connection is announced, and whatever ends it may do so from then on:   *)
(* the two callbacks of a session run in either order, or overlap.         *)
(*                                                                         *)
(* The order of the updates of one batch is not kept: a batch holds at     *)
(* most one for each credential.                                           *)
(***************************************************************************)
EXTENDS Naturals, Sequences, FiniteSets, Functions

CONSTANTS
  File,        \* names of credential files
  Session,     \* names of relay sessions, one for each connection
  Content,     \* what a complete file may hold
  Parsable,    \* contents that the event goroutine can parse
  Yielding,    \* contents of which the synthesizer makes a credential
  Reload,      \* runs of reloadClients
  Startup,     \* the one that Start makes
  Handler,     \* the goroutine of the file events
  None,        \* no file, no credential, no hash
  Partial,     \* a file that has been truncated and is yet to be written
  ConfigChange, \* what a change of the configuration may bring: sets of effects
  MaxChanges   \* bound on the changes of files and of sessions

Connected == "connected"                    \* what a session's record holds
Callback == Session \X {"connect", "disconnect"}

ASSUME WatcherAssumption ==
  /\ Startup \in Reload
  /\ Handler \notin Reload \cup Callback
  /\ Reload \cap Callback = {} /\ File \cap Session = {}
  /\ Parsable \subseteq Content /\ Yielding \subseteq Content
  /\ None \notin Content /\ Partial \notin Content /\ None # Partial
  /\ Connected # None /\ None \notin File
  /\ ConfigChange \subseteq SUBSET {"forces", "excludes", "moves"}
  /\ MaxChanges \in Nat

Id == File \cup Session
Agent == {Handler} \cup Reload \cup Callback
Value == Content \cup {Connected, None}     \* None: the credential is deleted

VARIABLES
  disk,       \* file -> its content
  changes,    \* the changes made so far
  events,     \* the notifications not yet taken
  handler,    \* the event goroutine: where it is, its file and the bytes it read
  hash,       \* lastAuthHashes (and fileAuthsByPath): file -> content last stored
  recent,     \* lastRemoveTimes: files whose removal has been handled before
  current,    \* currentAuths
  runtime,    \* runtimeAuths
  session,    \* session -> which of its callbacks have changed what there is
  early,      \* callbacks that found no watcher: they call the service themselves
  reload,     \* reload -> where it is, whether it forces updates, its snapshot,
              \* and (history) where that and the event goroutine differ
  held,       \* agent -> updates computed and not yet handed over
  pending,    \* pendingUpdates
  batch,      \* the updates the dispatch loop is sending
  served,     \* what the service has been sent last
  swallowed,  \* history: files whose last notification the debounce dropped, or
              \* whose hash went with the cache
  misread,    \* history: files that the last reload and the event goroutine read
              \* differently, which no event has put right since
  loose       \* history: credentials whose last change of currentAuths the
              \* service may have been told out of order, or not at all

vars == <<disk, changes, events, handler, hash, recent, current, runtime, session,
          early, reload, held, pending, batch, served, swallowed, misread, loose>>
fileVars == <<disk, changes, events>>
dispatchVars == <<pending, batch, served>>
sessionVars == <<runtime, session, early>>

(* Updates of credentials, as functions: none, one, and some over others.   *)
NoUpdates == <<>>
One(i, v) == [j \in {i} |-> v]
Over(u, v) == [i \in DOMAIN u \cup DOMAIN v |-> IF i \in DOMAIN u THEN u[i] ELSE v[i]]

Idle == [pc |-> "idle", file |-> None, data |-> None]
NoFiles == [f \in File |-> None]

(* Types; an update is held by its own kind of agent only.                 *)
Updates == UNION {[S -> Value] : S \in SUBSET Id}
Event == [file: File, op: {"write", "remove"}]
Handling == [pc: {"idle", "asleep", "read", "update", "remove"},
             file: File \cup {None}, data: Content \cup {None}]
Run == [pc: {"none", "off", "rescan", "moved", "snapshot", "diff", "done"},
        force: BOOLEAN, seen: [File -> Content \cup {None}], doubtful: SUBSET File]
TypeOK ==
  /\ disk \in [File -> Content \cup {None, Partial}]
  /\ changes \in 0..MaxChanges
  /\ events \in Seq(Event)
  /\ handler \in Handling
  /\ hash \in [File -> Content \cup {None}]
  /\ recent \subseteq File
  /\ current \in [Id -> Value]
  /\ runtime \subseteq Session
  /\ session \in [Session -> {"off", "on", "over", "gone", "dead"}]
  /\ early \subseteq Callback
  /\ reload \in [Reload -> Run]
  /\ held \in [Agent -> Updates]
  /\ \A c \in Callback : DOMAIN held[c] \subseteq {c[1]}
  /\ DOMAIN held[Handler] \subseteq File
  /\ pending \in Updates /\ batch \in Updates
  /\ served \in [Id -> Value]
  /\ swallowed \subseteq File /\ misread \subseteq File
  /\ loose \subseteq Id

Init ==
  /\ disk \in [File -> Content \cup {None}]
  /\ changes = 0
  /\ events = <<>>
  /\ handler = Idle
  /\ hash = NoFiles
  /\ recent = {}
  /\ current = [i \in Id |-> None]
  /\ runtime = {}
  /\ session = [s \in Session |-> "off"]
  /\ early = {}
  /\ reload = [r \in Reload |-> [pc |-> IF r = Startup THEN "none" ELSE "off",
                                 force |-> FALSE, seen |-> NoFiles, doubtful |-> {}]]
  /\ held = [a \in Agent |-> NoUpdates]
  /\ pending = NoUpdates /\ batch = NoUpdates
  /\ served = [i \in Id |-> None]
  /\ swallowed = {} /\ misread = {} /\ loose = {}

-----------------------------------------------------------------------------
(* The files: an overwrite in place (truncate, then write), a removal, a     *)
(* rename onto the file, and a replacement that moves the old file away, of  *)
(* which the removal is notified too.                                        *)
Notify(f, ops) == events' = events \o [n \in DOMAIN ops |-> [file |-> f, op |-> ops[n]]]

Change(f, c) ==
  /\ changes < MaxChanges
  /\ disk[f] # c
  /\ disk' = [disk EXCEPT ![f] = c]
  /\ changes' = changes + 1
  /\ \/ c = None /\ Notify(f, <<"remove">>)
     \/ c # None /\ Notify(f, <<"write">>)
     \/ c \in Content /\ disk[f] # None /\ Notify(f, <<"remove", "write">>)

Finish(f, c) ==
  /\ disk[f] = Partial
  /\ disk' = [disk EXCEPT ![f] = c]
  /\ Notify(f, <<"write">>)
  /\ UNCHANGED changes

(* Changes before the watcher starts are those that Init leaves open.        *)
Watching == reload[Startup].pc # "none"

Touch(f) ==
  /\ Watching
  /\ \/ disk[f] # Partial /\ \E c \in Content \cup {None, Partial} : Change(f, c)
     \/ \E c \in Content : Finish(f, c)
  /\ UNCHANGED <<handler, hash, recent, current, sessionVars, reload, held,
                 dispatchVars, swallowed, misread, loose>>

-----------------------------------------------------------------------------
(* Mutant: a file is taken as it is, also while it is being written. *)
Yield_AsItIs(data) == data

(* The credential that a file yields: none while it is absent or empty.     *)
Yield(data) == IF data \in Yielding THEN data ELSE None
Synthesized(f) == Yield(disk[f])

(* An agent leaves the lock with updates to hand over.                      *)
Hold(a, updates) ==
  /\ held' = [held EXCEPT ![a] = updates]
  /\ loose' = (loose \ DOMAIN updates) \cup
              {i \in DOMAIN updates : \E b \in Agent \ {a} : i \in DOMAIN held[b]}

(* Mutant: an update that waits is not replaced by a later one. *)
Dispatched_FirstWins(updates) == Over(pending, updates)

Dispatched(updates) == Over(updates, pending)

HandOver(a) ==
  /\ held[a] # NoUpdates
  /\ IF a \in early
     THEN served' = Over(held[a], served) /\ UNCHANGED pending
     ELSE pending' = Dispatched(held[a]) /\ UNCHANGED served
  /\ held' = [held EXCEPT ![a] = NoUpdates]
  /\ UNCHANGED <<fileVars, handler, hash, recent, current, sessionVars, reload,
                 batch, swallowed, misread, loose>>

-----------------------------------------------------------------------------
(* The event goroutine. *)

(* shouldDebounceRemove; whether a second has passed since the last removal *)
(* of the file is left open.                                                *)
MayDebounce(f) == f \in recent

Unchanged(f) == disk[f] \in Content /\ hash[f] = disk[f]

Goto(pc, f, data) == handler' = [pc |-> pc, file |-> f, data |-> data]

TakeEvent ==
  /\ handler.pc = "idle" /\ held[Handler] = NoUpdates
  /\ events # <<>>
  /\ events' = Tail(events)
  /\ LET f == Head(events).file IN
     \/ /\ Head(events).op = "write"
        /\ IF Unchanged(f) THEN handler' = Idle ELSE Goto("read", f, None)
        /\ swallowed' = swallowed \ {f}
        /\ UNCHANGED recent
     \/ /\ Head(events).op = "remove" /\ MayDebounce(f)
        /\ swallowed' = swallowed \cup {f}
        /\ UNCHANGED <<handler, recent>>
     \/ /\ Head(events).op = "remove"
        /\ recent' = recent \cup {f}
        /\ Goto("asleep", f, None)
        /\ swallowed' = swallowed \ {f}
  /\ UNCHANGED <<disk, changes, hash, current, sessionVars, reload, held,
                 dispatchVars, misread, loose>>

(* The short sleep after a removal is over: has the file been replaced?     *)
Wake ==
  /\ handler.pc = "asleep"
  /\ LET f == handler.file IN
     \/ disk[f] # None /\ Unchanged(f) /\ handler' = Idle
     \/ disk[f] # None /\ ~Unchanged(f) /\ Goto("read", f, None)
     \/ disk[f] = None /\ hash[f] = None /\ handler' = Idle
     \/ disk[f] = None /\ hash[f] # None /\ Goto("remove", f, None)
  /\ UNCHANGED <<fileVars, hash, recent, current, sessionVars, reload, held,
                 dispatchVars, swallowed, misread, loose>>

(* addOrUpdateClient: the file is read and parsed, or left alone...         *)
Readable(data) == data \in Parsable
ReadFile ==
  /\ handler.pc = "read"
  /\ IF Readable(disk[handler.file])
     THEN Goto("update", handler.file, disk[handler.file])
     ELSE handler' = Idle
  /\ UNCHANGED <<fileVars, hash, recent, current, sessionVars, reload, held,
                 dispatchVars, swallowed, misread, loose>>

(* Mutant: the hash of a file that was handled is not kept. *)
Remember_Nothing(f, data) == UNCHANGED hash

Remember(f, data) == hash' = [hash EXCEPT ![f] = data]

(* computePerPathUpdatesLocked: fileAuthsByPath has a credential of the     *)
(* file if the content stored last yields one.                              *)
PerPathUpdates(f, value) ==
  IF value = None
  THEN IF hash[f] \in Yielding THEN One(f, None) ELSE NoUpdates
  ELSE IF current[f] = value THEN NoUpdates ELSE One(f, value)

(* ...and its content is stored under the lock, which overtakes the reloads *)
(* that have read the directory and have yet to compare.                    *)
Overtaken(f) ==
  [r \in Reload |-> IF reload[r].pc = "diff"
                    THEN [reload[r] EXCEPT !.doubtful = @ \cup {f}]
                    ELSE reload[r]]

Store(f, data) ==
  LET updates == PerPathUpdates(f, Yield(data))
  IN /\ Remember(f, data)
     /\ current' = Over(updates, current)
     /\ Hold(Handler, updates)
     /\ reload' = Overtaken(f)
     /\ misread' = IF Yield(data) = None /\ updates = NoUpdates THEN misread
                   ELSE misread \ {f}

AddOrUpdateClient ==
  /\ handler.pc = "update"
  /\ handler' = Idle
  /\ IF hash[handler.file] = handler.data
     THEN UNCHANGED <<hash, current, held, loose, reload, misread>>
     ELSE Store(handler.file, handler.data)
  /\ UNCHANGED <<fileVars, recent, sessionVars, dispatchVars, swallowed>>

RemoveClient ==
  /\ handler.pc = "remove"
  /\ handler' = Idle
  /\ Store(handler.file, None)
  /\ UNCHANGED <<fileVars, recent, sessionVars, dispatchVars, swallowed>>

-----------------------------------------------------------------------------
(* A run of reloadClients.  The configuration has changed: in the models    *)
(* excluded for the files' provider, in a field that forces updates, or in  *)
(* the directory, which the watcher goes on taking from where it started.   *)
StartWatcher ==
  /\ ~Watching
  /\ reload' = [reload EXCEPT ![Startup].pc = "rescan"]
  /\ UNCHANGED <<fileVars, handler, hash, recent, current, sessionVars, held,
                 dispatchVars, swallowed, misread, loose>>

BeginReload(r) ==
  /\ reload[r].pc = "off" /\ Watching
  /\ \E change \in ConfigChange :
       /\ reload' = [reload EXCEPT ![r].pc = IF "moves" \in change THEN "moved" ELSE "snapshot",
                                   ![r].force = "forces" \in change]
       /\ current' = [i \in Id |-> IF "excludes" \in change /\ i \in File
                                   THEN None ELSE current[i]]
       /\ loose' = loose \cup {i \in Id : current'[i] # current[i]}
  /\ UNCHANGED <<fileVars, handler, hash, recent, sessionVars, held,
                 dispatchVars, swallowed, misread>>

(* The cache of hashes is rebuilt: from the watched directory at the start, *)
(* from another directory when it has moved.                                *)
Rescan(r) ==
  /\ \/ /\ reload[r].pc = "rescan"
        /\ hash' = [f \in File |-> IF disk[f] \in Content THEN disk[f] ELSE None]
        /\ UNCHANGED swallowed
     \/ /\ reload[r].pc = "moved"
        /\ hash' = NoFiles
        /\ swallowed' = File
  /\ reload' = [q \in Reload |->
                 IF q = r THEN [reload[q] EXCEPT !.pc = "snapshot"]
                 ELSE IF reload[q].pc = "diff" THEN [reload[q] EXCEPT !.doubtful = File]
                 ELSE reload[q]]
  /\ UNCHANGED <<fileVars, handler, recent, current, sessionVars, held,
                 dispatchVars, misread, loose>>

(* refreshAuthState reads the directory before it takes the lock...         *)
Snapshot(r) ==
  /\ reload[r].pc = "snapshot"
  /\ reload' = [reload EXCEPT
        ![r].pc = "diff",
        ![r].seen = [f \in File |-> Synthesized(f)],
        ![r].doubtful = {f \in File : Synthesized(f) # Yield(hash[f])}]
  /\ UNCHANGED <<fileVars, handler, hash, recent, current, sessionVars, held,
                 dispatchVars, swallowed, misread, loose>>

(* ...and compares what it read with currentAuths under it.                 *)
NewState(r) ==
  [i \in Id |-> IF i \in File THEN reload[r].seen[i]
                ELSE IF i \in runtime THEN Connected ELSE None]

ToTell(r) ==
  {i \in Id : \/ NewState(r)[i] # current[i]
              \/ reload[r].force /\ NewState(r)[i] # None}

Diff(r) ==
  /\ reload[r].pc = "diff"
  /\ current' = NewState(r)
  /\ Hold(r, Restrict(NewState(r), ToTell(r)))
  /\ reload' = [reload EXCEPT ![r].pc = "done", ![r].seen = NoFiles, ![r].doubtful = {}]
  /\ misread' = reload[r].doubtful
  /\ UNCHANGED <<fileVars, handler, hash, recent, sessionVars,
                 dispatchVars, swallowed>>

-----------------------------------------------------------------------------
(* The relay's callbacks, each once for a session.  Without a watcher yet,  *)
(* a callback applies its update itself; otherwise the watcher is told.     *)
RuntimeUpdate(c, value) ==
  LET s == c[1]
  IN /\ changes < MaxChanges /\ changes' = changes + 1
     /\ Hold(c, One(s, value))
     /\ IF Watching
        THEN /\ runtime' = IF value = None THEN runtime \ {s} ELSE runtime \cup {s}
             /\ current' = [current EXCEPT ![s] = value]
             /\ UNCHANGED early
        ELSE /\ early' = early \cup {c}
             /\ UNCHANGED <<runtime, current>>
     /\ UNCHANGED <<disk, events, handler, hash, recent, reload, dispatchVars,
                    swallowed, misread>>

OnConnected(s) ==
  /\ session[s] \in {"off", "gone"}
  /\ session' = [session EXCEPT ![s] = IF @ = "off" THEN "on" ELSE "dead"]
  /\ RuntimeUpdate(<<s, "connect">>, Connected)

OnDisconnected(s) ==
  /\ session[s] \in {"off", "on"}
  /\ session' = [session EXCEPT ![s] = IF @ = "on" THEN "over" ELSE "gone"]
  /\ RuntimeUpdate(<<s, "disconnect">>, None)

-----------------------------------------------------------------------------
(* The dispatch loop.  The service's queue is written by nobody else and its *)
(* consumer takes the updates in their order, so an update counts as the     *)
(* service's once it is sent; a full queue only delays the loop.             *)
NextPendingBatch ==
  /\ batch = NoUpdates /\ pending # NoUpdates
  /\ batch' = pending
  /\ pending' = NoUpdates
  /\ UNCHANGED <<fileVars, handler, hash, recent, current, sessionVars, reload,
                 held, served, swallowed, misread, loose>>

Send(i) ==
  /\ i \in DOMAIN batch
  /\ served' = [served EXCEPT ![i] = batch[i]]
  /\ batch' = Restrict(batch, DOMAIN batch \ {i})
  /\ UNCHANGED <<fileVars, handler, hash, recent, current, sessionVars, reload,
                 held, pending, swallowed, misread, loose>>

Next ==
  \/ \E f \in File : Touch(f)
  \/ TakeEvent \/ Wake \/ ReadFile \/ AddOrUpdateClient \/ RemoveClient
  \/ StartWatcher
  \/ \E r \in Reload : BeginReload(r) \/ Rescan(r) \/ Snapshot(r) \/ Diff(r)
  \/ \E s \in Session : OnConnected(s) \/ OnDisconnected(s)
  \/ \E a \in Agent : HandOver(a)
  \/ NextPendingBatch \/ \E i \in Id : Send(i)

Spec == Init /\ [][Next]_vars

-----------------------------------------------------------------------------
(* What the service will hold of a credential once everything handed over   *)
(* has arrived: what waits goes before what is being sent, and both before  *)
(* what it holds.                                                           *)
WillServe == Over(pending, Over(batch, served))

(* Coalescing and batching never lose the latest state: when no agent holds *)
(* an update of a credential, the service will end with what currentAuths   *)
(* says of it, unless two agents had updates of it in hand at once or a     *)
(* reload dropped it to have it told anew.  With the same exception a relay *)
(* session is a credential of the service from its connection's being       *)
(* announced to its end, whatever reloads do and also if there was no       *)
(* watcher to announce it to; but one that ended before it was announced    *)
(* ("dead") is a credential for good.                                       *)
ServiceWillAgree ==
  \A i \in Id \ loose :
    (\A a \in Agent : i \notin DOMAIN held[a]) =>
      WillServe[i] = IF i \in File THEN current[i]
                     ELSE IF session[i] \in {"on", "dead"} THEN Connected ELSE None

(* Nothing more will happen to a file unless it changes again.              *)
Handled(f) ==
  /\ disk[f] # Partial
  /\ \A n \in DOMAIN events : events[n].file # f
  /\ handler.file # f
  /\ \A r \in Reload : reload[r].pc \in {"off", "done"}

(* When the events are handled and no reload runs, the cache of hashes has  *)
(* what the directory has: nothing the watcher dismissed as unchanged was a *)
(* change.  currentAuths has it too, unless the last reload read the file   *)
(* otherwise than the event goroutine did before it or meanwhile, and no    *)
(* event has put that right.  The cache may be behind in three ways only:   *)
(* the file cannot be parsed, its removal fell into the debounce window, or *)
(* the cache went when the directory moved.                                 *)
CacheTellsTheTruth ==
  \A f \in File : Handled(f) =>
    \/ hash[f] = disk[f] /\ (f \in misread \/ current[f] = Synthesized(f))
    \/ disk[f] \in Content \ Parsable
    \/ f \in swallowed /\ None \in {disk[f], hash[f]}
=============================================================================
