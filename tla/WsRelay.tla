------------------------------ MODULE WsRelay ------------------------------
(***************************************************************************)
(* One websocket session of the relay and the requests that go over it.    *)
(* The session's reader, its cleanup, and for every request the goroutine  *)
(* that made it, the one that watches its context and the one that reads   *)
(* its channel meet at the map of pending requests and at the channels,    *)
(* which are closed by whoever takes the entry out of the map, or by the   *)
(* cleanup.                                                                *)
(*                                                                         *)
(* The service gives every connection a name of its own, so no session     *)
(* replaces another.  A stream's start is a chunk here: it is neither an   *)
(* answer's end nor kept apart by anything below; and an answer in one       *)
(* message ends like a stream's end.                                       *)
(***************************************************************************)
EXTENDS Naturals, Sequences, FiniteSets

CONSTANTS
  Request,    \* requests, each with a message id of its own
  Stream,     \* those made by Stream; the others by NonStream
  Capacity,   \* of a request's channel, 8 in the code
  Chunks,     \* request -> bound on the chunks of its answer
  NoRequest

ASSUME RelayAssumption ==
  /\ Stream \subseteq Request
  /\ Capacity \in Nat \ {0}
  /\ Chunks \in [Request -> Nat]
  /\ NoRequest \notin Request

VARIABLES
  registered,  \* the manager knows the session
  pending,     \* the keys of the session's map
  channel,     \* request -> its channel
  remote,      \* request -> what the connected client has sent for it
  requester,   \* request -> where request() is
  watcher,     \* request -> the goroutine that waits for the end of its context
  consumer,    \* request -> the reader of its channel
  done,        \* the requests whose context is done
  reader,      \* the session's run()
  cleaner,     \* the session's cleanup()
  panicked     \* a goroutine that nobody recovers has panicked: the program is over

vars == <<registered, pending, channel, remote, requester, watcher, consumer,
          done, reader, cleaner, panicked>>

Terminal == {"end", "error"}
Message == [type: {"chunk"} \cup Terminal, n: Nat]

Channel == {c \in [open: BOOLEAN, buffer: Seq(Message)] : Len(c.buffer) <= Capacity}
Remote == [asked: BOOLEAN, sent: Nat, lost: SUBSET Nat, over: BOOLEAN]
Consuming == [pc: {"off", "receive", "done"}, got: Seq(Nat), told: {"none", "complete", "failed"}]
Reading == [pc: {"read", "deliver", "finish", "stopped"}, at: Request \cup {NoRequest}, msg: Message]
Cleaning == [pc: {"idle", "range", "reset", "announce", "done"},
             at: Request \cup {NoRequest}, left: SUBSET Request]

TypeOK ==
  /\ registered \in BOOLEAN
  /\ pending \subseteq Request
  /\ channel \in [Request -> Channel]
  /\ remote \in [Request -> Remote]
  /\ requester \in [Request -> {"idle", "found", "stored", "loaded", "returned"}]
  /\ watcher \in [Request -> {"off", "waiting", "done"}]
  /\ consumer \in [Request -> Consuming]
  /\ done \subseteq Request
  /\ reader \in Reading
  /\ cleaner \in Cleaning
  /\ panicked \in BOOLEAN

Nothing == [type |-> "end", n |-> 0]

Init ==
  /\ registered = TRUE
  /\ pending = {}
  /\ channel = [r \in Request |-> [open |-> FALSE, buffer |-> <<>>]]
  /\ remote = [r \in Request |-> [asked |-> FALSE, sent |-> 0, lost |-> {}, over |-> FALSE]]
  /\ requester = [r \in Request |-> "idle"]
  /\ watcher = [r \in Request |-> "off"]
  /\ consumer = [r \in Request |-> [pc |-> "off", got |-> <<>>, told |-> "none"]]
  /\ done = {}
  /\ reader = [pc |-> "read", at |-> NoRequest, msg |-> Nothing]
  /\ cleaner = [pc |-> "idle", at |-> NoRequest, left |-> {}]
  /\ panicked = FALSE

closed == cleaner.pc # "idle"
(* Only what somebody will read is kept in a channel. *)
Waiting(r) == consumer[r].pc = "receive"
Full(r) == Waiting(r) /\ Len(channel[r].buffer) = Capacity

(* Mutant: the oldest message makes room for the new one. *)
Put_DropsOldest(r, msg) ==
  IF ~Waiting(r) THEN channel[r].buffer
  ELSE Append(IF Full(r) THEN Tail(channel[r].buffer) ELSE channel[r].buffer, msg)

(* Mutant: the channel is taken to have room. *)
Put_Unbounded(r, msg) ==
  IF Waiting(r) THEN Append(channel[r].buffer, msg) ELSE channel[r].buffer

(* A message is dropped if the channel is full. *)
Put(r, msg) ==
  IF Waiting(r) /\ ~Full(r) THEN Append(channel[r].buffer, msg) ELSE channel[r].buffer

(* pendingRequest.close(), by whoever has found the entry in the map *)
Close(r) == channel' = [channel EXCEPT ![r].open = FALSE]

(* LoadAndDelete, and the close of what was found *)
TakeOut(r) ==
  IF r \in pending
  THEN pending' = pending \ {r} /\ Close(r)
  ELSE UNCHANGED <<pending, channel>>

-----------------------------------------------------------------------------
(* request(), called by Manager.Send *)

Lookup(r) ==
  /\ requester[r] = "idle"
  /\ registered
  /\ requester' = [requester EXCEPT ![r] = "found"]
  /\ UNCHANGED <<registered, pending, channel, remote, watcher, consumer, done, reader, cleaner, panicked>>

Store(r) ==
  /\ requester[r] = "found"
  /\ pending' = pending \cup {r}
  /\ channel' = [channel EXCEPT ![r].open = TRUE]
  /\ requester' = [requester EXCEPT ![r] = "stored"]
  /\ UNCHANGED <<registered, remote, watcher, consumer, done, reader, cleaner, panicked>>

(* The entry is read back.  If the cleanup has replaced the map meanwhile, it *)
(* is not there and the type assertion panics.  The goroutines of the server  *)
(* are recovered and the request has failed; a stream that is started again   *)
(* before its first payload asks from its producer, which nobody recovers.    *)
LoadBack(r) ==
  /\ requester[r] = "stored"
  /\ IF r \in pending
     THEN /\ requester' = [requester EXCEPT ![r] = "loaded"]
          /\ UNCHANGED <<consumer, panicked>>
     ELSE /\ requester' = [requester EXCEPT ![r] = "returned"]
          /\ consumer' = [consumer EXCEPT ![r].pc = "done", ![r].told = "failed"]
          /\ panicked' \in BOOLEAN
          /\ panicked' => r \in Stream
  /\ UNCHANGED <<registered, pending, channel, remote, watcher, done, reader, cleaner>>

Write(r) ==
  /\ requester[r] = "loaded"
  /\ ~closed
  /\ remote' = [remote EXCEPT ![r].asked = TRUE]
  /\ watcher' = [watcher EXCEPT ![r] = "waiting"]
  /\ consumer' = [consumer EXCEPT ![r].pc = "receive"]
  /\ requester' = [requester EXCEPT ![r] = "returned"]
  /\ UNCHANGED <<registered, pending, channel, done, reader, cleaner, panicked>>

(* The session is closed, or the connection fails. *)
WriteFails(r) ==
  /\ requester[r] = "loaded"
  /\ TakeOut(r)
  /\ consumer' = [consumer EXCEPT ![r].pc = "done", ![r].told = "failed"]
  /\ requester' = [requester EXCEPT ![r] = "returned"]
  /\ UNCHANGED <<registered, remote, watcher, done, reader, cleaner, panicked>>

Requester(r) == Store(r) \/ LoadBack(r) \/ Write(r) \/ WriteFails(r)

(* The client of a request leaves, or its deadline passes. *)
Cancel(r) ==
  /\ consumer[r].pc = "receive"
  /\ done' = done \cup {r}
  /\ UNCHANGED <<registered, pending, channel, remote, requester, watcher, consumer, reader, cleaner, panicked>>

(* The goroutine request() leaves behind *)
Watch(r) ==
  /\ watcher[r] = "waiting"
  /\ \/ r \in done /\ TakeOut(r)
     \/ closed /\ UNCHANGED <<pending, channel>>
  /\ watcher' = [watcher EXCEPT ![r] = "done"]
  /\ UNCHANGED <<registered, remote, requester, consumer, done, reader, cleaner, panicked>>

-----------------------------------------------------------------------------
(* The session's reader *)

(* A message of the connected client, whose request is looked up. *)
Read(r, type) ==
  /\ reader.pc = "read"
  /\ ~closed
  /\ remote[r].asked
  /\ type = "chunk" => remote[r].sent < Chunks[r]
  /\ remote[r].over => type = "error"
  /\ LET n == IF type = "chunk" THEN remote[r].sent + 1 ELSE 0
     IN /\ remote' = [remote EXCEPT ![r].sent = IF type = "chunk" THEN @ + 1 ELSE @,
                                    ![r].over = type \in Terminal]
        /\ reader' = IF r \in pending
                     THEN [pc |-> "deliver", at |-> r, msg |-> [type |-> type, n |-> n]]
                     ELSE reader
  /\ UNCHANGED <<registered, pending, channel, requester, watcher, consumer, done, cleaner, panicked>>

(* What a send into a channel does that may be full or closed *)
Deliver(r, msg) ==
  IF ~channel[r].open
  THEN /\ panicked' = TRUE
       /\ UNCHANGED <<channel, remote>>
  ELSE /\ channel' = [channel EXCEPT ![r].buffer = Put(r, msg)]
       /\ remote' = [remote EXCEPT ![r].lost = IF Full(r) /\ msg.type = "chunk" /\ r \in Stream THEN @ \cup {msg.n} ELSE @]
       /\ UNCHANGED panicked

Dispatch ==
  /\ reader.pc = "deliver"
  /\ Deliver(reader.at, reader.msg)
  /\ reader' = IF reader.msg.type \in Terminal THEN [reader EXCEPT !.pc = "finish"]
               ELSE [pc |-> "read", at |-> NoRequest, msg |-> Nothing]
  /\ UNCHANGED <<registered, pending, requester, watcher, consumer, done, cleaner>>

(* Mutant: the channel is closed and the entry stays in the map. *)
FinishDispatch_KeepsEntry ==
  /\ reader.pc = "finish"
  /\ Close(reader.at)
  /\ reader' = [pc |-> "read", at |-> NoRequest, msg |-> Nothing]
  /\ UNCHANGED <<registered, pending, remote, requester, watcher, consumer, done, cleaner, panicked>>

FinishDispatch ==
  /\ reader.pc = "finish"
  /\ TakeOut(reader.at)
  /\ reader' = [pc |-> "read", at |-> NoRequest, msg |-> Nothing]
  /\ UNCHANGED <<registered, remote, requester, watcher, consumer, done, cleaner, panicked>>

(* A read that fails: the connection was lost, or closed by the cleanup. *)
ReadFails ==
  /\ reader.pc = "read"
  /\ reader' = [reader EXCEPT !.pc = "stopped"]
  /\ cleaner' = IF closed THEN cleaner ELSE [cleaner EXCEPT !.pc = "range", !.left = pending]
  /\ UNCHANGED <<registered, pending, channel, remote, requester, watcher, consumer, done, panicked>>

-----------------------------------------------------------------------------
(* cleanup(), once: by the reader, the heartbeat or the manager's Stop *)

BeginCleanup ==
  /\ ~closed
  /\ cleaner' = [cleaner EXCEPT !.pc = "range", !.left = pending]
  /\ UNCHANGED <<registered, pending, channel, remote, requester, watcher, consumer, done, reader, panicked>>

(* Range comes to an entry, surely to those that were there when it began, *)
Visit(r) ==
  /\ cleaner.pc = "range"
  /\ cleaner.at = NoRequest
  /\ r \in pending
  /\ channel[r].open
  /\ cleaner' = [cleaner EXCEPT !.at = r, !.left = @ \ {r}]
  /\ UNCHANGED <<registered, pending, channel, remote, requester, watcher, consumer, done, reader, panicked>>

(* tells it the error if there is room, and closes its channel. *)
TellClosed ==
  /\ cleaner.at # NoRequest
  /\ LET r == cleaner.at IN
       IF channel[r].open
       THEN /\ channel' = [channel EXCEPT
                 ![r].buffer = Put(r, [type |-> "error", n |-> 0]),
                 ![r].open = FALSE]
            /\ UNCHANGED panicked
       ELSE panicked' = TRUE /\ UNCHANGED channel
  /\ cleaner' = [cleaner EXCEPT !.at = NoRequest]
  /\ UNCHANGED <<registered, pending, remote, requester, watcher, consumer, done, reader>>

(* Mutant: the cleanup does not come to every entry. *)
EndRange_LeavesSome ==
  /\ cleaner.pc = "range"
  /\ cleaner' = [cleaner EXCEPT !.pc = "reset", !.at = NoRequest]
  /\ UNCHANGED <<registered, pending, channel, remote, requester, watcher, consumer, done, reader, panicked>>

EndRange ==
  /\ cleaner.pc = "range"
  /\ cleaner.at = NoRequest
  /\ cleaner.left \cap pending = {}
  /\ cleaner' = [cleaner EXCEPT !.pc = "reset"]
  /\ UNCHANGED <<registered, pending, channel, remote, requester, watcher, consumer, done, reader, panicked>>

(* The map is replaced and the connection closed, *)
Reset ==
  /\ cleaner.pc = "reset"
  /\ pending' = {}
  /\ cleaner' = [cleaner EXCEPT !.pc = "announce"]
  /\ UNCHANGED <<registered, channel, remote, requester, watcher, consumer, done, reader, panicked>>

(* and the manager forgets the session (handleSessionClosed). *)
Forget ==
  /\ cleaner.pc = "announce"
  /\ registered' = FALSE
  /\ cleaner' = [cleaner EXCEPT !.pc = "done"]
  /\ UNCHANGED <<pending, channel, remote, requester, watcher, consumer, done, reader, panicked>>

Cleaner == (\E r \in Request : Visit(r)) \/ TellClosed \/ EndRange \/ Reset \/ Forget

-----------------------------------------------------------------------------
(* The loop over the channel in Stream and NonStream *)

Tell(r, how) ==
  /\ consumer' = [consumer EXCEPT ![r].pc = "done", ![r].told = how]
  /\ channel' = [channel EXCEPT ![r].buffer = <<>>]

Receive(r) ==
  /\ consumer[r].pc = "receive"
  /\ channel[r].buffer # <<>>
  /\ LET msg == Head(channel[r].buffer) IN
       CASE msg.type = "chunk" ->
              /\ consumer' = [consumer EXCEPT ![r].got = Append(@, msg.n)]
              /\ channel' = [channel EXCEPT ![r].buffer = Tail(@)]
         [] msg.type = "error" -> Tell(r, "failed")
         [] OTHER -> Tell(r, "complete")
  /\ UNCHANGED <<registered, pending, remote, requester, watcher, done, reader, cleaner, panicked>>

(* A channel closed without a last message fails a stream; NonStream takes  *)
(* the chunks it has for the whole answer.                                  *)
ReceiveClosed(r) ==
  /\ consumer[r].pc = "receive"
  /\ channel[r].buffer = <<>> /\ ~channel[r].open
  /\ Tell(r, IF r \notin Stream /\ consumer[r].got # <<>> THEN "complete" ELSE "failed")
  /\ UNCHANGED <<registered, pending, remote, requester, watcher, done, reader, cleaner, panicked>>

GiveUp(r) ==
  /\ consumer[r].pc = "receive"
  /\ r \in done
  /\ Tell(r, "failed")
  /\ UNCHANGED <<registered, pending, remote, requester, watcher, done, reader, cleaner, panicked>>

Consumer(r) == Receive(r) \/ ReceiveClosed(r) \/ GiveUp(r)

-----------------------------------------------------------------------------
Next ==
  /\ ~panicked
  /\ \/ Dispatch \/ FinishDispatch \/ ReadFails \/ BeginCleanup \/ Cleaner
     \/ \E r \in Request :
          \/ Lookup(r) \/ Requester(r) \/ Cancel(r) \/ Watch(r) \/ Consumer(r)
          \/ \E type \in {"chunk"} \cup Terminal : Read(r, type)

Spec == Init /\ [][Next]_vars

-----------------------------------------------------------------------------
(* Properties. *)

(* The chunks of an answer arrive in the order they were sent; one is missing *)
(* only if the channel was full when it came (session.go:109), or if the      *)
(* answer did not come to its end.                                            *)
OnlyAFullChannelLoses ==
  \A r \in Request :
    LET got == consumer[r].got IN
      /\ \A i \in 1..(Len(got) - 1) : got[i] < got[i + 1]
      /\ consumer[r].told = "complete" /\ r \in Stream =>
           {got[i] : i \in 1..Len(got)} = (1..remote[r].sent) \ remote[r].lost

(* The program is never brought down unless a request was given up or the     *)
(* session is being closed: whoever closes a channel has taken it out first,  *)
(* and only the cleanup takes an entry from a request that has yet to use it. *)
PanicNeedsARace == panicked => closed \/ done # {}

(* Nobody waits on a channel that no one will close: it is in the map, ahead *)
(* of the cleanup if there is one; once the answer has ended the reader is    *)
(* about to close it, and once the context is done its watcher is.  An entry  *)
(* lost with the old map (session.go:182) would leave its request for ever.   *)
SomeoneWillClose ==
  \A r \in Request : consumer[r].pc = "receive" /\ channel[r].open =>
    /\ r \in pending
    /\ closed => r \in cleaner.left \/ r = cleaner.at
    /\ remote[r].over => reader.at = r
    /\ r \in done => watcher[r] = "waiting" \/ closed
=============================================================================
