--------------------------- MODULE WsRelay_proofs ---------------------------
(***************************************************************************)
(* Proofs about WsRelay: its type invariant, that the reader sends into a  *)
(* closed channel only in the races named, that nobody waits on a channel  *)
(* no one will close, and that only a full channel loses a chunk.          *)
(***************************************************************************)
EXTENDS WsRelay, SequenceTheorems, TLAPS

-----------------------------------------------------------------------------
(* The inductive invariant. *)

Asking == {"idle", "found", "stored", "loaded"}

(* Until request() has written its message, nobody else deals with it; its  *)
(* entry is in the map once it is stored, unless the cleanup replaced it.   *)
NotYetAsked(r) ==
  /\ requester[r] \in Asking =>
       /\ consumer[r] = [pc |-> "off", got |-> <<>>, told |-> "none"]
       /\ watcher[r] = "off"
       /\ r \notin done
       /\ remote[r] = [asked |-> FALSE, sent |-> 0, lost |-> {}, over |-> FALSE]
       /\ channel[r].buffer = <<>>
  /\ requester[r] \in {"idle", "found"} => r \notin pending /\ r \notin cleaner.left
  /\ requester[r] \in {"stored", "loaded"} /\ ~closed => r \in pending

(* What is in the map is open, and watched once it is waited for. *)
PendingIsOpen(r) ==
  /\ r \in pending /\ ~closed => channel[r].open
  /\ consumer[r].pc = "receive" /\ channel[r].open /\ ~closed => watcher[r] = "waiting"

(* Whom the reader has looked up had asked, and is still in the map but in  *)
(* the races; its last message is the last thing it has read of a request. *)
ReaderKnows ==
  /\ reader.pc \in {"deliver", "finish"} <=> reader.at # NoRequest
  /\ reader.at # NoRequest => remote[reader.at].asked
  /\ reader.pc = "deliver" => reader.at \in pending \/ reader.at \in done \/ closed
  /\ reader.at # NoRequest /\ reader.msg.type = "chunk" =>
       /\ reader.pc = "deliver"
       /\ ~remote[reader.at].over
       /\ reader.msg.n = remote[reader.at].sent
       /\ reader.msg.n > 0
  /\ reader.at # NoRequest /\ reader.msg.type # "chunk" => remote[reader.at].over

CleanerKnows ==
  /\ cleaner.pc = "idle" => cleaner.left = {}
  /\ cleaner.at # NoRequest => cleaner.pc = "range"
  /\ cleaner.pc \notin {"idle", "range"} => cleaner.left \cap pending = {}

(* SomeoneWillClose, of one request *)
WillClose(r) ==
  consumer[r].pc = "receive" /\ channel[r].open =>
    /\ r \in pending
    /\ closed => r \in cleaner.left \/ r = cleaner.at
    /\ remote[r].over => reader.at = r
    /\ r \in done => watcher[r] = "waiting" \/ closed

Control ==
  /\ \A r \in Request : NotYetAsked(r) /\ PendingIsOpen(r) /\ WillClose(r)
  /\ ReaderKnows /\ CleanerKnows /\ PanicNeedsARace

(* The chunks still in the channel, and the one in the reader's hands. *)
Chunk(s, n) == \E i \in 1..Len(s) : s[i].type = "chunk" /\ s[i].n = n
InHand(r, n) == reader.at = r /\ reader.msg.type = "chunk" /\ reader.msg.n = n
Got(s, n) == \E i \in 1..Len(s) : s[i] = n
HasEnd(s) == \E i \in 1..Len(s) : s[i].type = "end"

Increasing(g) == \A i, j \in 1..Len(g) : i < j => g[i] < g[j]

(* Nothing but errors comes after the last message of an answer. *)
ChunksFirst(s) ==
  \A i, j \in 1..Len(s) : i < j =>
    /\ s[i].type = "chunk" /\ s[j].type = "chunk" => s[i].n < s[j].n
    /\ s[i].type # "chunk" => s[j].type # "chunk"

GotBefore(g, s) ==
  \A i \in 1..Len(g), j \in 1..Len(s) : s[j].type = "chunk" => g[i] < s[j].n

(* All of them are among the first n chunks. *)
GotUpTo(g, n) == \A i \in 1..Len(g) : g[i] \in 1..n
ChunksUpTo(s, n) == \A j \in 1..Len(s) : s[j].type = "chunk" => s[j].n \in 1..n

(* Chunks are got, wait and are in hand in the order they were sent. *)
Ordered(r) ==
  LET got == consumer[r].got
      buffer == channel[r].buffer
      sent == remote[r].sent
  IN /\ Increasing(got) /\ ChunksFirst(buffer) /\ GotBefore(got, buffer)
     /\ GotUpTo(got, sent) /\ ChunksUpTo(buffer, sent)
     /\ InHand(r, sent) => GotUpTo(got, sent - 1) /\ ChunksUpTo(buffer, sent - 1)
     /\ remote[r].lost \subseteq 1..sent
     /\ HasEnd(buffer) => remote[r].over
     /\ channel[r].open /\ (\E i \in 1..Len(buffer) : buffer[i].type # "chunk") => remote[r].over

(* Every chunk of a stream that is still whole has been got, waits, is in   *)
(* hand, or was lost at a full channel.                                     *)
Accounted(r) ==
  LET got == consumer[r].got
      buffer == channel[r].buffer
      sent == 1..remote[r].sent
  IN /\ r \in Stream /\ consumer[r].pc = "receive" /\ (channel[r].open \/ HasEnd(buffer)) =>
          \A n \in sent : n \in remote[r].lost <=> ~(Got(got, n) \/ Chunk(buffer, n) \/ InHand(r, n))
     /\ r \in Stream /\ consumer[r].told = "complete" =>
          /\ remote[r].over
          /\ \A n \in sent : n \in remote[r].lost <=> ~Got(got, n)
     /\ consumer[r].told = "complete" => consumer[r].pc = "done"

Data(r) == Ordered(r) /\ Accounted(r)

IInv ==
  /\ TypeOK
  /\ Control
  /\ \A r \in Request : Data(r)

-----------------------------------------------------------------------------
(* Types. *)

LEMMA ChannelUpdates ==
  ASSUME NEW c \in Channel
  PROVE  /\ c.open \in BOOLEAN /\ c.buffer \in Seq(Message) /\ Len(c.buffer) <= Capacity
         /\ \A b \in BOOLEAN :
              /\ [c EXCEPT !.open = b] \in Channel
              /\ [c EXCEPT !.open = b].open = b
              /\ [c EXCEPT !.open = b].buffer = c.buffer
         /\ \A s \in Seq(Message) : Len(s) <= Capacity =>
              /\ [c EXCEPT !.buffer = s] \in Channel
              /\ [c EXCEPT !.buffer = s].open = c.open
              /\ [c EXCEPT !.buffer = s].buffer = s
              /\ [c EXCEPT !.buffer = s, !.open = FALSE] \in Channel
              /\ [c EXCEPT !.buffer = s, !.open = FALSE].open = FALSE
              /\ [c EXCEPT !.buffer = s, !.open = FALSE].buffer = s
  BY DEF Channel

LEMMA RemoteUpdates ==
  ASSUME NEW c \in Remote
  PROVE  /\ c.sent \in Nat /\ c.lost \subseteq Nat /\ c.over \in BOOLEAN /\ c.asked \in BOOLEAN
         /\ [c EXCEPT !.asked = TRUE] \in Remote
         /\ \A b \in BOOLEAN, n \in Nat : [c EXCEPT !.sent = n, !.over = b] \in Remote
         /\ \A s \in SUBSET Nat : [c EXCEPT !.lost = s] \in Remote
  BY DEF Remote

LEMMA ConsumerUpdates ==
  ASSUME NEW c \in Consuming
  PROVE  /\ c.got \in Seq(Nat)
         /\ \A p \in {"off", "receive", "done"} : [c EXCEPT !.pc = p] \in Consuming
         /\ \A p \in {"off", "receive", "done"}, t \in {"none", "complete", "failed"} :
                [c EXCEPT !.pc = p, !.told = t] \in Consuming
         /\ \A s \in Seq(Nat) : [c EXCEPT !.got = s] \in Consuming
  BY DEF Consuming

LEMMA NothingType == Nothing \in Message
  BY DEF Nothing, Message, Terminal

LEMMA PutType ==
  ASSUME TypeOK, NEW r \in Request, NEW msg \in Message
  PROVE  Put(r, msg) \in Seq(Message) /\ Len(Put(r, msg)) <= Capacity
<1>1. /\ channel[r].buffer \in Seq(Message)
      /\ Len(channel[r].buffer) <= Capacity
      /\ Len(channel[r].buffer) \in Nat
  BY DEF TypeOK, Channel
<1>2. CASE Waiting(r) /\ ~Full(r)
  <2>1. Put(r, msg) = Append(channel[r].buffer, msg)
    BY <1>2 DEF Put
  <2>2. Append(channel[r].buffer, msg) \in Seq(Message)
    BY <1>1
  <2>3. Len(Append(channel[r].buffer, msg)) = Len(channel[r].buffer) + 1
    BY <1>1
  <2>4. Len(channel[r].buffer) # Capacity
    BY <1>2 DEF Full
  <2> QED
    BY <1>1, <2>1, <2>2, <2>3, <2>4, RelayAssumption
<1>3. CASE ~(Waiting(r) /\ ~Full(r))
  BY <1>1, <1>3 DEF Put
<1> QED
  BY <1>2, <1>3

LEMMA InitTypeOK == Init => TypeOK
<1> SUFFICES ASSUME Init PROVE TypeOK
  OBVIOUS
<1>1. [open |-> FALSE, buffer |-> <<>>] \in Channel
  BY RelayAssumption DEF Channel
<1>2. [asked |-> FALSE, sent |-> 0, lost |-> {}, over |-> FALSE] \in Remote
  BY DEF Remote
<1>3. [pc |-> "off", got |-> <<>>, told |-> "none"] \in Consuming
  BY DEF Consuming
<1>4. reader \in Reading /\ cleaner \in Cleaning
  BY NothingType DEF Init, Reading, Cleaning
<1> QED
  BY <1>1, <1>2, <1>3, <1>4 DEF Init, TypeOK

LEMMA TakeOutType ==
  ASSUME TypeOK, NEW r \in Request, TakeOut(r)
  PROVE  pending' \subseteq Request /\ channel' \in [Request -> Channel]
<1>1. channel[r] \in Channel /\ [channel[r] EXCEPT !.open = FALSE] \in Channel
  BY DEF TypeOK, Channel
<1> QED
  BY <1>1 DEF TypeOK, TakeOut, Close

LEMMA RequesterType ==
  ASSUME TypeOK, NEW r \in Request,
         Lookup(r) \/ Requester(r) \/ Cancel(r) \/ Watch(r)
  PROVE  TypeOK'
<1> USE DEF TypeOK
<1>1. CASE Lookup(r)
  BY <1>1 DEF Lookup
<1>2. CASE Store(r)
  <2>1. [channel[r] EXCEPT !.open = TRUE] \in Channel
    BY DEF Channel
  <2> QED
    BY <1>2, <2>1 DEF Store
<1>3. CASE LoadBack(r)
  <2>1. [consumer[r] EXCEPT !.pc = "done", !.told = "failed"] \in Consuming
    BY DEF Consuming
  <2> QED
    BY <1>3, <2>1 DEF LoadBack
<1>4. CASE Write(r)
  <2>1. [consumer[r] EXCEPT !.pc = "receive"] \in Consuming
    BY DEF Consuming
  <2>2. [remote[r] EXCEPT !.asked = TRUE] \in Remote
    BY DEF Remote
  <2> QED
    BY <1>4, <2>1, <2>2 DEF Write
<1>5. CASE WriteFails(r)
  <2>1. [consumer[r] EXCEPT !.pc = "done", !.told = "failed"] \in Consuming
    BY DEF Consuming
  <2> QED
    BY <1>5, <2>1, TakeOutType DEF WriteFails
<1>6. CASE Cancel(r)
  BY <1>6 DEF Cancel
<1>7. CASE Watch(r)
  BY <1>7, TakeOutType DEF Watch
<1> QED
  BY <1>1, <1>2, <1>3, <1>4, <1>5, <1>6, <1>7 DEF Requester

LEMMA DeliverType ==
  ASSUME TypeOK, NEW r \in Request, NEW msg \in Message, Deliver(r, msg)
  PROVE  /\ channel' \in [Request -> Channel]
         /\ remote' \in [Request -> Remote]
         /\ panicked' \in BOOLEAN
<1>1. channel[r] \in Channel /\ remote[r] \in Remote
  BY DEF TypeOK
<1>2. [channel[r] EXCEPT !.buffer = Put(r, msg)] \in Channel
  BY <1>1, PutType, ChannelUpdates
<1>3. remote[r].lost \cup {msg.n} \in SUBSET Nat
  BY <1>1, RemoteUpdates DEF Message
<1>4. /\ [remote[r] EXCEPT !.lost = remote[r].lost \cup {msg.n}] \in Remote
      /\ [remote[r] EXCEPT !.lost = remote[r].lost] \in Remote
  BY <1>1, <1>3, RemoteUpdates
<1> QED
  BY <1>2, <1>4 DEF TypeOK, Deliver

LEMMA ReaderType ==
  ASSUME TypeOK, ReaderKnows,
         Dispatch \/ FinishDispatch \/ ReadFails
         \/ \E r \in Request, type \in {"chunk"} \cup Terminal : Read(r, type)
  PROVE  TypeOK'
<1> USE DEF TypeOK
<1>1. CASE Dispatch
  <2>1. reader.at \in Request /\ reader.msg \in Message
    BY <1>1 DEF Dispatch, ReaderKnows, Reading
  <2>2. reader' \in Reading
    BY <1>1, NothingType DEF Dispatch, Reading
  <2> QED
    BY <1>1, <2>1, <2>2, DeliverType DEF Dispatch
<1>2. CASE FinishDispatch
  <2>1. reader.at \in Request
    BY <1>2 DEF FinishDispatch, ReaderKnows, Reading
  <2>2. reader' \in Reading
    BY <1>2, NothingType DEF FinishDispatch, Reading
  <2> QED
    BY <1>2, <2>1, <2>2, TakeOutType DEF FinishDispatch
<1>3. CASE ReadFails
  <2>1. reader' \in Reading /\ cleaner' \in Cleaning
    BY <1>3 DEF ReadFails, Reading, Cleaning
  <2> QED
    BY <1>3, <2>1 DEF ReadFails
<1>4. ASSUME NEW r \in Request, NEW type \in {"chunk"} \cup Terminal, Read(r, type)
      PROVE  TypeOK'
  <2>1. remote[r] \in Remote /\ remote[r].sent \in Nat
    BY RemoteUpdates
  <2>2. remote' \in [Request -> Remote]
    <3>1. \A n \in Nat, b \in BOOLEAN : [remote[r] EXCEPT !.sent = n, !.over = b] \in Remote
      BY <2>1 DEF Remote
    <3> DEFINE n == IF type = "chunk" THEN remote[r].sent + 1 ELSE remote[r].sent
    <3>2. n \in Nat /\ (type \in Terminal) \in BOOLEAN
      BY <2>1
    <3>3. [remote[r] EXCEPT !.sent = n, !.over = type \in Terminal] \in Remote
      BY <3>1, <3>2
    <3>4. remote' = [remote EXCEPT ![r] = [remote[r] EXCEPT !.sent = n, !.over = type \in Terminal]]
      BY <1>4 DEF Read
    <3> QED
      BY <3>3, <3>4
  <2>3. reader' \in Reading
    BY <1>4, <2>1 DEF Read, Reading, Message
  <2> QED
    BY <1>4, <2>2, <2>3 DEF Read
<1> QED
  BY <1>1, <1>2, <1>3, <1>4

LEMMA CleanerType ==
  ASSUME TypeOK, BeginCleanup \/ Cleaner
  PROVE  TypeOK'
<1> USE DEF TypeOK
<1>1. CASE BeginCleanup
  BY <1>1 DEF BeginCleanup, Cleaning
<1>2. ASSUME NEW r \in Request, Visit(r) PROVE TypeOK'
  BY <1>2 DEF Visit, Cleaning
<1>3. CASE TellClosed
  <2> DEFINE r == cleaner.at
  <2>1. r \in Request /\ cleaner' \in Cleaning
    BY <1>3 DEF TellClosed, Cleaning
  <2>2. [type |-> "error", n |-> 0] \in Message
    BY DEF Message, Terminal
  <2>3. channel' \in [Request -> Channel]
    <3>1. channel[r] \in Channel
      BY <2>1
    <3>2. [channel[r] EXCEPT !.buffer = Put(r, [type |-> "error", n |-> 0]), !.open = FALSE] \in Channel
      BY <2>1, <2>2, <3>1, PutType DEF Channel
    <3> QED
      BY <1>3, <2>1, <3>2 DEF TellClosed
  <2> QED
    BY <1>3, <2>1, <2>3 DEF TellClosed
<1>4. CASE EndRange
  BY <1>4 DEF EndRange, Cleaning
<1>5. CASE Reset
  BY <1>5 DEF Reset, Cleaning
<1>6. CASE Forget
  BY <1>6 DEF Forget, Cleaning
<1> QED
  BY <1>1, <1>2, <1>3, <1>4, <1>5, <1>6 DEF Cleaner

LEMMA TellType ==
  ASSUME TypeOK, NEW r \in Request, NEW how \in {"complete", "failed"}, Tell(r, how)
  PROVE  consumer' \in [Request -> Consuming] /\ channel' \in [Request -> Channel]
<1>1. <<>> \in Seq(Message) /\ Len(<<>>) <= Capacity
  BY RelayAssumption
<1>2. channel[r] \in Channel /\ consumer[r] \in Consuming
  BY DEF TypeOK
<1>3. [channel[r] EXCEPT !.buffer = <<>>] \in Channel
  BY <1>1, <1>2 DEF Channel
<1>4. [consumer[r] EXCEPT !.pc = "done", !.told = how] \in Consuming
  BY <1>2 DEF Consuming
<1> QED
  BY <1>3, <1>4 DEF TypeOK, Tell

LEMMA ConsumerType ==
  ASSUME TypeOK, NEW r \in Request, Consumer(r)
  PROVE  TypeOK'
<1> USE DEF TypeOK
<1>1. CASE Receive(r)
  <2> DEFINE buffer == channel[r].buffer
  <2>1. /\ channel[r] \in Channel /\ consumer[r] \in Consuming
        /\ buffer \in Seq(Message) /\ buffer # <<>> /\ Len(buffer) <= Capacity
    BY <1>1, ChannelUpdates DEF Receive
  <2>2. /\ Head(buffer) \in Message /\ Tail(buffer) \in Seq(Message)
        /\ Len(Tail(buffer)) <= Capacity
    BY <2>1, RelayAssumption
  <2>3. CASE Head(buffer).type = "chunk"
    <3>1. Append(consumer[r].got, Head(buffer).n) \in Seq(Nat)
      BY <2>1, <2>2 DEF Consuming, Message
    <3>2. [consumer[r] EXCEPT !.got = Append(consumer[r].got, Head(buffer).n)] \in Consuming
      BY <2>1, <3>1, ConsumerUpdates
    <3>3. [channel[r] EXCEPT !.buffer = Tail(buffer)] \in Channel
      BY <2>1, <2>2, ChannelUpdates
    <3> QED
      BY <1>1, <2>3, <3>2, <3>3 DEF Receive
  <2>4. CASE Head(buffer).type = "error"
    BY <1>1, <2>4, TellType DEF Receive
  <2>5. CASE Head(buffer).type \notin {"chunk", "error"}
    BY <1>1, <2>5, TellType DEF Receive
  <2> QED
    BY <2>3, <2>4, <2>5
<1>2. CASE ReceiveClosed(r)
  BY <1>2, TellType DEF ReceiveClosed
<1>3. CASE GiveUp(r)
  BY <1>3, TellType DEF GiveUp
<1> QED
  BY <1>1, <1>2, <1>3 DEF Consumer

-----------------------------------------------------------------------------
(* What the shared parts of the actions leave alone. *)

LEMMA DeliverEffect ==
  ASSUME TypeOK, NEW r \in Request, NEW msg \in Message, Deliver(r, msg)
  PROVE  /\ \A q \in Request : channel'[q].open = channel[q].open
         /\ \A q \in Request \ {r} : channel'[q] = channel[q] /\ remote'[q] = remote[q]
         /\ remote'[r].asked = remote[r].asked
         /\ remote'[r].sent = remote[r].sent
         /\ remote'[r].over = remote[r].over
         /\ panicked' => panicked \/ ~channel[r].open
         /\ ~channel[r].open => channel' = channel /\ remote' = remote
         /\ channel[r].open =>
              /\ channel'[r].buffer = Put(r, msg)
              /\ remote'[r].lost = IF Full(r) /\ msg.type = "chunk" /\ r \in Stream
                                   THEN remote[r].lost \cup {msg.n} ELSE remote[r].lost
<1>1. CASE ~channel[r].open
  BY <1>1 DEF Deliver
<1>2. CASE channel[r].open
  <2> DEFINE s == Put(r, msg)
             l == IF Full(r) /\ msg.type = "chunk" /\ r \in Stream
                  THEN remote[r].lost \cup {msg.n} ELSE remote[r].lost
  <2>1. /\ channel' = [channel EXCEPT ![r] = [channel[r] EXCEPT !.buffer = s]]
        /\ remote' = [remote EXCEPT ![r] = [remote[r] EXCEPT !.lost = l]]
        /\ UNCHANGED panicked
    BY <1>2 DEF Deliver
  <2> HIDE DEF s, l
  <2>2. /\ channel \in [Request -> Channel] /\ channel[r] \in Channel
        /\ remote \in [Request -> Remote] /\ remote[r] \in Remote
    BY DEF TypeOK
  <2>3. /\ channel'[r] = [channel[r] EXCEPT !.buffer = s]
        /\ remote'[r] = [remote[r] EXCEPT !.lost = l]
        /\ \A q \in Request \ {r} : channel'[q] = channel[q] /\ remote'[q] = remote[q]
    BY <2>1, <2>2
  <2>4. channel'[r].open = channel[r].open /\ channel'[r].buffer = s
    BY <2>2, <2>3 DEF Channel
  <2>5. /\ remote'[r].asked = remote[r].asked /\ remote'[r].sent = remote[r].sent
        /\ remote'[r].over = remote[r].over /\ remote'[r].lost = l
    BY <2>2, <2>3 DEF Remote
  <2> QED
    BY <1>2, <2>1, <2>3, <2>4, <2>5 DEF s, l
<1> QED
  BY <1>1, <1>2

LEMMA TakeOutEffect ==
  ASSUME TypeOK, NEW r \in Request, TakeOut(r)
  PROVE  /\ pending' = pending \ {r}
         /\ \A q \in Request \ {r} : channel'[q] = channel[q]
         /\ channel'[r].buffer = channel[r].buffer
         /\ channel'[r].open = (channel[r].open /\ r \notin pending)
  BY DEF TypeOK, TakeOut, Close, Channel

LEMMA TellEffect ==
  ASSUME TypeOK, NEW r \in Request, NEW how \in {"complete", "failed"}, Tell(r, how)
  PROVE  /\ \A q \in Request : channel'[q].open = channel[q].open
         /\ \A q \in Request \ {r} : channel'[q] = channel[q] /\ consumer'[q] = consumer[q]
         /\ channel'[r].buffer = <<>>
         /\ consumer'[r].pc = "done"
         /\ consumer'[r].told = how
         /\ consumer'[r].got = consumer[r].got
<1>1. /\ channel' = [channel EXCEPT ![r] = [channel[r] EXCEPT !.buffer = <<>>]]
      /\ consumer' = [consumer EXCEPT ![r] = [consumer[r] EXCEPT !.pc = "done", !.told = how]]
  BY DEF Tell
<1>2. /\ channel \in [Request -> Channel] /\ channel[r] \in Channel
      /\ consumer \in [Request -> Consuming] /\ consumer[r] \in Consuming
  BY DEF TypeOK
<1>3. /\ channel'[r] = [channel[r] EXCEPT !.buffer = <<>>]
      /\ consumer'[r] = [consumer[r] EXCEPT !.pc = "done", !.told = how]
      /\ \A q \in Request \ {r} : channel'[q] = channel[q] /\ consumer'[q] = consumer[q]
  BY <1>1, <1>2
<1>4. channel'[r].open = channel[r].open /\ channel'[r].buffer = <<>>
  BY <1>2, <1>3 DEF Channel
<1>5. /\ consumer'[r].pc = "done" /\ consumer'[r].told = how
      /\ consumer'[r].got = consumer[r].got
  BY <1>2, <1>3 DEF Consuming
<1> QED
  BY <1>3, <1>4, <1>5

(* Of a message received, a chunk is kept and any other ends the reading. *)
LEMMA ReceiveEffect ==
  ASSUME TypeOK, NEW r \in Request, Receive(r)
  PROVE  /\ \A q \in Request : channel'[q].open = channel[q].open
         /\ \A q \in Request \ {r} : channel'[q] = channel[q] /\ consumer'[q] = consumer[q]
         /\ consumer[r].pc = "receive"
         /\ channel[r].buffer # <<>>
         /\ \/ /\ Head(channel[r].buffer).type = "chunk"
               /\ consumer'[r].pc = consumer[r].pc
               /\ consumer'[r].told = consumer[r].told
               /\ consumer'[r].got = Append(consumer[r].got, Head(channel[r].buffer).n)
               /\ channel'[r].buffer = Tail(channel[r].buffer)
            \/ \E how \in {"complete", "failed"} :
                 /\ how = "complete" => Head(channel[r].buffer).type = "end"
                 /\ Tell(r, how)
                 /\ consumer'[r].pc = "done"
<1>1. /\ channel \in [Request -> Channel] /\ channel[r] \in Channel
      /\ consumer \in [Request -> Consuming] /\ consumer[r] \in Consuming
  BY DEF TypeOK
<1>2. consumer[r].pc = "receive" /\ channel[r].buffer # <<>>
  BY DEF Receive
<1>3. Head(channel[r].buffer) \in Message
  BY <1>1, <1>2 DEF Channel
<1>4. CASE Head(channel[r].buffer).type = "chunk"
  <2> DEFINE g == Append(consumer[r].got, Head(channel[r].buffer).n)
             s == Tail(channel[r].buffer)
  <2>1. /\ channel' = [channel EXCEPT ![r] = [channel[r] EXCEPT !.buffer = s]]
        /\ consumer' = [consumer EXCEPT ![r] = [consumer[r] EXCEPT !.got = g]]
    BY <1>4 DEF Receive
  <2> HIDE DEF g, s
  <2>2. /\ channel'[r] = [channel[r] EXCEPT !.buffer = s]
        /\ consumer'[r] = [consumer[r] EXCEPT !.got = g]
        /\ \A q \in Request \ {r} : channel'[q] = channel[q] /\ consumer'[q] = consumer[q]
    BY <1>1, <2>1
  <2>3. channel'[r].open = channel[r].open /\ channel'[r].buffer = s
    BY <1>1, <2>2 DEF Channel
  <2>4. /\ consumer'[r].pc = consumer[r].pc /\ consumer'[r].told = consumer[r].told
        /\ consumer'[r].got = g
    BY <1>1, <2>2 DEF Consuming
  <2> QED
    BY <1>2, <1>4, <2>2, <2>3, <2>4 DEF g, s
<1>5. CASE Head(channel[r].buffer).type = "error"
  <2>1. Tell(r, "failed")
    BY <1>5 DEF Receive
  <2> QED
    BY <1>2, <2>1, TellEffect
<1>6. CASE Head(channel[r].buffer).type = "end"
  <2>1. Tell(r, "complete")
    BY <1>6 DEF Receive
  <2> QED
    BY <1>2, <1>6, <2>1, TellEffect
<1> QED
  BY <1>3, <1>4, <1>5, <1>6 DEF Message, Terminal

LEMMA ReadEffect ==
  ASSUME TypeOK, NEW r \in Request, NEW type \in {"chunk"} \cup Terminal, Read(r, type)
  PROVE  /\ \A q \in Request \ {r} : remote'[q] = remote[q]
         /\ remote'[r].asked = remote[r].asked
         /\ remote'[r].lost = remote[r].lost
         /\ remote'[r].sent = IF type = "chunk" THEN remote[r].sent + 1 ELSE remote[r].sent
         /\ remote'[r].over = (type \in Terminal)
<1> DEFINE n == IF type = "chunk" THEN remote[r].sent + 1 ELSE remote[r].sent
           b == type \in Terminal
<1>1. remote' = [remote EXCEPT ![r] = [remote[r] EXCEPT !.sent = n, !.over = b]]
  BY DEF Read
<1>2. remote \in [Request -> Remote] /\ remote[r] \in Remote
  BY DEF TypeOK
<1> HIDE DEF n, b
<1>3. /\ remote'[r] = [remote[r] EXCEPT !.sent = n, !.over = b]
      /\ \A q \in Request \ {r} : remote'[q] = remote[q]
  BY <1>1, <1>2
<1>4. /\ remote'[r].asked = remote[r].asked /\ remote'[r].lost = remote[r].lost
      /\ remote'[r].sent = n /\ remote'[r].over = b
  BY <1>2, <1>3 DEF Remote
<1> QED
  BY <1>3, <1>4 DEF n, b

LEMMA DispatchEffect ==
  ASSUME TypeOK, ReaderKnows, Dispatch
  PROVE  \E r \in Request :
           /\ r = reader.at /\ reader.msg \in Message
           /\ reader.pc = "deliver" /\ Deliver(r, reader.msg)
           /\ IF reader.msg.type = "chunk"
              THEN reader'.pc = "read" /\ reader'.at = NoRequest
              ELSE reader'.pc = "finish" /\ reader'.at = r /\ reader'.msg = reader.msg
           /\ UNCHANGED <<registered, pending, requester, watcher, consumer, done, cleaner>>
  BY DEF TypeOK, Reading, ReaderKnows, Dispatch, Message, Terminal

LEMMA FinishEffect ==
  ASSUME TypeOK, ReaderKnows, FinishDispatch
  PROVE  \E r \in Request :
           /\ r = reader.at
           /\ TakeOut(r)
           /\ reader'.pc = "read" /\ reader'.at = NoRequest
           /\ UNCHANGED <<registered, remote, requester, watcher, consumer, done, cleaner, panicked>>
  BY DEF TypeOK, Reading, ReaderKnows, FinishDispatch

-----------------------------------------------------------------------------
(* The part of the invariant that is about who may do what. *)

LEMMA ControlInit == Init => Control
  BY RelayAssumption DEF Init, Control, NotYetAsked, PendingIsOpen, WillClose, ReaderKnows,
     CleanerKnows, PanicNeedsARace, Asking, closed, Nothing

ControlOf(q) ==
  /\ NotYetAsked(q) /\ PendingIsOpen(q) /\ WillClose(q)
  /\ ReaderKnows /\ CleanerKnows /\ PanicNeedsARace

LEMMA ControlStepOf ==
  ASSUME TypeOK, TypeOK', Control, Next, NEW q \in Request
  PROVE  ControlOf(q)'
<1>0. ~panicked
  BY DEF Next
<1> USE DEF Control, Asking, closed
<1>1. ASSUME NEW r \in Request, Lookup(r)
      PROVE  ControlOf(q)'
  <2>1. NotYetAsked(q)'
    BY <1>1 DEF NotYetAsked, Lookup
  <2>2. PendingIsOpen(q)'
    BY <1>1 DEF PendingIsOpen, Lookup
  <2>3. WillClose(q)'
    BY <1>1 DEF WillClose, Lookup
  <2>4. ReaderKnows'
    BY <1>1 DEF ReaderKnows, Lookup
  <2>5. CleanerKnows'
    BY <1>1 DEF CleanerKnows, Lookup
  <2>6. PanicNeedsARace'
    BY <1>1, <1>0 DEF PanicNeedsARace, Lookup
  <2> QED
    BY <2>1, <2>2, <2>3, <2>4, <2>5, <2>6 DEF ControlOf
<1>2. ASSUME NEW r \in Request, Store(r)
      PROVE  ControlOf(q)'
  <2>1. NotYetAsked(q)'
    BY <1>2 DEF NotYetAsked, Store, TypeOK
  <2>2. PendingIsOpen(q)'
    BY <1>2 DEF PendingIsOpen, Store, NotYetAsked, WillClose, ReaderKnows, CleanerKnows,
         TypeOK
  <2>3. WillClose(q)'
    BY <1>2 DEF WillClose, Store, NotYetAsked, PendingIsOpen, ReaderKnows, CleanerKnows,
         TypeOK
  <2>4. ReaderKnows'
    BY <1>2 DEF ReaderKnows, Store
  <2>5. CleanerKnows'
    BY <1>2 DEF CleanerKnows, Store, NotYetAsked, PendingIsOpen, WillClose, ReaderKnows,
         TypeOK
  <2>6. PanicNeedsARace'
    BY <1>2, <1>0 DEF PanicNeedsARace, Store
  <2> QED
    BY <2>1, <2>2, <2>3, <2>4, <2>5, <2>6 DEF ControlOf
<1>3. ASSUME NEW r \in Request, LoadBack(r)
      PROVE  ControlOf(q)'
  <2>1. NotYetAsked(q)'
    BY <1>3 DEF NotYetAsked, LoadBack, TypeOK
  <2>2. PendingIsOpen(q)'
    BY <1>3 DEF PendingIsOpen, LoadBack, TypeOK, Channel, Remote, Consuming, Reading,
         Cleaning
  <2>3. WillClose(q)'
    BY <1>3 DEF WillClose, LoadBack, NotYetAsked, PendingIsOpen, ReaderKnows, CleanerKnows,
         TypeOK
  <2>4. ReaderKnows'
    BY <1>3 DEF ReaderKnows, LoadBack
  <2>5. CleanerKnows'
    BY <1>3 DEF CleanerKnows, LoadBack
  <2>6. PanicNeedsARace'
    BY <1>3, <1>0 DEF PanicNeedsARace, LoadBack, NotYetAsked
  <2> QED
    BY <2>1, <2>2, <2>3, <2>4, <2>5, <2>6 DEF ControlOf
<1>4. ASSUME NEW r \in Request, Write(r)
      PROVE  ControlOf(q)'
  <2>1. NotYetAsked(q)'
    BY <1>4 DEF NotYetAsked, Write, TypeOK
  <2>2. PendingIsOpen(q)'
    BY <1>4 DEF PendingIsOpen, Write, TypeOK
  <2>3. WillClose(q)'
    BY <1>4 DEF WillClose, Write, NotYetAsked, PendingIsOpen, ReaderKnows, CleanerKnows,
         TypeOK
  <2>4. ReaderKnows'
    BY <1>4 DEF ReaderKnows, Write
  <2>5. CleanerKnows'
    BY <1>4 DEF CleanerKnows, Write
  <2>6. PanicNeedsARace'
    BY <1>4, <1>0 DEF PanicNeedsARace, Write
  <2> QED
    BY <2>1, <2>2, <2>3, <2>4, <2>5, <2>6 DEF ControlOf
<1>5. ASSUME NEW r \in Request, WriteFails(r)
      PROVE  ControlOf(q)'
  <2>1. NotYetAsked(q)'
    BY <1>5, TakeOutEffect DEF NotYetAsked, WriteFails, TypeOK
  <2>2. PendingIsOpen(q)'
    BY <1>5, TakeOutEffect DEF PendingIsOpen, WriteFails, TypeOK
  <2>3. WillClose(q)'
    BY <1>5, TakeOutEffect DEF WillClose, WriteFails, TypeOK
  <2>4. ReaderKnows'
    BY <1>5, TakeOutEffect DEF ReaderKnows, WriteFails, NotYetAsked, PendingIsOpen,
         WillClose, CleanerKnows, TypeOK
  <2>5. CleanerKnows'
    BY <1>5, TakeOutEffect DEF CleanerKnows, WriteFails
  <2>6. PanicNeedsARace'
    BY <1>5, <1>0, TakeOutEffect DEF PanicNeedsARace, WriteFails
  <2> QED
    BY <2>1, <2>2, <2>3, <2>4, <2>5, <2>6 DEF ControlOf
<1>6. ASSUME NEW r \in Request, Cancel(r)
      PROVE  ControlOf(q)'
  <2>1. NotYetAsked(q)'
    BY <1>6 DEF NotYetAsked, Cancel
  <2>2. PendingIsOpen(q)'
    BY <1>6 DEF PendingIsOpen, Cancel
  <2>3. WillClose(q)'
    BY <1>6 DEF WillClose, Cancel, NotYetAsked, PendingIsOpen, ReaderKnows, CleanerKnows,
         TypeOK
  <2>4. ReaderKnows'
    BY <1>6 DEF ReaderKnows, Cancel
  <2>5. CleanerKnows'
    BY <1>6 DEF CleanerKnows, Cancel
  <2>6. PanicNeedsARace'
    BY <1>6, <1>0 DEF PanicNeedsARace, Cancel
  <2> QED
    BY <2>1, <2>2, <2>3, <2>4, <2>5, <2>6 DEF ControlOf
<1>7. ASSUME NEW r \in Request, Watch(r)
      PROVE  ControlOf(q)'
  <2>1. NotYetAsked(q)'
    BY <1>7, TakeOutEffect DEF NotYetAsked, Watch
  <2>2. PendingIsOpen(q)'
    <3>1. CASE r \in done /\ TakeOut(r)
      <4>1. /\ pending' = pending \ {r}
            /\ \A p \in Request \ {r} : channel'[p] = channel[p]
            /\ channel'[r].open = (channel[r].open /\ r \notin pending)
        BY <3>1, TakeOutEffect
      <4>2. /\ watcher' = [watcher EXCEPT ![r] = "done"]
            /\ UNCHANGED <<remote, requester, consumer, done, reader, cleaner>>
        BY <1>7 DEF Watch
      <4>3. CASE q = r
        BY <4>1, <4>2, <4>3 DEF PendingIsOpen, WillClose
      <4>4. CASE q # r
        BY <4>1, <4>2, <4>4 DEF PendingIsOpen, TypeOK
      <4> QED
        BY <4>3, <4>4
    <3>2. CASE closed /\ UNCHANGED <<pending, channel>>
      BY <1>7, <3>2 DEF PendingIsOpen, Watch
    <3> QED
      BY <1>7, <3>1, <3>2 DEF Watch
  <2>3. WillClose(q)'
    <3>1. CASE r \in done /\ TakeOut(r)
      <4>1. /\ pending' = pending \ {r}
            /\ \A p \in Request \ {r} : channel'[p] = channel[p]
            /\ channel'[r].open = (channel[r].open /\ r \notin pending)
        BY <3>1, TakeOutEffect
      <4>2. /\ watcher' = [watcher EXCEPT ![r] = "done"]
            /\ UNCHANGED <<remote, requester, consumer, done, reader, cleaner>>
        BY <1>7 DEF Watch
      <4>3. CASE q = r
        BY <4>1, <4>2, <4>3 DEF PendingIsOpen, WillClose
      <4>4. CASE q # r
        BY <4>1, <4>2, <4>4 DEF WillClose, TypeOK
      <4> QED
        BY <4>3, <4>4
    <3>2. CASE closed /\ UNCHANGED <<pending, channel>>
      BY <1>7, <3>2 DEF WillClose, Watch
    <3> QED
      BY <1>7, <3>1, <3>2 DEF Watch
  <2>4. ReaderKnows'
    BY <1>7, TakeOutEffect DEF ReaderKnows, Watch
  <2>5. CleanerKnows'
    BY <1>7, TakeOutEffect DEF CleanerKnows, Watch
  <2>6. PanicNeedsARace'
    BY <1>7, <1>0, TakeOutEffect DEF PanicNeedsARace, Watch
  <2> QED
    BY <2>1, <2>2, <2>3, <2>4, <2>5, <2>6 DEF ControlOf
<1>8. CASE Dispatch
  <2>a. PICK r \in Request :
           /\ r = reader.at /\ reader.msg \in Message
           /\ reader.pc = "deliver" /\ Deliver(r, reader.msg)
           /\ IF reader.msg.type = "chunk"
              THEN reader'.pc = "read" /\ reader'.at = NoRequest
              ELSE reader'.pc = "finish" /\ reader'.at = r /\ reader'.msg = reader.msg
           /\ UNCHANGED <<registered, pending, requester, watcher, consumer, done, cleaner>>
    BY <1>8, DispatchEffect
  <2>b. /\ r = reader.at /\ reader.pc = "deliver" /\ r # NoRequest
        /\ IF reader.msg.type = "chunk"
           THEN reader'.pc = "read" /\ reader'.at = NoRequest
           ELSE reader'.pc = "finish" /\ reader'.at = r /\ reader'.msg = reader.msg
        /\ UNCHANGED <<registered, pending, requester, watcher, consumer, done, cleaner>>
    BY <2>a, RelayAssumption
  <2>c. /\ \A p \in Request : channel'[p].open = channel[p].open
        /\ \A p \in Request \ {r} : channel'[p] = channel[p] /\ remote'[p] = remote[p]
        /\ remote'[r].asked = remote[r].asked
        /\ remote'[r].sent = remote[r].sent
        /\ remote'[r].over = remote[r].over
        /\ panicked' => panicked \/ ~channel[r].open
    BY <2>a, DeliverEffect
  <2>1. NotYetAsked(q)'
    <3>1. CASE q = r
      BY <1>8, <2>b, <3>1 DEF NotYetAsked, ReaderKnows
    <3>2. CASE q # r
      BY <1>8, <2>b, <2>c, <3>2 DEF NotYetAsked
    <3> QED
      BY <3>1, <3>2
  <2>2. PendingIsOpen(q)'
    BY <1>8, <2>b, <2>c DEF PendingIsOpen
  <2>3. WillClose(q)'
    <3>1. CASE q = r
      BY <1>8, <2>b, <2>c, <3>1 DEF WillClose, ReaderKnows, TypeOK, Reading
    <3>2. CASE q # r
      BY <1>8, <2>b, <2>c, <3>2 DEF WillClose
    <3> QED
      BY <3>1, <3>2
  <2>4. ReaderKnows'
    BY <1>8, <2>b, <2>c DEF ReaderKnows
  <2>5. CleanerKnows'
    BY <1>8, <2>b, <2>c DEF CleanerKnows
  <2>6. PanicNeedsARace'
    BY <1>8, <2>b, <2>c DEF PanicNeedsARace, NotYetAsked, PendingIsOpen, WillClose,
         ReaderKnows, CleanerKnows
  <2> QED
    BY <2>1, <2>2, <2>3, <2>4, <2>5, <2>6 DEF ControlOf
<1>9. CASE FinishDispatch
  <2>a. PICK r \in Request :
           /\ r = reader.at
           /\ TakeOut(r)
           /\ reader'.pc = "read" /\ reader'.at = NoRequest
           /\ UNCHANGED <<registered, remote, requester, watcher, consumer, done, cleaner, panicked>>
    BY <1>9, FinishEffect
  <2>d. /\ pending' = pending \ {r}
        /\ \A p \in Request \ {r} : channel'[p] = channel[p]
        /\ channel'[r].buffer = channel[r].buffer
        /\ channel'[r].open = (channel[r].open /\ r \notin pending)
    BY <2>a, TakeOutEffect
  <2>1. NotYetAsked(q)'
    BY <1>9, <2>a, <2>d, RelayAssumption DEF NotYetAsked, PendingIsOpen, WillClose,
         ReaderKnows, CleanerKnows, TypeOK, Channel, Remote, Consuming, Reading, Cleaning
  <2>2. PendingIsOpen(q)'
    BY <1>9, <2>a, <2>d DEF PendingIsOpen
  <2>3. WillClose(q)'
    BY <1>9, <2>a, <2>d DEF WillClose
  <2>4. ReaderKnows'
    BY <1>9, <2>a, <2>d DEF ReaderKnows
  <2>5. CleanerKnows'
    BY <1>9, <2>a, <2>d DEF CleanerKnows
  <2>6. PanicNeedsARace'
    BY <1>9, <2>a, <2>d DEF PanicNeedsARace
  <2> QED
    BY <2>1, <2>2, <2>3, <2>4, <2>5, <2>6 DEF ControlOf
<1>10. CASE ReadFails
  <2>1. NotYetAsked(q)'
    BY <1>10 DEF NotYetAsked, ReadFails
  <2>2. PendingIsOpen(q)'
    BY <1>10 DEF PendingIsOpen, ReadFails
  <2>3. WillClose(q)'
    BY <1>10 DEF WillClose, ReadFails
  <2>4. ReaderKnows'
    BY <1>10 DEF ReaderKnows, ReadFails
  <2>5. CleanerKnows'
    BY <1>10 DEF CleanerKnows, ReadFails
  <2>6. PanicNeedsARace'
    BY <1>10, <1>0 DEF PanicNeedsARace, ReadFails
  <2> QED
    BY <2>1, <2>2, <2>3, <2>4, <2>5, <2>6 DEF ControlOf
<1>11. ASSUME NEW r \in Request, NEW type \in {"chunk"} \cup Terminal, Read(r, type)
      PROVE  ControlOf(q)'
  <2>d. /\ \A p \in Request \ {r} : remote'[p] = remote[p]
        /\ remote'[r].asked = remote[r].asked
        /\ remote'[r].lost = remote[r].lost
        /\ remote'[r].sent = IF type = "chunk" THEN remote[r].sent + 1 ELSE remote[r].sent
        /\ remote'[r].over = (type \in Terminal)
    BY <1>11, ReadEffect
  <2>1. NotYetAsked(q)'
    <3>1. CASE q = r
      BY <1>11, <3>1 DEF NotYetAsked, Read
    <3>2. CASE q # r
      BY <1>11, <2>d, <3>2 DEF NotYetAsked, Read
    <3> QED
      BY <3>1, <3>2
  <2>2. PendingIsOpen(q)'
    BY <1>11, <2>d DEF PendingIsOpen, Read, Terminal
  <2>3. WillClose(q)'
    <3>1. CASE q = r
      BY <1>11, <2>d, <3>1 DEF WillClose, Read
    <3>2. CASE q # r
      BY <1>11, <2>d, <3>2, RelayAssumption DEF WillClose, Read, ReaderKnows
    <3> QED
      BY <3>1, <3>2
  <2>4. ReaderKnows'
    <3>1. CASE r \in pending
      <4>1. /\ reader'.pc = "deliver" /\ reader'.at = r
            /\ reader'.msg.type = type
            /\ reader'.msg.n = IF type = "chunk" THEN remote[r].sent + 1 ELSE 0
        BY <1>11, <3>1 DEF Read
      <4>2. remote[r].sent \in Nat /\ r # NoRequest /\ remote[r].asked
        BY <1>11, RelayAssumption DEF TypeOK, Remote, Read
      <4>3. pending' = pending
        BY <1>11 DEF Read
      <4>4. /\ type = "chunk" => ~remote'[r].over /\ remote'[r].sent = remote[r].sent + 1
            /\ type # "chunk" => remote'[r].over
            /\ remote'[r].asked
        BY <2>d, <4>2 DEF Terminal
      <4> QED
        BY <3>1, <4>1, <4>2, <4>3, <4>4 DEF ReaderKnows
    <3>2. CASE r \notin pending
      BY <1>11, <2>d, <3>2 DEF ReaderKnows, Read
    <3> QED
      BY <3>1, <3>2
  <2>5. CleanerKnows'
    BY <1>11, <2>d DEF CleanerKnows, Read, Terminal
  <2>6. PanicNeedsARace'
    BY <1>11, <1>0, <2>d DEF PanicNeedsARace, Read, Terminal
  <2> QED
    BY <2>1, <2>2, <2>3, <2>4, <2>5, <2>6 DEF ControlOf
<1>12. CASE BeginCleanup
  <2>1. NotYetAsked(q)'
    BY <1>12 DEF NotYetAsked, BeginCleanup
  <2>2. PendingIsOpen(q)'
    BY <1>12 DEF PendingIsOpen, BeginCleanup
  <2>3. WillClose(q)'
    BY <1>12 DEF WillClose, BeginCleanup
  <2>4. ReaderKnows'
    BY <1>12 DEF ReaderKnows, BeginCleanup
  <2>5. CleanerKnows'
    BY <1>12 DEF CleanerKnows, BeginCleanup
  <2>6. PanicNeedsARace'
    BY <1>12, <1>0 DEF PanicNeedsARace, BeginCleanup
  <2> QED
    BY <2>1, <2>2, <2>3, <2>4, <2>5, <2>6 DEF ControlOf
<1>13. ASSUME NEW r \in Request, Visit(r)
      PROVE  ControlOf(q)'
  <2>1. NotYetAsked(q)'
    BY <1>13 DEF NotYetAsked, Visit
  <2>2. PendingIsOpen(q)'
    BY <1>13 DEF PendingIsOpen, Visit
  <2>3. WillClose(q)'
    BY <1>13, RelayAssumption DEF WillClose, Visit, NotYetAsked, PendingIsOpen,
         ReaderKnows, CleanerKnows, TypeOK, Channel, Remote, Consuming, Reading, Cleaning
  <2>4. ReaderKnows'
    BY <1>13 DEF ReaderKnows, Visit
  <2>5. CleanerKnows'
    BY <1>13 DEF CleanerKnows, Visit
  <2>6. PanicNeedsARace'
    BY <1>13, <1>0 DEF PanicNeedsARace, Visit
  <2> QED
    BY <2>1, <2>2, <2>3, <2>4, <2>5, <2>6 DEF ControlOf
<1>14. CASE TellClosed
  <2>1. NotYetAsked(q)'
    BY <1>14 DEF NotYetAsked, TellClosed, TypeOK, Channel, Remote, Consuming, Reading,
         Cleaning
  <2>2. PendingIsOpen(q)'
    BY <1>14 DEF PendingIsOpen, TellClosed, TypeOK, Channel, Remote, Consuming, Reading,
         Cleaning
  <2>3. WillClose(q)'
    BY <1>14 DEF WillClose, TellClosed, TypeOK, Channel, Remote, Consuming, Reading,
         Cleaning
  <2>4. ReaderKnows'
    BY <1>14 DEF ReaderKnows, TellClosed
  <2>5. CleanerKnows'
    BY <1>14 DEF CleanerKnows, TellClosed
  <2>6. PanicNeedsARace'
    BY <1>14, <1>0 DEF PanicNeedsARace, TellClosed, NotYetAsked, PendingIsOpen, WillClose,
         ReaderKnows, CleanerKnows, TypeOK
  <2> QED
    BY <2>1, <2>2, <2>3, <2>4, <2>5, <2>6 DEF ControlOf
<1>15. CASE EndRange
  <2>1. NotYetAsked(q)'
    BY <1>15 DEF NotYetAsked, EndRange
  <2>2. PendingIsOpen(q)'
    BY <1>15 DEF PendingIsOpen, EndRange
  <2>3. WillClose(q)'
    BY <1>15 DEF WillClose, EndRange
  <2>4. ReaderKnows'
    BY <1>15 DEF ReaderKnows, EndRange
  <2>5. CleanerKnows'
    BY <1>15 DEF CleanerKnows, EndRange
  <2>6. PanicNeedsARace'
    BY <1>15, <1>0 DEF PanicNeedsARace, EndRange
  <2> QED
    BY <2>1, <2>2, <2>3, <2>4, <2>5, <2>6 DEF ControlOf
<1>16. CASE Reset
  <2>1. NotYetAsked(q)'
    BY <1>16 DEF NotYetAsked, Reset
  <2>2. PendingIsOpen(q)'
    BY <1>16 DEF PendingIsOpen, Reset
  <2>3. WillClose(q)'
    BY <1>16, RelayAssumption DEF WillClose, Reset, NotYetAsked, PendingIsOpen,
         ReaderKnows, CleanerKnows, TypeOK, Channel, Remote, Consuming, Reading, Cleaning
  <2>4. ReaderKnows'
    BY <1>16 DEF ReaderKnows, Reset
  <2>5. CleanerKnows'
    BY <1>16 DEF CleanerKnows, Reset
  <2>6. PanicNeedsARace'
    BY <1>16, <1>0 DEF PanicNeedsARace, Reset
  <2> QED
    BY <2>1, <2>2, <2>3, <2>4, <2>5, <2>6 DEF ControlOf
<1>17. CASE Forget
  <2>1. NotYetAsked(q)'
    BY <1>17 DEF NotYetAsked, Forget
  <2>2. PendingIsOpen(q)'
    BY <1>17 DEF PendingIsOpen, Forget
  <2>3. WillClose(q)'
    BY <1>17 DEF WillClose, Forget
  <2>4. ReaderKnows'
    BY <1>17 DEF ReaderKnows, Forget
  <2>5. CleanerKnows'
    BY <1>17 DEF CleanerKnows, Forget
  <2>6. PanicNeedsARace'
    BY <1>17, <1>0 DEF PanicNeedsARace, Forget
  <2> QED
    BY <2>1, <2>2, <2>3, <2>4, <2>5, <2>6 DEF ControlOf
<1>18. ASSUME NEW r \in Request, Receive(r)
      PROVE  ControlOf(q)'
  <2>1. NotYetAsked(q)'
    BY <1>18, ReceiveEffect DEF NotYetAsked, Receive
  <2>2. PendingIsOpen(q)'
    BY <1>18, ReceiveEffect DEF PendingIsOpen, Receive
  <2>3. WillClose(q)'
    BY <1>18, ReceiveEffect DEF WillClose, Receive
  <2>4. ReaderKnows'
    BY <1>18, ReceiveEffect DEF ReaderKnows, Receive
  <2>5. CleanerKnows'
    BY <1>18, ReceiveEffect DEF CleanerKnows, Receive
  <2>6. PanicNeedsARace'
    BY <1>18, <1>0, ReceiveEffect DEF PanicNeedsARace, Receive
  <2> QED
    BY <2>1, <2>2, <2>3, <2>4, <2>5, <2>6 DEF ControlOf
<1>19. ASSUME NEW r \in Request, ReceiveClosed(r)
      PROVE  ControlOf(q)'
  <2>1. NotYetAsked(q)'
    BY <1>19, TellEffect DEF NotYetAsked, ReceiveClosed
  <2>2. PendingIsOpen(q)'
    BY <1>19, TellEffect DEF PendingIsOpen, ReceiveClosed
  <2>3. WillClose(q)'
    BY <1>19, TellEffect DEF WillClose, ReceiveClosed
  <2>4. ReaderKnows'
    BY <1>19, TellEffect DEF ReaderKnows, ReceiveClosed
  <2>5. CleanerKnows'
    BY <1>19, TellEffect DEF CleanerKnows, ReceiveClosed
  <2>6. PanicNeedsARace'
    BY <1>19, <1>0, TellEffect DEF PanicNeedsARace, ReceiveClosed
  <2> QED
    BY <2>1, <2>2, <2>3, <2>4, <2>5, <2>6 DEF ControlOf
<1>20. ASSUME NEW r \in Request, GiveUp(r)
      PROVE  ControlOf(q)'
  <2>1. NotYetAsked(q)'
    BY <1>20, TellEffect DEF NotYetAsked, GiveUp
  <2>2. PendingIsOpen(q)'
    BY <1>20, TellEffect DEF PendingIsOpen, GiveUp
  <2>3. WillClose(q)'
    BY <1>20, TellEffect DEF WillClose, GiveUp
  <2>4. ReaderKnows'
    BY <1>20, TellEffect DEF ReaderKnows, GiveUp
  <2>5. CleanerKnows'
    BY <1>20, TellEffect DEF CleanerKnows, GiveUp
  <2>6. PanicNeedsARace'
    BY <1>20, <1>0, TellEffect DEF PanicNeedsARace, GiveUp
  <2> QED
    BY <2>1, <2>2, <2>3, <2>4, <2>5, <2>6 DEF ControlOf
<1> QED
  BY <1>1, <1>2, <1>3, <1>4, <1>5, <1>6, <1>7, <1>8, <1>9, <1>10, <1>11, <1>12, <1>13,
       <1>14, <1>15, <1>16, <1>17, <1>18, <1>19, <1>20 DEF Next, Cleaner, Requester,
       Consumer

LEMMA ControlWithoutRequests ==
  ASSUME TypeOK, Control, Next, Request = {}
  PROVE  Control'
<1>1. reader.at = NoRequest /\ cleaner.at = NoRequest
  BY DEF TypeOK, Reading, Cleaning
<1>2. ReadFails \/ BeginCleanup \/ EndRange \/ Reset \/ Forget
  BY <1>1 DEF Next, Dispatch, FinishDispatch, Cleaner, TellClosed, Control, ReaderKnows
<1> QED
  BY <1>1, <1>2 DEF Control, ReaderKnows, CleanerKnows, PanicNeedsARace, closed,
     ReadFails, BeginCleanup, EndRange, Reset, Forget, TypeOK, Cleaning, Reading

LEMMA ControlStep ==
  ASSUME TypeOK, TypeOK', Control, Next
  PROVE  Control'
<1>1. CASE Request = {}
  BY <1>1, ControlWithoutRequests
<1>2. CASE Request # {}
  BY <1>2, ControlStepOf DEF Control, ControlOf
<1> QED
  BY <1>1, <1>2

-----------------------------------------------------------------------------
(* What sequences of messages hold when one is added or taken. *)

LEMMA MessageNumbers ==
  ASSUME NEW s \in Seq(Message)
  PROVE  \A i \in 1..Len(s) : s[i] \in Message /\ s[i].n \in Nat
<1>1. \A i \in 1..Len(s) : s[i] \in Message
  BY ElementOfSeq
<1>2. \A m \in Message : m.n \in Nat
  BY DEF Message
<1> QED
  BY <1>1, <1>2

LEMMA AppendMessage ==
  ASSUME NEW s \in Seq(Message), NEW msg \in Message
  PROVE  /\ \A n : Chunk(Append(s, msg), n) <=> Chunk(s, n) \/ (msg.type = "chunk" /\ msg.n = n)
         /\ HasEnd(Append(s, msg)) <=> HasEnd(s) \/ msg.type = "end"
         /\ (\E i \in 1..Len(Append(s, msg)) : Append(s, msg)[i].type # "chunk") <=>
              (\E i \in 1..Len(s) : s[i].type # "chunk") \/ msg.type # "chunk"
<1> DEFINE t == Append(s, msg)
<1>1. /\ Len(s) \in Nat /\ Len(t) = Len(s) + 1 /\ t[Len(s) + 1] = msg
      /\ \A i \in 1..Len(s) : t[i] = s[i]
  OBVIOUS
<1> HIDE DEF t
<1> SUFFICES /\ \A n : Chunk(t, n) <=> Chunk(s, n) \/ (msg.type = "chunk" /\ msg.n = n)
             /\ HasEnd(t) <=> HasEnd(s) \/ msg.type = "end"
             /\ (\E i \in 1..Len(t) : t[i].type # "chunk") <=>
                  (\E i \in 1..Len(s) : s[i].type # "chunk") \/ msg.type # "chunk"
  BY DEF t
<1>2. \A i : i \in 1..Len(t) <=> i \in 1..Len(s) \/ i = Len(s) + 1
  BY <1>1
<1> QED
  BY <1>1, <1>2 DEF Chunk, HasEnd

LEMMA AppendOrdered ==
  ASSUME NEW s \in Seq(Message), NEW msg \in Message, ChunksFirst(s),
         NEW g \in Seq(Nat), GotBefore(g, s), NEW n \in Nat, ChunksUpTo(s, n),
         msg.type = "chunk" =>
           /\ msg.n = n /\ n > 0
           /\ GotUpTo(g, n - 1) /\ ChunksUpTo(s, n - 1)
           /\ \A i \in 1..Len(s) : s[i].type = "chunk"
  PROVE  /\ ChunksFirst(Append(s, msg)) /\ GotBefore(g, Append(s, msg))
         /\ ChunksUpTo(Append(s, msg), n)
<1> DEFINE t == Append(s, msg)
<1>1. /\ Len(s) \in Nat /\ Len(t) = Len(s) + 1 /\ t[Len(s) + 1] = msg
      /\ \A i \in 1..Len(s) : t[i] = s[i]
  OBVIOUS
<1> HIDE DEF t
<1> SUFFICES ChunksFirst(t) /\ GotBefore(g, t) /\ ChunksUpTo(t, n)
  BY DEF t
<1>2. \A i \in 1..Len(t) : i \in 1..Len(s) \/ i = Len(s) + 1
  BY <1>1
<1>3. /\ \A i \in 1..Len(s) : s[i].n \in Nat
      /\ \A i \in 1..Len(g) : g[i] \in Nat
  BY MessageNumbers
<1>4. ChunksFirst(t)
  <2> SUFFICES ASSUME NEW i \in 1..Len(t), NEW j \in 1..Len(t), i < j
               PROVE  /\ t[i].type = "chunk" /\ t[j].type = "chunk" => t[i].n < t[j].n
                      /\ t[i].type # "chunk" => t[j].type # "chunk"
    BY DEF ChunksFirst
  <2>1. i \in 1..Len(s) /\ t[i] = s[i]
    BY <1>1
  <2>2. CASE j \in 1..Len(s)
    BY <1>1, <2>1, <2>2 DEF ChunksFirst
  <2>3. CASE j = Len(s) + 1
    <3>1. msg.type = "chunk" => s[i].type = "chunk" /\ s[i].n \in 1..(n - 1) /\ msg.n = n
      BY <2>1 DEF ChunksUpTo
    <3> QED
      BY <1>1, <2>1, <2>3, <3>1
  <2> QED
    BY <1>2, <2>2, <2>3
<1>5. GotBefore(g, t)
  <2> SUFFICES ASSUME NEW i \in 1..Len(g), NEW j \in 1..Len(t), t[j].type = "chunk"
               PROVE  g[i] < t[j].n
    BY DEF GotBefore
  <2>1. CASE j \in 1..Len(s)
    BY <1>1, <2>1 DEF GotBefore
  <2>2. CASE j = Len(s) + 1
    <3>1. t[j] = msg /\ msg.n = n
      BY <1>1, <2>2
    <3>2. g[i] \in 1..(n - 1)
      BY <1>1, <2>2 DEF GotUpTo
    <3> QED
      BY <3>1, <3>2
  <2> QED
    BY <1>2, <2>1, <2>2
<1>6. ChunksUpTo(t, n)
  BY <1>1, <1>2 DEF ChunksUpTo
<1> QED
  BY <1>4, <1>5, <1>6

LEMMA TakeMessage ==
  ASSUME NEW s \in Seq(Message), s # <<>>, ChunksFirst(s),
         NEW g \in Seq(Nat), Increasing(g), GotBefore(g, s),
         NEW n \in Nat, GotUpTo(g, n), ChunksUpTo(s, n),
         Head(s).type = "chunk"
  PROVE  LET h == Append(g, Head(s).n) IN
         /\ Increasing(h) /\ GotBefore(h, Tail(s)) /\ GotUpTo(h, n)
         /\ ChunksFirst(Tail(s)) /\ ChunksUpTo(Tail(s), n)
         /\ \A k : Got(h, k) \/ Chunk(Tail(s), k) <=> Got(g, k) \/ Chunk(s, k)
         /\ HasEnd(Tail(s)) <=> HasEnd(s)
         /\ (\E i \in 1..Len(Tail(s)) : Tail(s)[i].type # "chunk") =>
              (\E i \in 1..Len(s) : s[i].type # "chunk")
<1> DEFINE h == Append(g, Head(s).n)
           t == Tail(s)
<1>1. /\ Len(s) \in Nat \ {0} /\ Len(t) = Len(s) - 1 /\ Head(s) = s[1]
      /\ \A i \in 1..Len(t) : t[i] = s[i + 1] /\ i + 1 \in 1..Len(s)
      /\ \A i \in 1..Len(s) : i = 1 \/ (i - 1 \in 1..Len(t) /\ s[i] = t[i - 1])
  OBVIOUS
<1>2. s[1] \in Message /\ 1 \in 1..Len(s) /\ s[1].type = "chunk" /\ s[1].n \in Nat
      /\ \A i \in 1..Len(g) : g[i] \in Nat
  BY <1>1, MessageNumbers
<1>3. /\ Len(g) \in Nat /\ Len(h) = Len(g) + 1 /\ h[Len(g) + 1] = s[1].n
      /\ \A i \in 1..Len(g) : h[i] = g[i]
  BY <1>1, <1>2
<1> HIDE DEF h, t
<1>4. \A i : i \in 1..Len(h) <=> i \in 1..Len(g) \/ i = Len(g) + 1
  BY <1>3
<1>5. Increasing(h)
  <2> SUFFICES ASSUME NEW i \in 1..Len(h), NEW j \in 1..Len(h), i < j PROVE h[i] < h[j]
    BY DEF Increasing
  <2>1. i \in 1..Len(g)
    BY <1>3
  <2>2. CASE j \in 1..Len(g)
    BY <1>3, <2>1, <2>2 DEF Increasing
  <2>3. CASE j = Len(g) + 1
    BY <1>2, <1>3, <2>1, <2>3 DEF GotBefore
  <2> QED
    BY <1>4, <2>2, <2>3
<1>6. GotBefore(h, t)
  <2> SUFFICES ASSUME NEW i \in 1..Len(h), NEW j \in 1..Len(t), t[j].type = "chunk"
               PROVE  h[i] < t[j].n
    BY DEF GotBefore
  <2>1. t[j] = s[j + 1] /\ j + 1 \in 1..Len(s) /\ 1 < j + 1
    BY <1>1
  <2>2. CASE i \in 1..Len(g)
    BY <1>3, <2>1, <2>2 DEF GotBefore
  <2>3. CASE i = Len(g) + 1
    BY <1>2, <1>3, <2>1, <2>3 DEF ChunksFirst
  <2> QED
    BY <1>4, <2>2, <2>3
<1>7. GotUpTo(h, n)
  BY <1>2, <1>3, <1>4 DEF GotUpTo, ChunksUpTo
<1>8. ChunksFirst(t)
  <2> SUFFICES ASSUME NEW i \in 1..Len(t), NEW j \in 1..Len(t), i < j
               PROVE  /\ t[i].type = "chunk" /\ t[j].type = "chunk" => t[i].n < t[j].n
                      /\ t[i].type # "chunk" => t[j].type # "chunk"
    BY DEF ChunksFirst
  <2>1. /\ i + 1 \in 1..Len(s) /\ j + 1 \in 1..Len(s) /\ i + 1 < j + 1
        /\ t[i] = s[i + 1] /\ t[j] = s[j + 1]
    BY <1>1
  <2> QED
    BY <2>1 DEF ChunksFirst
<1>9. ChunksUpTo(t, n)
  BY <1>1 DEF ChunksUpTo
<1>10. \A k : Chunk(s, k) <=> Chunk(t, k) \/ s[1].n = k
  BY <1>1, <1>2 DEF Chunk
<1>11. \A k : Got(h, k) <=> Got(g, k) \/ s[1].n = k
  BY <1>3, <1>4 DEF Got
<1>12. HasEnd(t) <=> HasEnd(s)
  BY <1>1, <1>2 DEF HasEnd
<1>13. (\E i \in 1..Len(t) : t[i].type # "chunk") => (\E i \in 1..Len(s) : s[i].type # "chunk")
  BY <1>1
<1> QED
  BY <1>5, <1>6, <1>7, <1>8, <1>9, <1>10, <1>11, <1>12, <1>13 DEF h, t

-----------------------------------------------------------------------------
(* The part of the invariant that is about the messages. *)

LEMMA DataInit == Init => \A r \in Request : Data(r)
  BY RelayAssumption DEF Init, Data, Ordered, Accounted, Increasing, ChunksFirst, GotBefore,
     GotUpTo, ChunksUpTo, InHand, HasEnd

LEMMA OrderedStays ==
  ASSUME NEW q \in Request, Data(q),
         consumer'[q] = consumer[q],
         channel'[q].buffer = channel[q].buffer,
         channel'[q].open => channel[q].open,
         /\ remote'[q].sent = remote[q].sent
         /\ remote'[q].lost = remote[q].lost
         /\ remote'[q].over = remote[q].over,
         \A n : InHand(q, n)' => InHand(q, n)
  PROVE  Ordered(q)'
  BY DEF Data, Ordered

LEMMA DataStays ==
  ASSUME NEW q \in Request, Data(q),
         consumer'[q] = consumer[q],
         channel'[q].buffer = channel[q].buffer,
         channel'[q].open => channel[q].open,
         /\ remote'[q].sent = remote[q].sent
         /\ remote'[q].lost = remote[q].lost
         /\ remote'[q].over = remote[q].over,
         \A n : InHand(q, n)' <=> InHand(q, n)
  PROVE  Data(q)'
<1>1. Ordered(q)'
  BY OrderedStays
<1>2. Accounted(q)'
  BY DEF Data, Accounted
<1> QED
  BY <1>1, <1>2 DEF Data

(* Of a request whose channel is emptied, or was empty, and is not read. *)
LEMMA DataEmptied ==
  ASSUME NEW q \in Request, Data(q),
         consumer'[q].got = consumer[q].got,
         channel'[q].buffer = <<>>,
         remote'[q] = remote[q],
         \A n : InHand(q, n)' <=> InHand(q, n),
         consumer'[q].pc # "receive",
         consumer'[q].told = "complete" =>
           /\ consumer'[q].pc = "done"
           /\ q \in Stream =>
                /\ remote[q].over
                /\ \A n \in 1..remote[q].sent : n \in remote[q].lost <=> ~Got(consumer[q].got, n)
  PROVE  Data(q)'
<1>1. /\ ChunksFirst(<<>>) /\ GotBefore(consumer[q].got, <<>>)
      /\ \A n : ChunksUpTo(<<>>, n)
      /\ ~HasEnd(<<>>) /\ ~\E i \in 1..Len(<<>>) : <<>>[i].type # "chunk"
  BY DEF ChunksFirst, GotBefore, ChunksUpTo, HasEnd
<1>2. Ordered(q)'
  BY <1>1 DEF Data, Ordered
<1>3. Accounted(q)'
  BY <1>1 DEF Data, Accounted
<1> QED
  BY <1>2, <1>3 DEF Data

LEMMA RequesterData ==
  ASSUME TypeOK, Control, NEW q \in Request, Data(q), NEW r \in Request, Requester(r)
  PROVE  Data(q)'
<1> USE DEF InHand
<1>1. CASE q # r
  <2>1. /\ consumer'[q] = consumer[q] /\ channel'[q] = channel[q] /\ remote'[q] = remote[q]
        /\ UNCHANGED reader
    BY <1>1, TakeOutEffect DEF Requester, Store, LoadBack, Write, WriteFails, TypeOK
  <2> QED
    BY <2>1, DataStays
<1>2. CASE q = r
  <2>1. /\ consumer[q].pc = "off" /\ consumer[q].got = <<>> /\ consumer[q].told = "none"
        /\ channel[q].buffer = <<>> /\ remote[q].sent = 0
    BY <1>2 DEF Requester, Store, LoadBack, Write, WriteFails, Control, NotYetAsked, Asking
  <2>2. /\ channel \in [Request -> Channel] /\ channel[q] \in Channel
        /\ consumer \in [Request -> Consuming] /\ consumer[q] \in Consuming
        /\ remote \in [Request -> Remote] /\ remote[q] \in Remote
    BY DEF TypeOK
  <2>3. CASE Store(r)
    <3>1. channel'[q].buffer = <<>>
      BY <1>2, <2>1, <2>2, <2>3 DEF Store, Channel
    <3> QED
      BY <2>1, <2>3, <3>1, DataEmptied DEF Store
  <2>4. CASE LoadBack(r)
    <3>1. CASE r \in pending
      BY <2>4, <3>1, DataStays DEF LoadBack
    <3>2. CASE r \notin pending
      <4>1. consumer' = [consumer EXCEPT ![q] = [consumer[q] EXCEPT !.pc = "done", !.told = "failed"]]
        BY <1>2, <2>4, <3>2 DEF LoadBack
      <4>2. /\ consumer'[q].got = consumer[q].got /\ consumer'[q].told = "failed"
            /\ consumer'[q].pc = "done"
        BY <2>2, <4>1 DEF Consuming
      <4> QED
        BY <2>1, <2>4, <4>2, DataEmptied DEF LoadBack
    <3> QED
      BY <3>1, <3>2
  <2>5. CASE WriteFails(r)
    <3>1. consumer' = [consumer EXCEPT ![q] = [consumer[q] EXCEPT !.pc = "done", !.told = "failed"]]
      BY <1>2, <2>5 DEF WriteFails
    <3>2. /\ consumer'[q].got = consumer[q].got /\ consumer'[q].told = "failed"
          /\ consumer'[q].pc = "done"
      BY <2>2, <3>1 DEF Consuming
    <3>3. channel'[q].buffer = <<>>
      BY <1>2, <2>1, <2>5, TakeOutEffect DEF WriteFails
    <3> QED
      BY <2>1, <2>5, <3>2, <3>3, DataEmptied DEF WriteFails
  <2>6. CASE Write(r)
    <3>1. /\ consumer' = [consumer EXCEPT ![q] = [consumer[q] EXCEPT !.pc = "receive"]]
          /\ remote' = [remote EXCEPT ![q] = [remote[q] EXCEPT !.asked = TRUE]]
          /\ UNCHANGED <<channel, reader>>
      BY <1>2, <2>6 DEF Write
    <3>2. /\ consumer'[q].got = consumer[q].got /\ consumer'[q].told = consumer[q].told
          /\ consumer'[q].pc = "receive"
      BY <2>2, <3>1 DEF Consuming
    <3>3. /\ remote'[q].sent = remote[q].sent /\ remote'[q].lost = remote[q].lost
          /\ remote'[q].over = remote[q].over
      BY <2>2, <3>1 DEF Remote
    <3>4. Ordered(q)'
      BY <3>1, <3>2, <3>3 DEF Data, Ordered
    <3>5. Accounted(q)'
      BY <2>1, <3>1, <3>2, <3>3 DEF Data, Accounted
    <3> QED
      BY <3>4, <3>5 DEF Data
  <2> QED
    BY <2>3, <2>4, <2>5, <2>6 DEF Requester
<1> QED
  BY <1>1, <1>2

LEMMA ConsumerData ==
  ASSUME TypeOK, Control, NEW q \in Request, Data(q), NEW r \in Request, Consumer(r)
  PROVE  Data(q)'
<1> USE DEF InHand
<1>1. CASE q # r
  <2>1. /\ consumer'[q] = consumer[q] /\ channel'[q] = channel[q]
        /\ UNCHANGED <<remote, reader>>
    BY <1>1, ReceiveEffect, TellEffect DEF Consumer, Receive, ReceiveClosed, GiveUp
  <2> QED
    BY <2>1, DataStays
<1>2. CASE q = r
  <2>1. UNCHANGED <<remote, reader>> /\ consumer[q].pc = "receive"
    BY <1>2 DEF Consumer, Receive, ReceiveClosed, GiveUp
  <2>2. /\ channel[q].buffer \in Seq(Message) /\ consumer[q].got \in Seq(Nat)
        /\ remote[q].sent \in Nat /\ channel[q].open \in BOOLEAN
    BY DEF TypeOK, Channel, Consuming, Remote
  <2>3. CASE Receive(r)
    <3>1. CASE /\ Head(channel[r].buffer).type = "chunk"
               /\ consumer'[r].pc = consumer[r].pc
               /\ consumer'[r].told = consumer[r].told
               /\ consumer'[r].got = Append(consumer[r].got, Head(channel[r].buffer).n)
               /\ channel'[r].buffer = Tail(channel[r].buffer)
               /\ channel'[r].open = channel[r].open
               /\ channel[r].buffer # <<>>
      <4> DEFINE s == channel[q].buffer
                 g == consumer[q].got
                 h == Append(g, Head(s).n)
                 n == remote[q].sent
      <4>1. /\ Increasing(h) /\ GotBefore(h, Tail(s)) /\ GotUpTo(h, n)
            /\ ChunksFirst(Tail(s)) /\ ChunksUpTo(Tail(s), n)
            /\ \A k : Got(h, k) \/ Chunk(Tail(s), k) <=> Got(g, k) \/ Chunk(s, k)
            /\ HasEnd(Tail(s)) <=> HasEnd(s)
            /\ (\E i \in 1..Len(Tail(s)) : Tail(s)[i].type # "chunk") =>
                 (\E i \in 1..Len(s) : s[i].type # "chunk")
        BY <1>2, <2>2, <3>1, TakeMessage DEF Data, Ordered
      <4>2. InHand(q, n) => GotUpTo(h, n - 1) /\ ChunksUpTo(Tail(s), n - 1)
        <5> SUFFICES ASSUME InHand(q, n) PROVE GotUpTo(h, n - 1) /\ ChunksUpTo(Tail(s), n - 1)
          OBVIOUS
        <5>1. n - 1 \in Nat
          BY <2>2, RelayAssumption DEF Control, ReaderKnows
        <5> QED
          BY <1>2, <2>2, <3>1, <5>1, TakeMessage DEF Data, Ordered
      <4>3. Ordered(q)'
        BY <1>2, <2>1, <3>1, <4>1, <4>2 DEF Data, Ordered
      <4>4. Accounted(q)'
        BY <1>2, <2>1, <3>1, <4>1 DEF Data, Accounted
      <4> QED
        BY <4>3, <4>4 DEF Data
    <3>2. ASSUME NEW how \in {"complete", "failed"},
                 how = "complete" => Head(channel[r].buffer).type = "end",
                 Tell(r, how), channel[r].buffer # <<>>
          PROVE  Data(q)'
      <4>1. /\ channel'[q].buffer = <<>> /\ consumer'[q].pc = "done"
            /\ consumer'[q].told = how /\ consumer'[q].got = consumer[q].got
        BY <1>2, <3>2, TellEffect
      <4>2. how = "complete" /\ q \in Stream =>
              /\ remote[q].over
              /\ \A n \in 1..remote[q].sent : n \in remote[q].lost <=> ~Got(consumer[q].got, n)
        <5> SUFFICES ASSUME how = "complete", q \in Stream
                     PROVE  /\ remote[q].over
                            /\ \A n \in 1..remote[q].sent :
                                 n \in remote[q].lost <=> ~Got(consumer[q].got, n)
          OBVIOUS
        <5> DEFINE s == channel[q].buffer
        <5>1. Len(s) \in Nat \ {0} /\ Head(s) = s[1] /\ s[1].type = "end"
          BY <1>2, <2>2, <3>2
        <5>2. HasEnd(s) /\ \A n : ~Chunk(s, n)
          BY <5>1 DEF HasEnd, Chunk, Data, Ordered, ChunksFirst
        <5>3. remote[q].over
          BY <5>2 DEF Data, Ordered
        <5>4. \A n : ~InHand(q, n)
          BY <5>3, RelayAssumption DEF Control, ReaderKnows
        <5> QED
          BY <2>1, <5>2, <5>3, <5>4 DEF Data, Accounted
      <4> QED
        BY <2>1, <4>1, <4>2, DataEmptied
    <3> QED
      BY <2>3, <3>1, <3>2, ReceiveEffect
  <2>4. CASE ReceiveClosed(r) \/ GiveUp(r)
    <3>1. PICK how \in {"complete", "failed"} :
            Tell(r, how) /\ (how = "complete" => q \notin Stream)
      BY <1>2, <2>4 DEF ReceiveClosed, GiveUp
    <3>2. /\ channel'[q].buffer = <<>> /\ consumer'[q].pc = "done"
          /\ consumer'[q].told = how /\ consumer'[q].got = consumer[q].got
      BY <1>2, <3>1, TellEffect
    <3> QED
      BY <2>1, <3>1, <3>2, DataEmptied
  <2> QED
    BY <2>3, <2>4 DEF Consumer
<1> QED
  BY <1>1, <1>2

LEMMA ReadData ==
  ASSUME TypeOK, Control, NEW q \in Request, Data(q),
         NEW r \in Request, NEW type \in {"chunk"} \cup Terminal, Read(r, type)
  PROVE  Data(q)'
<1>1. /\ \A p \in Request \ {r} : remote'[p] = remote[p]
      /\ remote'[r].asked = remote[r].asked
      /\ remote'[r].lost = remote[r].lost
      /\ remote'[r].sent = IF type = "chunk" THEN remote[r].sent + 1 ELSE remote[r].sent
      /\ remote'[r].over = (type \in Terminal)
  BY ReadEffect
<1>2. /\ reader.at = NoRequest
      /\ UNCHANGED <<channel, consumer>>
      /\ remote[r].over => type = "error"
      /\ IF r \in pending
         THEN /\ reader'.at = r /\ reader'.msg.type = type
              /\ reader'.msg.n = IF type = "chunk" THEN remote[r].sent + 1 ELSE 0
         ELSE reader' = reader
  BY DEF Read, Control, ReaderKnows
<1>3. \A n : ~InHand(q, n)
  BY <1>2, RelayAssumption DEF InHand
<1>4. CASE q # r
  <2>1. \A n : ~InHand(q, n)'
    BY <1>2, <1>3, <1>4 DEF InHand
  <2> QED
    BY <1>1, <1>2, <1>3, <1>4, <2>1, DataStays
<1>5. CASE q = r /\ type # "chunk"
  <2>1. /\ remote'[q].sent = remote[q].sent /\ remote'[q].lost = remote[q].lost
        /\ remote'[q].over
    BY <1>1, <1>5
  <2>2. \A n : ~InHand(q, n)'
    BY <1>2, <1>3, <1>5 DEF InHand
  <2>3. Ordered(q)'
    BY <1>2, <2>1, <2>2 DEF Data, Ordered
  <2>4. Accounted(q)'
    BY <1>2, <1>3, <2>1, <2>2 DEF Data, Accounted
  <2> QED
    BY <2>3, <2>4 DEF Data
<1>6. CASE q = r /\ type = "chunk"
  <2> DEFINE n == remote[q].sent
  <2>1. n \in Nat /\ remote'[q].sent = n + 1 /\ remote'[q].lost = remote[q].lost
    BY <1>1, <1>6 DEF TypeOK, Remote
  <2>2. ~remote[q].over
    BY <1>2, <1>6
  <2>3. /\ channel[q].buffer \in Seq(Message) /\ consumer[q].got \in Seq(Nat)
        /\ channel[q].open \in BOOLEAN
    BY DEF TypeOK, Channel, Consuming
  <2>4. \A m : InHand(q, m)' <=> r \in pending /\ m = n + 1
    BY <1>2, <1>3, <1>6 DEF InHand
  <2> HIDE DEF n
  <2>5. /\ GotUpTo(consumer[q].got, n) /\ ChunksUpTo(channel[q].buffer, n)
        /\ remote[q].lost \subseteq 1..n
        /\ ~HasEnd(channel[q].buffer)
    BY <2>2 DEF Data, Ordered, n
  <2>6. /\ GotUpTo(consumer[q].got, n + 1) /\ ChunksUpTo(channel[q].buffer, n + 1)
        /\ remote[q].lost \subseteq 1..(n + 1)
    <3>1. 1..n \subseteq 1..(n + 1)
      BY <2>1
    <3> QED
      BY <2>5, <3>1 DEF GotUpTo, ChunksUpTo
  <2>7. Ordered(q)'
    <3>1. (n + 1) - 1 = n
      BY <2>1
    <3> QED
      BY <1>2, <2>1, <2>2, <2>5, <2>6, <3>1 DEF Data, Ordered
  <2>8. Accounted(q)'
    <3>1. ~Got(consumer[q].got, n + 1) /\ ~Chunk(channel[q].buffer, n + 1)
      BY <2>1, <2>5 DEF Got, Chunk, GotUpTo, ChunksUpTo
    <3>2. n + 1 \notin remote[q].lost /\ \A m \in 1..(n + 1) : m = n + 1 \/ m \in 1..n
      BY <2>1, <2>5
    <3>3. \A m \in 1..n : m # n + 1
      BY <2>1
    <3>4. consumer[q].pc = "receive" /\ channel[q].open => r \in pending
      BY <1>6 DEF Control, WillClose
    <3>5. q \in Stream /\ consumer[q].pc = "receive" /\ channel[q].open =>
            \A m \in 1..n : m \in remote[q].lost <=>
              ~(Got(consumer[q].got, m) \/ Chunk(channel[q].buffer, m))
      BY <1>3 DEF Data, Accounted, n
    <3>6. ~(q \in Stream /\ consumer[q].told = "complete")
      BY <2>2 DEF Data, Accounted
    <3>7. consumer[q].told = "complete" => consumer[q].pc = "done"
      BY DEF Data, Accounted
    <3> QED
      BY <1>2, <2>1, <2>4, <2>5, <3>1, <3>2, <3>3, <3>4, <3>5, <3>6, <3>7 DEF Accounted
  <2> QED
    BY <2>7, <2>8 DEF Data
<1> QED
  BY <1>4, <1>5, <1>6

LEMMA FinishData ==
  ASSUME TypeOK, Control, NEW q \in Request, Data(q), FinishDispatch
  PROVE  Data(q)'
<1>1. PICK r \in Request :
        /\ r = reader.at
        /\ TakeOut(r)
        /\ reader'.pc = "read" /\ reader'.at = NoRequest
        /\ UNCHANGED <<registered, remote, requester, watcher, consumer, done, cleaner, panicked>>
  BY FinishEffect DEF Control
<1>2. channel'[q].buffer = channel[q].buffer /\ (channel'[q].open => channel[q].open)
  BY <1>1, TakeOutEffect
<1>3. \A n : ~InHand(q, n) /\ ~InHand(q, n)'
  BY <1>1, RelayAssumption DEF FinishDispatch, InHand, Control, ReaderKnows
<1> QED
  BY <1>1, <1>2, <1>3, DataStays

LEMMA DispatchData ==
  ASSUME TypeOK, Control, NEW q \in Request, Data(q), Dispatch
  PROVE  Data(q)'
<1>1. PICK r \in Request :
        /\ r = reader.at /\ reader.msg \in Message
        /\ reader.pc = "deliver" /\ Deliver(r, reader.msg)
        /\ IF reader.msg.type = "chunk"
           THEN reader'.pc = "read" /\ reader'.at = NoRequest
           ELSE reader'.pc = "finish" /\ reader'.at = r /\ reader'.msg = reader.msg
        /\ UNCHANGED <<registered, pending, requester, watcher, consumer, done, cleaner>>
  BY DispatchEffect DEF Control
<1>2. /\ \A p \in Request : channel'[p].open = channel[p].open
      /\ \A p \in Request \ {r} : channel'[p] = channel[p] /\ remote'[p] = remote[p]
      /\ remote'[r].sent = remote[r].sent
      /\ remote'[r].over = remote[r].over
      /\ ~channel[r].open => channel' = channel /\ remote' = remote
      /\ channel[r].open =>
           /\ channel'[r].buffer = Put(r, reader.msg)
           /\ remote'[r].lost = IF Full(r) /\ reader.msg.type = "chunk" /\ r \in Stream
                                THEN remote[r].lost \cup {reader.msg.n} ELSE remote[r].lost
  BY <1>1, DeliverEffect
<1>3. \A n : ~InHand(q, n)'
  BY <1>1, RelayAssumption DEF InHand
<1>4. CASE q # r
  <2>1. \A n : ~InHand(q, n)
    BY <1>1, <1>4 DEF InHand
  <2> QED
    BY <1>1, <1>2, <1>3, <1>4, <2>1, DataStays
<1> DEFINE s == channel[q].buffer
           g == consumer[q].got
           n == remote[q].sent
           msg == reader.msg
<1>5. /\ s \in Seq(Message) /\ g \in Seq(Nat) /\ n \in Nat /\ channel[q].open \in BOOLEAN
      /\ msg \in Message
  BY <1>1 DEF TypeOK, Channel, Consuming, Remote
<1>6. q = r => (msg.type = "chunk" => ~remote[q].over /\ msg.n = n /\ n > 0)
               /\ (msg.type # "chunk" => remote[q].over)
               /\ \A k : InHand(q, k) <=> msg.type = "chunk" /\ k = n
  BY <1>1, RelayAssumption DEF Control, ReaderKnows, InHand
<1>7. CASE q = r /\ ~channel[r].open
  <2>1. Ordered(q)'
    BY <1>1, <1>2, <1>3, <1>7, OrderedStays
  <2>2. Accounted(q)'
    <3>1. HasEnd(s) => \A k : ~InHand(q, k)
      BY <1>6, <1>7 DEF Data, Ordered
    <3> QED
      BY <1>1, <1>2, <1>3, <1>7, <3>1 DEF Data, Accounted
  <2> QED
    BY <2>1, <2>2 DEF Data
<1>8. CASE q = r /\ channel[r].open /\ Waiting(r) /\ ~Full(r)
  <2> DEFINE t == Append(s, msg)
  <2>1. /\ channel'[q].buffer = t /\ channel'[q].open
        /\ remote'[q].lost = remote[q].lost /\ remote'[q].sent = n
        /\ remote'[q].over = remote[q].over /\ consumer'[q] = consumer[q]
    BY <1>1, <1>2, <1>8 DEF Put
  <2>2. /\ \A k : Chunk(t, k) <=> Chunk(s, k) \/ (msg.type = "chunk" /\ msg.n = k)
        /\ HasEnd(t) <=> HasEnd(s) \/ msg.type = "end"
        /\ (\E i \in 1..Len(t) : t[i].type # "chunk") <=>
             (\E i \in 1..Len(s) : s[i].type # "chunk") \/ msg.type # "chunk"
    BY <1>5, AppendMessage
  <2>3. ChunksFirst(t) /\ GotBefore(g, t) /\ ChunksUpTo(t, n)
    <3>1. msg.type = "chunk" =>
            /\ msg.n = n /\ n > 0
            /\ GotUpTo(g, n - 1) /\ ChunksUpTo(s, n - 1)
            /\ \A i \in 1..Len(s) : s[i].type = "chunk"
      BY <1>6, <1>8 DEF Data, Ordered
    <3> QED
      BY <1>5, <3>1, AppendOrdered DEF Data, Ordered
  <2>4. Ordered(q)'
    <3>1. /\ HasEnd(t) => remote[q].over
          /\ (\E i \in 1..Len(t) : t[i].type # "chunk") => remote[q].over
      BY <1>6, <1>8, <2>2 DEF Data, Ordered
    <3>2. Increasing(g) /\ GotUpTo(g, n) /\ remote[q].lost \subseteq 1..n
      BY DEF Data, Ordered
    <3> HIDE DEF t, s, n, g
    <3> QED
      BY <1>3, <2>1, <2>3, <3>1, <3>2 DEF Ordered, s, n, g
  <2> HIDE DEF t, s, n, g
  <2>5. Accounted(q)'
    BY <1>3, <1>6, <1>8, <2>1, <2>2 DEF Data, Accounted, s, n, g
  <2> QED
    BY <2>4, <2>5 DEF Data
<1>9. CASE q = r /\ channel[r].open /\ Full(r)
  <2>1. /\ channel'[q].buffer = s /\ channel'[q].open /\ remote'[q].sent = n
        /\ remote'[q].over = remote[q].over /\ consumer'[q] = consumer[q]
        /\ remote'[q].lost = IF msg.type = "chunk" /\ q \in Stream
                             THEN remote[q].lost \cup {n} ELSE remote[q].lost
    BY <1>1, <1>2, <1>6, <1>9 DEF Put
  <2>2. remote'[q].lost \subseteq 1..n
    BY <1>5, <1>6, <1>9, <2>1 DEF Data, Ordered
  <2>3. Ordered(q)'
    BY <1>3, <1>9, <2>1, <2>2 DEF Data, Ordered
  <2>4. Accounted(q)'
    <3>1. msg.type = "chunk" => ~Got(g, n) /\ ~Chunk(s, n)
      <4> SUFFICES ASSUME msg.type = "chunk" PROVE ~Got(g, n) /\ ~Chunk(s, n)
        OBVIOUS
      <4>1. GotUpTo(g, n - 1) /\ ChunksUpTo(s, n - 1)
        BY <1>6, <1>9 DEF Data, Ordered
      <4>2. n \notin 1..(n - 1)
        BY <1>5
      <4> HIDE DEF n
      <4> QED
        BY <4>1, <4>2 DEF Got, Chunk, GotUpTo, ChunksUpTo
    <3>2. ~(q \in Stream /\ consumer[q].told = "complete")
      BY <1>9 DEF Data, Accounted, Full, Waiting
    <3>3. consumer[q].told = "complete" => consumer[q].pc = "done"
      BY DEF Data, Accounted
    <3>4. q \in Stream => \A k \in 1..n :
            k \in remote[q].lost <=> ~(Got(g, k) \/ Chunk(s, k) \/ InHand(q, k))
      BY <1>9 DEF Data, Accounted, Full, Waiting
    <3> HIDE DEF n, s, g
    <3>5. q \in Stream => \A k \in 1..n :
            k \in remote'[q].lost <=> ~(Got(g, k) \/ Chunk(s, k))
      BY <1>6, <1>9, <2>1, <3>1, <3>4
    <3> QED
      BY <1>3, <2>1, <3>2, <3>3, <3>5 DEF Accounted, n, s, g
  <2> QED
    BY <2>3, <2>4 DEF Data
<1>10. CASE q = r /\ channel[r].open /\ ~Waiting(r)
  <2>1. /\ channel'[q].buffer = s /\ channel'[q].open /\ remote'[q].sent = n
        /\ remote'[q].over = remote[q].over /\ consumer'[q] = consumer[q]
        /\ remote'[q].lost = remote[q].lost
    BY <1>1, <1>2, <1>10 DEF Put, Full
  <2>2. Ordered(q)'
    BY <1>3, <1>10, <2>1, OrderedStays
  <2>3. Accounted(q)'
    BY <1>3, <1>10, <2>1 DEF Data, Accounted, Waiting
  <2> QED
    BY <2>2, <2>3 DEF Data
<1> QED
  BY <1>4, <1>7, <1>8, <1>9, <1>10

LEMMA TellClosedData ==
  ASSUME TypeOK, Control, NEW q \in Request, Data(q), TellClosed
  PROVE  Data(q)'
<1> DEFINE msg == [type |-> "error", n |-> 0]
<1>1. PICK r \in Request : r = cleaner.at
  BY DEF TellClosed, TypeOK, Cleaning
<1>2. UNCHANGED <<remote, consumer, reader>>
  BY DEF TellClosed
<1>3. \A n : InHand(q, n)' <=> InHand(q, n)
  BY <1>2 DEF InHand
<1>4. CASE q # r \/ ~channel[r].open
  <2>1. \/ UNCHANGED channel
        \/ q # r /\ channel' = [channel EXCEPT ![r] =
                                  [channel[r] EXCEPT !.buffer = Put(r, msg), !.open = FALSE]]
    BY <1>1, <1>4 DEF TellClosed
  <2>2. channel'[q] = channel[q]
    BY <2>1 DEF TypeOK
  <2> QED
    BY <1>2, <1>3, <2>2, DataStays
<1>5. CASE q = r /\ channel[r].open
  <2>1. channel' = [channel EXCEPT ![q] = [channel[q] EXCEPT !.buffer = Put(q, msg), !.open = FALSE]]
    BY <1>1, <1>5 DEF TellClosed
  <2>2. channel \in [Request -> Channel] /\ channel[q] \in Channel /\ msg \in Message
    BY DEF TypeOK, Message, Terminal
  <2> HIDE DEF msg
  <2>3. channel'[q].buffer = Put(q, msg) /\ ~channel'[q].open
    BY <2>1, <2>2 DEF Channel
  <2>4. CASE ~(Waiting(q) /\ ~Full(q))
    <3>1. channel'[q].buffer = channel[q].buffer
      BY <2>3, <2>4 DEF Put
    <3> QED
      BY <1>2, <1>3, <1>5, <2>3, <3>1, DataStays
  <2>5. CASE Waiting(q) /\ ~Full(q)
    <3> DEFINE s == channel[q].buffer
               g == consumer[q].got
               n == remote[q].sent
               t == Append(s, msg)
    <3>1. channel'[q].buffer = t
      BY <2>3, <2>5 DEF Put
    <3>2. s \in Seq(Message) /\ g \in Seq(Nat) /\ n \in Nat /\ msg.type = "error"
      BY DEF TypeOK, Channel, Consuming, Remote, msg
    <3>3. /\ \A k : Chunk(t, k) <=> Chunk(s, k)
          /\ HasEnd(t) <=> HasEnd(s)
      BY <2>2, <3>2, AppendMessage
    <3>4. ChunksFirst(t) /\ GotBefore(g, t) /\ ChunksUpTo(t, n)
      BY <2>2, <3>2, AppendOrdered DEF Data, Ordered
    <3>5. InHand(q, n) => ChunksUpTo(t, n - 1)
      <4> SUFFICES ASSUME InHand(q, n) PROVE ChunksUpTo(t, n - 1)
        OBVIOUS
      <4>1. n - 1 \in Nat
        BY <3>2, RelayAssumption DEF InHand, Control, ReaderKnows
      <4> QED
        BY <2>2, <3>2, <4>1, AppendOrdered DEF Data, Ordered
    <3> HIDE DEF s, g, n, t
    <3>6. Ordered(q)'
      BY <1>2, <1>3, <2>3, <3>1, <3>3, <3>4, <3>5 DEF Data, Ordered, s, g, n
    <3>7. Accounted(q)'
      BY <1>2, <1>3, <1>5, <2>3, <3>1, <3>3 DEF Data, Accounted, s, g, n
    <3> QED
      BY <3>6, <3>7 DEF Data
  <2> QED
    BY <2>4, <2>5
<1> QED
  BY <1>4, <1>5

LEMMA DataStep ==
  ASSUME TypeOK, Control, Next, NEW q \in Request, Data(q)
  PROVE  Data(q)'
<1>1. ASSUME NEW r \in Request, Lookup(r) \/ Cancel(r) \/ Visit(r) PROVE Data(q)'
  BY <1>1, DataStays DEF Lookup, Cancel, Visit, InHand
<1>2. ASSUME NEW r \in Request, Watch(r) PROVE Data(q)'
  BY <1>2, DataStays, TakeOutEffect DEF Watch, InHand
<1>3. CASE ReadFails
  BY <1>3, DataStays DEF ReadFails, InHand
<1>4. CASE BeginCleanup \/ EndRange \/ Reset \/ Forget
  BY <1>4, DataStays DEF BeginCleanup, EndRange, Reset, Forget, InHand
<1> QED
  BY <1>1, <1>2, <1>3, <1>4, RequesterData, ConsumerData, ReadData, FinishData, DispatchData,
     TellClosedData DEF Next, Cleaner

-----------------------------------------------------------------------------
(* The theorems. *)

LEMMA IInvInit == Init => IInv
  BY InitTypeOK, ControlInit, DataInit DEF IInv

LEMMA IInvStep == IInv /\ [Next]_vars => IInv'
<1> SUFFICES ASSUME IInv, [Next]_vars PROVE IInv'
  OBVIOUS
<1>1. TypeOK /\ Control /\ \A r \in Request : Data(r)
  BY DEF IInv
<1>2. CASE Next
  <2>1. TypeOK'
    BY <1>1, <1>2, RequesterType, ReaderType, CleanerType, ConsumerType
       DEF Next, Control
  <2>2. Control'
    BY <1>1, <1>2, <2>1, ControlStep
  <2>3. \A r \in Request : Data(r)'
    BY <1>1, <1>2, DataStep
  <2> QED
    BY <2>1, <2>2, <2>3 DEF IInv
<1>3. CASE UNCHANGED vars
  <2>1. TypeOK'
    BY <1>1, <1>3 DEF TypeOK, vars
  <2>2. Control'
    BY <1>1, <1>3 DEF vars, Control, NotYetAsked, PendingIsOpen, WillClose, ReaderKnows,
       CleanerKnows, PanicNeedsARace, closed
  <2>3. \A r \in Request : Data(r)'
    BY <1>1, <1>3, DataStays DEF vars, InHand
  <2> QED
    BY <2>1, <2>2, <2>3 DEF IInv
<1> QED
  BY <1>2, <1>3

(* In every behaviour all of the state is of its type: among it no channel *)
(* holds more than its capacity.                                           *)
THEOREM TypeCorrect == Spec => []TypeOK
<1>1. IInv => TypeOK
  BY DEF IInv
<1> QED
  BY <1>1, IInvInit, IInvStep, PTL DEF Spec

(* However many requests share a session, it brings the program down only     *)
(* after a request was given up or the cleanup has begun.                    *)
THEOREM PanicNeedsARaceInvariant == Spec => []PanicNeedsARace
<1>1. IInv => PanicNeedsARace
  BY DEF IInv, Control
<1> QED
  BY <1>1, IInvInit, IInvStep, PTL DEF Spec

(* Whoever waits on an open channel has somebody who is about to close it. *)
THEOREM SomeoneWillCloseInvariant == Spec => []SomeoneWillClose
<1>1. IInv => SomeoneWillClose
  BY DEF IInv, Control, WillClose, SomeoneWillClose
<1> QED
  BY <1>1, IInvInit, IInvStep, PTL DEF Spec

(* Chunks arrive in order, and of a stream that is told complete only those *)
(* are missing that met a full channel.                                     *)
THEOREM OnlyAFullChannelLosesInvariant == Spec => []OnlyAFullChannelLoses
<1>1. IInv => OnlyAFullChannelLoses
  <2> SUFFICES ASSUME IInv, NEW r \in Request
               PROVE  /\ \A i \in 1..(Len(consumer[r].got) - 1) :
                           consumer[r].got[i] < consumer[r].got[i + 1]
                      /\ consumer[r].told = "complete" /\ r \in Stream =>
                           {consumer[r].got[i] : i \in 1..Len(consumer[r].got)} =
                           (1..remote[r].sent) \ remote[r].lost
    BY DEF OnlyAFullChannelLoses
  <2> DEFINE g == consumer[r].got
             n == remote[r].sent
  <2>1. g \in Seq(Nat) /\ Len(g) \in Nat /\ n \in Nat
    BY DEF IInv, TypeOK, Consuming, Remote
  <2>2. Increasing(g) /\ GotUpTo(g, n)
    BY DEF IInv, Data, Ordered
  <2>3. \A i \in 1..(Len(g) - 1) : g[i] < g[i + 1]
    <3> HIDE DEF g, n
    <3> SUFFICES ASSUME NEW i \in 1..(Len(g) - 1) PROVE g[i] < g[i + 1]
      OBVIOUS
    <3>1. i \in 1..Len(g) /\ i + 1 \in 1..Len(g) /\ i < i + 1
      BY <2>1
    <3> QED
      BY <2>2, <3>1 DEF Increasing
  <2>4. ASSUME consumer[r].told = "complete", r \in Stream
        PROVE  {g[i] : i \in 1..Len(g)} = (1..n) \ remote[r].lost
    <3>1. \A k \in 1..n : k \in remote[r].lost <=> ~Got(g, k)
      BY <2>4 DEF IInv, Data, Accounted
    <3> HIDE DEF g, n
    <3> QED
      BY <2>2, <3>1 DEF Got, GotUpTo
  <2> QED
    BY <2>3, <2>4
<1> QED
  BY <1>1, IInvInit, IInvStep, PTL DEF Spec
=============================================================================
