-------------------------- MODULE StreamBootstrap --------------------------
(***************************************************************************)
(* One streaming request from the manager's stream to the client.  Five    *)
(* goroutines work on it: the provider's, the manager's forwarder of each  *)
(* attempt (wrapStreamResult), the producer of                             *)
(* executeStreamWithAuthManager, the converter of the completions endpoint *)
(* and the handler that answers.  The data channels are unbuffered, so a   *)
(* send and its receive are one step; the error channel holds one error.   *)
(*                                                                         *)
(* Which credential serves an attempt, and the rounds and waits inside     *)
(* ExecuteStream, are RequestExecution's; here an attempt has an outcome.  *)
(***************************************************************************)
EXTENDS Naturals, Sequences

CONSTANTS
  Formats,      \* endpoints: "claude", "openai", "responses", "completions", "images"
  MaxRetries,   \* streaming.bootstrap-retries
  MaxPayloads   \* bound on the payloads a provider sends in one attempt

ASSUME StreamAssumption ==
  /\ Formats \subseteq {"claude", "openai", "responses", "completions", "images"}
  /\ MaxRetries \in Nat
  /\ MaxPayloads \in Nat \ {0}

VARIABLES
  format,     \* the endpoint that was called; "openai" stands for Gemini's too
  client,     \* "here" or "gone"
  cancelled,  \* the request's context is done
  pipes,      \* the attempts whose stream was opened, in order
  producer,   \* the goroutine of executeStreamWithAuthManager
  errBuf,     \* what the error channel holds: "none" or an error
  convert,    \* the converter of the completions endpoint
  handler,    \* the goroutine that answers
  answer      \* what the client has got

vars == <<format, client, cancelled, pipes, producer, errBuf, convert, handler, answer>>

Checking   == {"claude"}        \* look for a pending error when the data end at once
Converting == {"completions"}
Validating == {"responses"}
KeepingAlive == {"images"}      \* commit to a stream before there is a payload
Attempts   == 1..(MaxRetries + 1)

(* An error names its origin; "fatal" ones are not worth another attempt. *)
StreamErrors == {"failed", "fatal"}
Errors == StreamErrors \cup {"refused", "invalid"}

Pipes ==
  [pc: {"offer", "read", "ended", "marked", "closed", "canned"},
   error: StreamErrors \cup {"none"}, sent: 0..MaxPayloads, mark: {"none", "ok", "failed"}]
Producing ==
  [pc: {"idle", "receive", "retry", "data", "error", "closeErrs", "closeData", "done"},
   sentPayload: BOOLEAN, retries: 0..MaxRetries,
   chunk: 0..MaxPayloads, error: Errors \cup {"none"}]
Payloads == Seq(Attempts \X (1..MaxPayloads))
Conversion == [pc: {"off", "receive", "offer", "done"}, chunk: Payloads]
Handling == [pc: {"execute", "peek", "forward", "done"}, errs: BOOLEAN]
Answer == [status: {"none", "ok", "error"}, headers: {0} \cup Attempts,
           got: Payloads, told: {"none", "complete", "failed"}]

TypeOK ==
  /\ format \in Formats
  /\ client \in {"here", "gone"}
  /\ cancelled \in BOOLEAN
  /\ pipes \in Seq(Pipes) /\ Len(pipes) <= MaxRetries + 1
  /\ producer \in Producing
  /\ errBuf \in Errors \cup {"none"}
  /\ convert \in Conversion
  /\ handler \in Handling
  /\ answer \in Answer

Init ==
  /\ format \in Formats
  /\ client = "here"
  /\ cancelled = FALSE
  /\ pipes = <<>>
  /\ producer = [pc |-> "idle", sentPayload |-> FALSE, retries |-> 0, chunk |-> 0, error |-> "none"]
  /\ errBuf = "none"
  /\ convert = [pc |-> "off", chunk |-> <<>>]
  /\ handler = [pc |-> "execute", errs |-> TRUE]
  /\ answer = [status |-> "none", headers |-> 0, got |-> <<>>, told |-> "none"]

attempt == Len(pipes)
Now == pipes[attempt]
ErrsClosed == producer.pc \in {"closeData", "done"}
DataClosed == producer.pc = "done"

-----------------------------------------------------------------------------
(* The manager's part of an attempt. *)

(***************************************************************************)
(* How an attempt's stream begins (readStreamBootstrap): with a payload;   *)
(* with nothing but empty chunks; or with an error, which the manager has  *)
(* recorded and hands on in a closed channel of one (streamErrorResult).   *)
(***************************************************************************)
Opened ==
  {[pc |-> "offer", error |-> "none", sent |-> 1, mark |-> "none"],
   [pc |-> "ended", error |-> "none", sent |-> 0, mark |-> "none"]}
  \cup {[pc |-> "canned", error |-> e, sent |-> 0, mark |-> "failed"] : e \in StreamErrors}

(* wrapStreamResult: the provider sends another payload, which is offered *)
Send(a) ==
  /\ pipes[a].pc = "read"
  /\ pipes[a].mark = "none"
  /\ pipes[a].sent < MaxPayloads
  /\ pipes' = [pipes EXCEPT ![a].pc = "offer", ![a].sent = @ + 1]
  /\ UNCHANGED <<format, client, cancelled, producer, errBuf, convert, handler, answer>>

(* or an error, which is recorded before it is offered, *)
Break(a, e) ==
  /\ pipes[a].pc = "read"
  /\ pipes[a].mark = "none"
  /\ pipes' = [pipes EXCEPT ![a].pc = "offer", ![a].error = e, ![a].mark = "failed"]
  /\ UNCHANGED <<format, client, cancelled, producer, errBuf, convert, handler, answer>>

(* or closes its channel. *)
Finish(a) ==
  /\ pipes[a].pc = "read"
  /\ pipes' = [pipes EXCEPT ![a].pc = "ended"]
  /\ UNCHANGED <<format, client, cancelled, producer, errBuf, convert, handler, answer>>

(* A stream that ended without an error is a success of its credential, *)
MarkEnd(a) ==
  /\ pipes[a].pc = "ended"
  /\ pipes' = [pipes EXCEPT ![a].pc = "marked", ![a].mark = IF @ = "none" THEN "ok" ELSE @]
  /\ UNCHANGED <<format, client, cancelled, producer, errBuf, convert, handler, answer>>

(* recorded before the channel is closed. *)
CloseOut(a) ==
  /\ pipes[a].pc = "marked"
  /\ pipes' = [pipes EXCEPT ![a].pc = "closed"]
  /\ UNCHANGED <<format, client, cancelled, producer, errBuf, convert, handler, answer>>

(* An offer nobody takes is given up when the context is done: nothing is   *)
(* recorded, and the provider's channel is drained by another goroutine.    *)
Drop(a) ==
  /\ cancelled
  /\ pipes[a].pc = "offer"
  /\ pipes' = [pipes EXCEPT ![a].pc = "closed"]
  /\ UNCHANGED <<format, client, cancelled, producer, errBuf, convert, handler, answer>>

Forwarder(a) == MarkEnd(a) \/ CloseOut(a) \/ Drop(a)
Provider(a) == Send(a) \/ Finish(a) \/ \E e \in StreamErrors : Break(a, e)

-----------------------------------------------------------------------------
(* The producer. *)

Taken == [pipes EXCEPT ![attempt].pc = IF @ = "canned" THEN "closed" ELSE "read"]

(* A payload is the first sign of success: from here on there is no retry. *)
ReceivePayload ==
  /\ producer.pc = "receive"
  /\ Now.pc = "offer" /\ Now.error = "none"
  /\ pipes' = Taken
  /\ \/ producer' = [producer EXCEPT !.pc = "data", !.sentPayload = TRUE, !.chunk = Now.sent]
     \/ /\ format \in Validating
        /\ producer' = [producer EXCEPT !.pc = "error", !.error = "invalid"]
  /\ UNCHANGED <<format, client, cancelled, errBuf, convert, handler, answer>>

(* Mutant: the payloads that were sent are forgotten. *)
Retries_AfterPayload(e) == producer.retries < MaxRetries /\ e # "fatal"

(* Mutant: the retries are not counted. *)
Retries_Uncounted(e) == ~producer.sentPayload /\ e # "fatal"

Retries(e) == ~producer.sentPayload /\ producer.retries < MaxRetries /\ e # "fatal"

ReceiveError ==
  /\ producer.pc = "receive"
  /\ Now.pc \in {"offer", "canned"} /\ Now.error # "none"
  /\ pipes' = Taken
  /\ producer' = IF Retries(Now.error)
                 THEN [producer EXCEPT !.pc = "retry", !.retries = @ + 1, !.error = Now.error]
                 ELSE [producer EXCEPT !.pc = "error", !.error = Now.error]
  /\ UNCHANGED <<format, client, cancelled, errBuf, convert, handler, answer>>

(* ExecuteStream once more: a new stream takes the place of the failed one, *)
(* with its headers, or the request is refused.                             *)
Retry ==
  /\ producer.pc = "retry"
  /\ \/ /\ \E p \in Opened : pipes' = Append(pipes, p)
        /\ producer' = [producer EXCEPT !.pc = "receive", !.error = "none"]
     \/ /\ producer' = [producer EXCEPT !.pc = "error", !.error = "refused"]
        /\ UNCHANGED pipes
  /\ UNCHANGED <<format, client, cancelled, errBuf, convert, handler, answer>>

ReceiveEnd ==
  /\ producer.pc = "receive"
  /\ Now.pc = "closed"
  /\ producer' = [producer EXCEPT !.pc = "closeErrs"]
  /\ UNCHANGED <<format, client, cancelled, pipes, errBuf, convert, handler, answer>>

(* Every select of the producer has the end of the context as a case. *)
Stop ==
  /\ cancelled
  /\ producer.pc \in {"receive", "data", "error"}
  /\ producer' = [producer EXCEPT !.pc = "closeErrs"]
  /\ UNCHANGED <<format, client, cancelled, pipes, errBuf, convert, handler, answer>>

SendError ==
  /\ producer.pc = "error"
  /\ errBuf' = producer.error
  /\ producer' = [producer EXCEPT !.pc = "closeErrs"]
  /\ UNCHANGED <<format, client, cancelled, pipes, convert, handler, answer>>

(* The deferred calls: the error channel is closed first, then the data. *)
CloseErrs ==
  /\ producer.pc = "closeErrs"
  /\ producer' = [producer EXCEPT !.pc = "closeData"]
  /\ UNCHANGED <<format, client, cancelled, pipes, errBuf, convert, handler, answer>>

CloseData ==
  /\ producer.pc = "closeData"
  /\ producer' = [producer EXCEPT !.pc = "done"]
  /\ UNCHANGED <<format, client, cancelled, pipes, errBuf, convert, handler, answer>>

Producer ==
  \/ ReceivePayload \/ ReceiveError \/ Retry \/ ReceiveEnd \/ Stop
  \/ SendError \/ CloseErrs \/ CloseData
-----------------------------------------------------------------------------
(* The converter of the completions endpoint, a goroutine between the     *)
(* producer's data and the handler; every payload has something to convert. *)

ProducerGave == [producer EXCEPT !.pc = "receive"]
Payload == <<attempt, producer.chunk>>

ConvertReceive ==
  /\ convert.pc = "receive"
  /\ producer.pc = "data"
  /\ convert' = [pc |-> "offer", chunk |-> <<Payload>>]
  /\ producer' = ProducerGave
  /\ UNCHANGED <<format, client, cancelled, pipes, errBuf, handler, answer>>

(* Mutant: a converter that offers a chunk does not look at the stop. *)
ConvertEnd_Unstopped ==
  /\ convert.pc = "receive" /\ (DataClosed \/ handler.pc = "done")
  /\ convert' = [pc |-> "done", chunk |-> <<>>]
  /\ UNCHANGED <<format, client, cancelled, pipes, producer, errBuf, handler, answer>>

(* It ends with the data, or when the handler has stopped. *)
ConvertEnd ==
  /\ \/ convert.pc = "receive" /\ (DataClosed \/ handler.pc = "done")
     \/ convert.pc = "offer" /\ handler.pc = "done"
  /\ convert' = [pc |-> "done", chunk |-> <<>>]
  /\ UNCHANGED <<format, client, cancelled, pipes, producer, errBuf, handler, answer>>

Converter == ConvertReceive \/ ConvertEnd

-----------------------------------------------------------------------------
(* The handler. *)

(* The first ExecuteStream is made by the handler itself.  A refusal leaves *)
(* it an error and no data channel; otherwise the producer is started.      *)
Execute ==
  /\ handler.pc = "execute"
  /\ \/ /\ \E p \in Opened : pipes' = <<p>>
        /\ producer' = [producer EXCEPT !.pc = "receive"]
        /\ UNCHANGED errBuf
     \/ /\ errBuf' = "refused"
        /\ UNCHANGED <<pipes, producer>>
  /\ handler' = [handler EXCEPT !.pc = "peek"]
  /\ UNCHANGED <<format, client, cancelled, convert, answer>>

(* Every way out of the handler cancels the context of the request. *)
Return == handler' = [handler EXCEPT !.pc = "done"] /\ cancelled' = TRUE

(* Mutant: the headers of the first attempt are kept. *)
HeadersNow_First == 1

(* The headers of the last attempt: a retry has replaced those before it. *)
HeadersNow == attempt

(* The status and the headers are sent with the first thing that is written. *)
Commit(status) ==
  IF answer.status # "none" THEN answer
  ELSE [answer EXCEPT !.status = status, !.headers = IF status = "ok" THEN HeadersNow ELSE 0]

LeaveClient ==
  /\ handler.pc \in {"peek", "forward"}
  /\ client = "gone"
  /\ Return
  /\ UNCHANGED <<format, client, pipes, producer, errBuf, convert, answer>>

TellError(status) ==
  /\ errBuf' = "none"
  /\ answer' = [Commit(status) EXCEPT !.told = "failed"]
  /\ Return

TellEnd ==
  /\ answer' = [Commit("ok") EXCEPT !.told = "complete"]
  /\ Return
  /\ UNCHANGED errBuf

PendingError == handler.errs /\ errBuf # "none"

(* The handler's first select: an error, *)
PeekError ==
  /\ handler.pc = "peek"
  /\ PendingError
  /\ TellError("error")
  /\ UNCHANGED <<format, client, pipes, producer, convert>>

(* an error channel that was closed, which is looked at no more, *)
PeekNoError ==
  /\ handler.pc = "peek"
  /\ handler.errs /\ errBuf = "none" /\ ErrsClosed
  /\ handler' = [handler EXCEPT !.errs = FALSE]
  /\ UNCHANGED <<format, client, cancelled, pipes, producer, errBuf, convert, answer>>

(* data that ended at once, whether or not an error is waiting too, *)
PeekEnd ==
  /\ handler.pc = "peek"
  /\ DataClosed
  /\ IF format \in Checking /\ PendingError THEN TellError("error") ELSE TellEnd
  /\ UNCHANGED <<format, client, pipes, producer, convert>>

(* or the first payload. *)
PeekPayload ==
  /\ handler.pc = "peek"
  /\ producer.pc = "data"
  /\ answer' = [Commit("ok") EXCEPT !.got = <<Payload>>]
  /\ producer' = ProducerGave
  /\ handler' = [handler EXCEPT !.pc = "forward"]
  /\ convert' = [convert EXCEPT !.pc = IF format \in Converting THEN "receive" ELSE @]
  /\ UNCHANGED <<format, client, cancelled, pipes, errBuf>>

(* An image stream that waits for its first payload keeps the client's      *)
(* connection alive, and so commits to a success with the headers of now.   *)
PeekKeepAlive ==
  /\ handler.pc = "peek"
  /\ format \in KeepingAlive
  /\ answer.status = "none"
  /\ answer' = Commit("ok")
  /\ UNCHANGED <<format, client, cancelled, pipes, producer, errBuf, convert, handler>>

(* ForwardStream, and forwardRawImageStream for images. *)
ForwardPayload ==
  /\ handler.pc = "forward"
  /\ \/ /\ convert.pc = "off" /\ producer.pc = "data"
        /\ answer' = [answer EXCEPT !.got = Append(@, Payload)]
        /\ producer' = ProducerGave
        /\ UNCHANGED convert
     \/ /\ convert.pc = "offer"
        /\ answer' = [answer EXCEPT !.got = @ \o convert.chunk]
        /\ convert' = [pc |-> "receive", chunk |-> <<>>]
        /\ UNCHANGED producer
  /\ UNCHANGED <<format, client, cancelled, pipes, errBuf, handler>>

ForwardError ==
  /\ handler.pc = "forward"
  /\ PendingError
  /\ TellError("ok")
  /\ UNCHANGED <<format, client, pipes, producer, convert>>

(* The data ended: a pending error is told first, except by images. *)
ForwardEnd ==
  /\ handler.pc = "forward"
  /\ IF format \in Converting THEN convert.pc = "done" ELSE DataClosed
  /\ IF PendingError /\ format \notin KeepingAlive THEN TellError("ok") ELSE TellEnd
  /\ UNCHANGED <<format, client, pipes, producer, convert>>

Handler ==
  \/ Execute \/ LeaveClient \/ PeekError \/ PeekNoError \/ PeekEnd \/ PeekPayload
  \/ PeekKeepAlive \/ ForwardPayload \/ ForwardError \/ ForwardEnd

-----------------------------------------------------------------------------
ClientLeaves ==
  /\ client = "here"
  /\ handler.pc # "done"
  /\ client' = "gone"
  /\ UNCHANGED <<format, cancelled, pipes, producer, errBuf, convert, handler, answer>>

(* GetContextWithCancel: a goroutine passes the end of the client's request *)
(* on to the context of the manager's work.                                 *)
PassCancel ==
  /\ client = "gone"
  /\ ~cancelled
  /\ cancelled' = TRUE
  /\ UNCHANGED <<format, client, pipes, producer, errBuf, convert, handler, answer>>

Next ==
  \/ Producer \/ Converter \/ Handler \/ ClientLeaves \/ PassCancel
  \/ \E a \in 1..attempt : Forwarder(a) \/ Provider(a)

Spec == Init /\ [][Next]_vars

(***************************************************************************)
(* Every goroutine that can go on goes on.  A provider may be silent for   *)
(* ever; it closes its channel once the context is done.                   *)
(***************************************************************************)
FairSpec ==
  /\ Spec
  /\ WF_vars(Producer) /\ WF_vars(Converter) /\ WF_vars(Handler) /\ WF_vars(PassCancel)
  /\ \A a \in Attempts : WF_vars(a <= attempt /\ Forwarder(a))
                         /\ WF_vars(a <= attempt /\ cancelled /\ Finish(a))

-----------------------------------------------------------------------------
(* Properties. *)

(***************************************************************************)
(* What the client gets is what ClientStream promises: payloads of one     *)
(* attempt, in order and without a gap, complete only if the provider's    *)
(* stream was; and a failure is told, by the Claude endpoint always, by    *)
(* the others except images once a payload was sent.  How an attempt ended  *)
(* is taken from what is recorded for its credential, so the client is told *)
(* nothing that is not on record yet.                                      *)
(***************************************************************************)
Promised ==
  CASE format \in Checking -> "always" [] format \in KeepingAlive -> "never" [] OTHER -> "afterFirst"

Ending ==
  IF producer.error \in {"invalid"} \/ (attempt = 0 /\ handler.pc # "execute") THEN "failed"
  ELSE IF attempt = 0 THEN "no"
  ELSE CASE Now.mark = "failed" -> "failed" [] Now.mark = "ok" -> "complete" [] OTHER -> "no"

Outcome ==
  IF client = "gone" THEN "left" ELSE IF answer.told # "none" THEN answer.told ELSE "open"

Promise == INSTANCE ClientStream WITH
  promise <- Promised,
  offered <- IF attempt = 0 THEN 0 ELSE Now.sent,
  ended <- Ending,
  got <- answer.got,
  outcome <- Outcome

PromiseKept == Promise!Spec

(* A client gets the upstream headers of the attempt whose payloads it gets, *)
(* except that the keep-alive of an image stream sends those it finds.       *)
HeadersMatch ==
  answer.got # <<>> /\ format \notin KeepingAlive => answer.headers = answer.got[1][1]

(* No goroutine waits for ever: when the handler has returned, every        *)
(* goroutine of the request ends, and when the last attempt is over, the    *)
(* client is answered.                                                      *)
EveryoneEnds ==
  /\ handler.pc = "done" ~>
       /\ producer.pc \in {"idle", "done"}
       /\ convert.pc \in {"off", "done"}
       /\ \A a \in 1..attempt : pipes[a].pc \in {"closed", "canned"}
  /\ producer.pc \in {"error", "closeErrs"} ~> handler.pc = "done"
=============================================================================
