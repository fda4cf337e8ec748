----------------------- MODULE StreamBootstrap_proofs -----------------------
(***************************************************************************)
(* Proofs about StreamBootstrap: its type invariant, whose headers the     *)
(* client gets, and that the client gets what ClientStream promises.       *)
(***************************************************************************)
EXTENDS StreamBootstrap, SequenceTheorems, TLAPS

-----------------------------------------------------------------------------
(* The inductive invariant. *)

(* A pipe: its error is on record before it is offered, and a success only  *)
(* at the end.                                                              *)
Recorded(a) ==
  /\ pipes[a].mark = "failed" <=> pipes[a].error # "none"
  /\ pipes[a].mark = "ok" => pipes[a].pc \in {"marked", "closed"}
  /\ pipes[a].pc = "marked" => pipes[a].mark # "none"
  /\ pipes[a].pc = "closed" /\ ~cancelled => pipes[a].mark # "none"
  /\ pipes[a].pc = "canned" => pipes[a].error # "none" /\ pipes[a].sent = 0
  /\ pipes[a].pc = "offer" /\ pipes[a].error = "none" => pipes[a].sent >= 1

(* The handler: what it has told, and when it gives up.                     *)
Answering ==
  /\ handler.pc = "execute" => pipes = <<>> /\ errBuf = "none"
  /\ handler.pc # "done" => answer.told = "none"
  /\ handler.pc = "done" => cancelled /\ (answer.told # "none" \/ client = "gone")
  /\ cancelled => client = "gone" \/ handler.pc = "done"
  /\ handler.pc \in {"execute", "peek"} => answer.got = <<>> /\ convert.pc = "off"
  /\ handler.pc = "forward" => answer.got # <<>>
  /\ ~handler.errs => ErrsClosed /\ (~cancelled => errBuf = "none")

(* The producer: what it knows of the attempt it is at.                     *)
Reading ==
  /\ producer.pc = "idle" <=> pipes = <<>>
  /\ producer.pc = "idle" => ~producer.sentPayload
  /\ producer.pc \in {"idle", "receive", "data"} => producer.error = "none"
  /\ producer.pc \in {"retry", "error"} => producer.error # "none"
  /\ producer.pc = "retry" => /\ producer.error # "invalid" /\ ~producer.sentPayload
                              /\ attempt <= producer.retries
  /\ attempt <= producer.retries + 1
  /\ producer.error \in StreamErrors \cup {"refused"} => Now.mark = "failed"
  /\ producer.pc \in {"receive", "data"} /\ ~cancelled /\ Now.error # "none" =>
       Now.pc \in {"offer", "canned"}
  /\ producer.pc = "data" => producer.chunk >= 1 /\ producer.sentPayload
  /\ producer.pc \in {"receive", "retry", "data", "error"} => errBuf = "none"
  /\ errBuf # "none" => producer.error = errBuf \/ attempt = 0

(* No payload has gone anywhere before the producer took one.               *)
Unsent ==
  /\ convert.pc = "offer" <=> convert.chunk # <<>>
  /\ ~producer.sentPayload => answer.got = <<>> /\ convert.pc = "off"
  /\ convert.pc # "off" => format \in Converting
  /\ handler.pc = "forward" /\ convert.pc = "off" => format \notin Converting
  /\ handler.pc # "done" /\ convert.pc = "done" => DataClosed

(* The payloads between the provider and the client, while the handler is   *)
(* there to take them.                                                      *)
Delivered == Len(answer.got) + Len(convert.chunk)
InHand == Delivered + IF producer.pc = "data" THEN 1 ELSE 0
Flowing ==
  handler.pc # "done" /\ pipes # <<>> =>
    /\ InHand <= Now.sent
    /\ producer.pc = "data" => producer.chunk = InHand
    /\ convert.pc = "offer" => convert.chunk = <<<<attempt, Len(answer.got) + 1>>>>
    /\ producer.pc \in {"receive", "data"} =>
         /\ Now.pc = "offer" /\ Now.error = "none" => Now.sent = InHand + 1
         /\ Now.pc \in {"read", "ended", "marked"} \/ Now.mark = "ok" => Now.sent = InHand

(* How the producer came to its end, if nobody called it off.               *)
Closing ==
  producer.pc \in {"closeErrs", "closeData", "done"} /\ ~cancelled =>
    \/ producer.error = "none" /\ Now.mark = "ok" /\ Delivered = Now.sent
    \/ producer.error # "none" /\ errBuf = producer.error

(* The headers go with the first thing that is written.                     *)
Committed ==
  /\ answer.got # <<>> => answer.status # "none"
  /\ handler.pc \in {"execute", "peek"} /\ format \notin KeepingAlive => answer.status = "none"
  /\ HeadersMatch

IInv ==
  /\ TypeOK
  /\ \A a \in 1..attempt : Recorded(a)
  /\ Answering /\ Reading /\ Unsent /\ Flowing /\ Closing /\ Committed

-----------------------------------------------------------------------------
(* Pipes. *)

Attempted == 1..attempt

LEMMA PipesLen ==
  ASSUME TypeOK
  PROVE  /\ pipes \in Seq(Pipes) /\ attempt \in Nat /\ attempt <= MaxRetries + 1
         /\ pipes = <<>> <=> attempt = 0
         /\ pipes # <<>> => attempt \in Attempted /\ attempt \in Attempts
         /\ \A a \in Attempted : pipes[a] \in Pipes
  BY StreamAssumption DEF TypeOK, attempt, Attempted, Attempts

LEMMA PipeFields ==
  ASSUME NEW p \in Pipes
  PROVE  /\ p.pc \in {"offer", "read", "ended", "marked", "closed", "canned"}
         /\ p.error \in StreamErrors \cup {"none"}
         /\ p.sent \in 0..MaxPayloads /\ p.sent \in Nat
         /\ p.mark \in {"none", "ok", "failed"}
  BY StreamAssumption DEF Pipes

(* One pipe is changed. *)
PipeBecomes(a, p) ==
  /\ pipes' \in Seq(Pipes) /\ attempt' = attempt /\ pipes' # <<>>
  /\ pipes'[a] = p /\ p \in Pipes
  /\ \A b \in Attempted : b # a => pipes'[b] = pipes[b]

LEMMA PipeUpdate ==
  ASSUME TypeOK, NEW a \in Attempted, NEW p \in Pipes, pipes' = [pipes EXCEPT ![a] = p]
  PROVE  PipeBecomes(a, p)
  BY DEF TypeOK, PipeBecomes, Attempted, attempt

(* What each step makes of its pipe. *)
Sent(q) == [pc |-> "offer", error |-> q.error, sent |-> q.sent + 1, mark |-> q.mark]
Broken(q, e) == [pc |-> "offer", error |-> e, sent |-> q.sent, mark |-> "failed"]
At(q, pc) == [pc |-> pc, error |-> q.error, sent |-> q.sent, mark |-> q.mark]
Marked(q) == [pc |-> "marked", error |-> q.error, sent |-> q.sent,
              mark |-> IF q.mark = "none" THEN "ok" ELSE q.mark]

LEMMA SendEffect ==
  ASSUME TypeOK, NEW a \in Attempted, Send(a)
  PROVE  PipeBecomes(a, Sent(pipes[a]))
<1>1. pipes' = [pipes EXCEPT ![a] = Sent(pipes[a])] /\ pipes[a].sent < MaxPayloads
  BY PipesLen DEF Send, Sent, Pipes, Attempted, attempt
<1>2. Sent(pipes[a]) \in Pipes
  BY <1>1, PipesLen, StreamAssumption DEF Sent, Pipes
<1> QED
  BY <1>1, <1>2, PipeUpdate

LEMMA BreakEffect ==
  ASSUME TypeOK, NEW a \in Attempted, NEW e \in StreamErrors, Break(a, e)
  PROVE  PipeBecomes(a, Broken(pipes[a], e))
<1>1. pipes' = [pipes EXCEPT ![a] = Broken(pipes[a], e)]
  BY PipesLen DEF Break, Broken, Pipes, Attempted, attempt
<1>2. Broken(pipes[a], e) \in Pipes
  BY PipesLen, StreamAssumption DEF Broken, Pipes
<1> QED
  BY <1>1, <1>2, PipeUpdate

LEMMA AtEffect ==
  ASSUME TypeOK, NEW a \in Attempted,
         NEW pc \in {"offer", "read", "ended", "marked", "closed", "canned"},
         pipes' = [pipes EXCEPT ![a].pc = pc]
  PROVE  PipeBecomes(a, At(pipes[a], pc))
<1>1. pipes' = [pipes EXCEPT ![a] = At(pipes[a], pc)]
  <2>1. [pipes[a] EXCEPT !.pc = pc] = At(pipes[a], pc)
    <3>1. pipes[a] \in Pipes
      BY PipesLen
    <3> QED
      BY <3>1 DEF At, Pipes
  <2>2. pipes' = [pipes EXCEPT ![a] = [pipes[a] EXCEPT !.pc = pc]]
    BY PipesLen DEF Attempted, attempt
  <2> QED
    BY <2>1, <2>2
<1>2. At(pipes[a], pc) \in Pipes
  BY PipesLen DEF At, Pipes
<1> QED
  BY <1>1, <1>2, PipeUpdate

LEMMA MarkEffect ==
  ASSUME TypeOK, NEW a \in Attempted, MarkEnd(a)
  PROVE  PipeBecomes(a, Marked(pipes[a]))
<1>1. pipes' = [pipes EXCEPT ![a] = Marked(pipes[a])]
  <2> DEFINE mark == IF pipes[a].mark = "none" THEN "ok" ELSE pipes[a].mark
  <2>1. ASSUME NEW q \in Pipes, NEW m
        PROVE  [q EXCEPT !.pc = "marked", !.mark = m]
                 = [pc |-> "marked", error |-> q.error, sent |-> q.sent, mark |-> m]
    <3>1. [q EXCEPT !.pc = "marked"] = At(q, "marked")
      BY DEF Pipes, At
    <3>2. [q EXCEPT !.pc = "marked", !.mark = m] = [At(q, "marked") EXCEPT !.mark = m]
      BY <3>1
    <3> QED
      BY <3>2 DEF At
  <2>2. pipes' = [pipes EXCEPT ![a] = [pipes[a] EXCEPT !.pc = "marked", !.mark = mark]]
    BY PipesLen DEF MarkEnd, Attempted, attempt
  <2>3. [pipes[a] EXCEPT !.pc = "marked", !.mark = mark] = Marked(pipes[a])
    BY <2>1, PipesLen DEF Marked
  <2> QED
    BY <2>2, <2>3
<1>2. Marked(pipes[a]) \in Pipes
  BY PipesLen DEF Marked, Pipes
<1> QED
  BY <1>1, <1>2, PipeUpdate

LEMMA FinishEffect ==
  ASSUME TypeOK, NEW a \in Attempted, Finish(a)
  PROVE  PipeBecomes(a, At(pipes[a], "ended"))
  BY AtEffect DEF Finish

LEMMA CloseEffect ==
  ASSUME TypeOK, NEW a \in Attempted, CloseOut(a) \/ Drop(a)
  PROVE  PipeBecomes(a, At(pipes[a], "closed"))
  BY AtEffect DEF CloseOut, Drop

LEMMA NowBecomes ==
  ASSUME TypeOK, NEW a \in Attempted, NEW p, PipeBecomes(a, p)
  PROVE  /\ attempt' = attempt /\ attempt \in Attempted /\ Attempted' = Attempted
         /\ pipes # <<>> /\ pipes' # <<>> /\ Now \in Pipes
         /\ Now' = IF a = attempt THEN p ELSE Now
         /\ a = attempt => pipes[a] = Now
         /\ \A b \in Attempted : pipes'[b] = IF b = a THEN p ELSE pipes[b]
<1>1. attempt \in Attempted /\ pipes # <<>>
  BY PipesLen DEF Attempted
<1> QED
  BY <1>1, PipesLen DEF PipeBecomes, Now, Attempted

(* The producer takes what the last pipe offers. *)
LEMMA TakenEffect ==
  ASSUME TypeOK, pipes # <<>>, pipes' = Taken
  PROVE  PipeBecomes(attempt, At(Now, IF Now.pc = "canned" THEN "closed" ELSE "read"))
<1>1. attempt \in Attempted
  BY PipesLen
<1>2. pipes' = [pipes EXCEPT ![attempt].pc = IF Now.pc = "canned" THEN "closed" ELSE "read"]
  BY PipesLen, <1>1 DEF Taken, Now, Pipes, Attempted, attempt
<1> QED
  BY <1>1, <1>2, AtEffect DEF Now

(* A new pipe is opened. *)
LEMMA OpenedType ==
  ASSUME NEW p \in Opened
  PROVE  /\ p \in Pipes /\ p.sent \in {0, 1} /\ p.mark \in {"none", "failed"}
         /\ p.pc \in {"offer", "ended", "canned"}
         /\ p.pc = "offer" => p.sent = 1
         /\ p.pc # "offer" => p.sent = 0
         /\ p.pc = "canned" <=> p.error # "none"
         /\ p.mark = "failed" <=> p.error # "none"
  BY StreamAssumption DEF Opened, Pipes, StreamErrors

LEMMA AppendEffect ==
  ASSUME TypeOK, NEW p \in Opened, pipes' = Append(pipes, p)
  PROVE  /\ pipes' \in Seq(Pipes) /\ attempt' = attempt + 1 /\ pipes' # <<>>
         /\ Now' = p /\ pipes'[attempt'] = p
         /\ \A b \in Attempted : pipes'[b] = pipes[b]
  BY OpenedType DEF TypeOK, Attempted, attempt, Now

LEMMA RetryEffect ==
  ASSUME TypeOK, NEW p \in Opened,
         \/ pipes' = Append(pipes, p)
         \/ pipes = <<>> /\ pipes' = <<p>>
  PROVE  /\ pipes' \in Seq(Pipes) /\ attempt' = attempt + 1 /\ pipes' # <<>>
         /\ Now' = p /\ pipes'[attempt'] = p
         /\ \A b \in Attempted : pipes'[b] = pipes[b]
<1>1. pipes = <<>> => Append(pipes, p) = <<p>>
  OBVIOUS
<1> QED
  BY <1>1, AppendEffect

-----------------------------------------------------------------------------
(* The producer, the handler, the converter and the answer. *)

ProducerPcs == {"idle", "receive", "retry", "data", "error", "closeErrs", "closeData", "done"}

(* What the producer is after a step that changes some of its fields. *)
ProducerIs(pc, sentPayload, retries, chunk, error) ==
  /\ producer' \in Producing
  /\ producer'.pc = pc /\ producer'.sentPayload = sentPayload
  /\ producer'.retries = retries /\ producer'.chunk = chunk /\ producer'.error = error

LEMMA ProducerFields ==
  ASSUME TypeOK
  PROVE  /\ producer \in Producing /\ producer.pc \in ProducerPcs
         /\ producer.sentPayload \in BOOLEAN
         /\ producer.retries \in 0..MaxRetries /\ producer.retries \in Nat
         /\ producer.chunk \in 0..MaxPayloads /\ producer.chunk \in Nat
         /\ producer.error \in Errors \cup {"none"}
  BY StreamAssumption DEF TypeOK, Producing, ProducerPcs

LEMMA ProducerAt ==
  ASSUME TypeOK, NEW pc \in ProducerPcs, producer' = [producer EXCEPT !.pc = pc]
  PROVE  ProducerIs(pc, producer.sentPayload, producer.retries, producer.chunk, producer.error)
  BY DEF TypeOK, Producing, ProducerPcs, ProducerIs

LEMMA ProducerTakes ==
  ASSUME TypeOK, NEW n \in 0..MaxPayloads,
         producer' = [producer EXCEPT !.pc = "data", !.sentPayload = TRUE, !.chunk = n]
  PROVE  ProducerIs("data", TRUE, producer.retries, n, producer.error)
<1> DEFINE p == [producer EXCEPT !.pc = "data"]
           q == [p EXCEPT !.sentPayload = TRUE]
<1>1. /\ p \in Producing /\ p.pc = "data" /\ p.retries = producer.retries
      /\ p.error = producer.error
  BY DEF TypeOK, Producing
<1>2. producer' = [q EXCEPT !.chunk = n]
  OBVIOUS
<1> HIDE DEF p
<1>3. /\ q \in Producing /\ q.pc = "data" /\ q.retries = producer.retries
      /\ q.error = producer.error /\ q.sentPayload = TRUE
  BY <1>1 DEF Producing
<1> HIDE DEF q
<1> QED
  BY <1>2, <1>3 DEF Producing, ProducerIs

LEMMA ProducerFails ==
  ASSUME TypeOK, NEW pc \in ProducerPcs, NEW e \in Errors \cup {"none"},
         producer' = [producer EXCEPT !.pc = pc, !.error = e]
  PROVE  ProducerIs(pc, producer.sentPayload, producer.retries, producer.chunk, e)
<1> DEFINE p == [producer EXCEPT !.pc = pc]
<1>1. /\ p \in Producing /\ p.pc = pc /\ p.retries = producer.retries
      /\ p.chunk = producer.chunk /\ p.sentPayload = producer.sentPayload
  BY DEF TypeOK, Producing, ProducerPcs
<1>2. producer' = [p EXCEPT !.error = e]
  OBVIOUS
<1> HIDE DEF p
<1> QED
  BY <1>1, <1>2 DEF Producing, ProducerIs

LEMMA ProducerRetries ==
  ASSUME TypeOK, NEW e \in Errors, producer.retries < MaxRetries,
         producer' = [producer EXCEPT !.pc = "retry", !.retries = @ + 1, !.error = e]
  PROVE  ProducerIs("retry", producer.sentPayload, producer.retries + 1, producer.chunk, e)
<1> DEFINE p == [producer EXCEPT !.pc = "retry"]
           q == [p EXCEPT !.retries = p.retries + 1]
<1>1. /\ p \in Producing /\ p.pc = "retry" /\ p.retries = producer.retries
      /\ p.chunk = producer.chunk /\ p.sentPayload = producer.sentPayload
  BY DEF TypeOK, Producing
<1>2. producer' = [q EXCEPT !.error = e]
  OBVIOUS
<1> HIDE DEF p
<1>3. /\ q \in Producing /\ q.pc = "retry" /\ q.retries = producer.retries + 1
      /\ q.chunk = producer.chunk /\ q.sentPayload = producer.sentPayload
  BY <1>1, StreamAssumption DEF Producing
<1> HIDE DEF q
<1> QED
  BY <1>2, <1>3 DEF Producing, ProducerIs

LEMMA HandlerFields ==
  ASSUME TypeOK
  PROVE  /\ handler \in Handling /\ handler.pc \in {"execute", "peek", "forward", "done"}
         /\ handler.errs \in BOOLEAN
  BY DEF TypeOK, Handling

LEMMA HandlerAt ==
  ASSUME TypeOK, NEW pc \in {"execute", "peek", "forward", "done"},
         handler' = [handler EXCEPT !.pc = pc]
  PROVE  handler' \in Handling /\ handler'.pc = pc /\ handler'.errs = handler.errs
  BY DEF TypeOK, Handling

LEMMA HandlerDeaf ==
  ASSUME TypeOK, handler' = [handler EXCEPT !.errs = FALSE]
  PROVE  handler' \in Handling /\ handler'.pc = handler.pc /\ handler'.errs = FALSE
  BY DEF TypeOK, Handling

LEMMA ConvertFields ==
  ASSUME TypeOK
  PROVE  /\ convert \in Conversion /\ convert.pc \in {"off", "receive", "offer", "done"}
         /\ convert.chunk \in Payloads /\ Len(convert.chunk) \in Nat
         /\ convert.chunk = <<>> <=> Len(convert.chunk) = 0
  BY DEF TypeOK, Conversion, Payloads

LEMMA ConvertIs ==
  ASSUME NEW pc \in {"off", "receive", "offer", "done"}, NEW chunk \in Payloads,
         convert' = [pc |-> pc, chunk |-> chunk]
  PROVE  convert' \in Conversion /\ convert'.pc = pc /\ convert'.chunk = chunk
  BY DEF Conversion

LEMMA ConvertAt ==
  ASSUME TypeOK, NEW pc \in {"off", "receive", "offer", "done"},
         convert' = [convert EXCEPT !.pc = pc]
  PROVE  convert' \in Conversion /\ convert'.pc = pc /\ convert'.chunk = convert.chunk
  BY DEF TypeOK, Conversion

LEMMA NothingYet == <<>> \in Payloads /\ Len(<<>>) = 0
  BY DEF Payloads

LEMMA AnswerFields ==
  ASSUME TypeOK
  PROVE  /\ answer \in Answer /\ answer.status \in {"none", "ok", "error"}
         /\ answer.headers \in {0} \cup Attempts
         /\ answer.got \in Payloads /\ Len(answer.got) \in Nat
         /\ answer.got = <<>> <=> Len(answer.got) = 0
         /\ answer.told \in {"none", "complete", "failed"}
  BY DEF TypeOK, Answer, Payloads

(* The status and the headers go out once. *)
LEMMA CommitEffect ==
  ASSUME TypeOK, NEW status \in {"ok", "error"}
  PROVE  /\ Commit(status) \in Answer
         /\ Commit(status).status = IF answer.status # "none" THEN answer.status ELSE status
         /\ Commit(status).headers = IF answer.status # "none" THEN answer.headers
                                     ELSE IF status = "ok" THEN attempt ELSE 0
         /\ Commit(status).got = answer.got /\ Commit(status).told = answer.told
<1>1. CASE answer.status # "none"
  BY <1>1, AnswerFields DEF Commit
<1>2. CASE answer.status = "none"
  <2> DEFINE headers == IF status = "ok" THEN HeadersNow ELSE 0
             a == [answer EXCEPT !.status = status]
  <2>1. headers \in {0} \cup Attempts /\ headers = IF status = "ok" THEN attempt ELSE 0
    BY PipesLen DEF HeadersNow, Attempts
  <2>2. /\ a \in Answer /\ a.status = status
        /\ a.got = answer.got /\ a.told = answer.told
    BY DEF TypeOK, Answer
  <2>3. Commit(status) = [a EXCEPT !.headers = headers]
    BY <1>2 DEF Commit
  <2> HIDE DEF a, headers
  <2> QED
    BY <1>2, <2>1, <2>2, <2>3 DEF Answer
<1> QED
  BY <1>1, <1>2

LEMMA TellEffect ==
  ASSUME NEW a \in Answer, NEW told \in {"none", "complete", "failed"},
         answer' = [a EXCEPT !.told = told]
  PROVE  /\ answer' \in Answer /\ answer'.told = told /\ answer'.status = a.status
         /\ answer'.headers = a.headers /\ answer'.got = a.got
  BY DEF Answer

LEMMA GotEffect ==
  ASSUME NEW a \in Answer, NEW got \in Payloads, answer' = [a EXCEPT !.got = got]
  PROVE  /\ answer' \in Answer /\ answer'.told = a.told /\ answer'.status = a.status
         /\ answer'.headers = a.headers /\ answer'.got = got
  BY DEF Answer

LEMMA InHandType ==
  ASSUME TypeOK
  PROVE  /\ Delivered \in Nat /\ InHand \in Nat
         /\ producer.pc # "data" => InHand = Delivered
<1>1. PICK n \in Nat, m \in Nat : n = Len(answer.got) /\ m = Len(convert.chunk)
  BY ConvertFields, AnswerFields
<1>2. Delivered \in Nat
  <2>1. Delivered = n + m
    BY <1>1 DEF Delivered
  <2> QED
    BY <2>1
<1> QED
  BY <1>2 DEF InHand

(* A payload on its way. *)
LEMMA PayloadType ==
  ASSUME TypeOK, Reading, producer.pc = "data"
  PROVE  /\ Payload \in Attempts \X (1..MaxPayloads) /\ <<Payload>> \in Payloads
         /\ Payload[1] = attempt /\ attempt \in Attempts /\ pipes # <<>>
<1>1. attempt \in Attempts /\ pipes # <<>>
  BY PipesLen DEF Reading
<1>2. producer.chunk \in 1..MaxPayloads
  BY ProducerFields, StreamAssumption DEF Reading
<1>3. Payload \in Attempts \X (1..MaxPayloads) /\ Payload[1] = attempt
  BY <1>1, <1>2 DEF Payload
<1> QED
  BY <1>1, <1>3 DEF Payloads

LEMMA Appended ==
  ASSUME NEW s \in Payloads, NEW e \in Attempts \X (1..MaxPayloads)
  PROVE  /\ Append(s, e) \in Payloads /\ Len(Append(s, e)) = Len(s) + 1
         /\ Append(s, e) # <<>>
         /\ s # <<>> => Append(s, e)[1] = s[1]
  BY DEF Payloads

LEMMA Joined ==
  ASSUME NEW s \in Payloads, NEW t \in Payloads
  PROVE  /\ s \o t \in Payloads /\ Len(s \o t) = Len(s) + Len(t)
         /\ s # <<>> => s \o t # <<>> /\ (s \o t)[1] = s[1]
  BY DEF Payloads

-----------------------------------------------------------------------------
(* What each step does, field by field. *)

(* The record an answer is after a step; the status and the headers stay,   *)
(* unless nothing was written yet.                                          *)
AnswerIs(status, got, told) ==
  /\ answer' \in Answer
  /\ answer'.status = IF answer.status # "none" THEN answer.status ELSE status
  /\ answer'.headers = IF answer.status # "none" THEN answer.headers
                       ELSE IF status = "ok" THEN attempt ELSE 0
  /\ answer'.got = got /\ answer'.told = told
HandlerIs(pc, errs) == handler' \in Handling /\ handler'.pc = pc /\ handler'.errs = errs
ConverterIs(pc, chunk) == convert' \in Conversion /\ convert'.pc = pc /\ convert'.chunk = chunk

LEMMA TellErrorEffect ==
  ASSUME TypeOK, NEW status \in {"ok", "error"}, TellError(status)
  PROVE  /\ errBuf' = "none" /\ cancelled' = TRUE
         /\ HandlerIs("done", handler.errs) /\ AnswerIs(status, answer.got, "failed")
<1>1. /\ Commit(status) \in Answer /\ answer' = [Commit(status) EXCEPT !.told = "failed"]
      /\ handler' = [handler EXCEPT !.pc = "done"] /\ errBuf' = "none" /\ cancelled' = TRUE
  BY CommitEffect DEF TellError, Return
<1> QED
  BY <1>1, CommitEffect, TellEffect, HandlerAt DEF HandlerIs, AnswerIs

LEMMA TellEndEffect ==
  ASSUME TypeOK, TellEnd
  PROVE  /\ UNCHANGED errBuf /\ cancelled' = TRUE
         /\ HandlerIs("done", handler.errs) /\ AnswerIs("ok", answer.got, "complete")
<1>1. /\ Commit("ok") \in Answer /\ answer' = [Commit("ok") EXCEPT !.told = "complete"]
      /\ handler' = [handler EXCEPT !.pc = "done"] /\ UNCHANGED errBuf /\ cancelled' = TRUE
  BY CommitEffect DEF TellEnd, Return
<1> QED
  BY <1>1, CommitEffect, TellEffect, HandlerAt DEF HandlerIs, AnswerIs

LEMMA ReturnEffect ==
  ASSUME TypeOK, Return
  PROVE  HandlerIs("done", handler.errs) /\ cancelled' = TRUE
  BY HandlerAt DEF Return, HandlerIs

LEMMA ReceivePayloadEffect ==
  ASSUME TypeOK, Reading, ReceivePayload
  PROVE  /\ pipes # <<>> /\ Now.sent \in 0..MaxPayloads
         /\ PipeBecomes(attempt, At(Now, "read"))
         /\ \/ ProducerIs("data", TRUE, producer.retries, Now.sent, producer.error)
            \/ ProducerIs("error", producer.sentPayload, producer.retries, producer.chunk, "invalid")
<1>1. pipes # <<>> /\ Now \in Pipes
  BY PipesLen DEF Reading, ReceivePayload, Now
<1>2. Now.sent \in 0..MaxPayloads
  BY <1>1, PipeFields
<1>3. PipeBecomes(attempt, At(Now, "read"))
  BY <1>1, TakenEffect DEF ReceivePayload
<1>4. CASE producer' = [producer EXCEPT !.pc = "data", !.sentPayload = TRUE, !.chunk = Now.sent]
  BY <1>1, <1>2, <1>3, <1>4, ProducerTakes
<1>5. CASE producer' = [producer EXCEPT !.pc = "error", !.error = "invalid"]
  BY <1>1, <1>2, <1>3, <1>5, ProducerFails DEF ProducerPcs, Errors
<1> QED
  BY <1>4, <1>5 DEF ReceivePayload

LEMMA ReceiveErrorEffect ==
  ASSUME TypeOK, Reading, ReceiveError
  PROVE  /\ pipes # <<>> /\ Now.error \in StreamErrors
         /\ PipeBecomes(attempt, At(Now, IF Now.pc = "canned" THEN "closed" ELSE "read"))
         /\ \/ /\ ~producer.sentPayload
               /\ ProducerIs("retry", producer.sentPayload, producer.retries + 1,
                             producer.chunk, Now.error)
            \/ ProducerIs("error", producer.sentPayload, producer.retries, producer.chunk, Now.error)
<1>1. pipes # <<>> /\ Now \in Pipes
  BY PipesLen DEF Reading, ReceiveError, Now
<1>2. Now.error \in StreamErrors /\ Now.error \in Errors
  BY <1>1, PipeFields DEF ReceiveError, Errors
<1>3. PipeBecomes(attempt, At(Now, IF Now.pc = "canned" THEN "closed" ELSE "read"))
  BY <1>1, TakenEffect DEF ReceiveError
<1>4. CASE Retries(Now.error)
  <2>1. producer' = [producer EXCEPT !.pc = "retry", !.retries = @ + 1, !.error = Now.error]
    BY <1>4 DEF ReceiveError
  <2> QED
    BY <1>1, <1>2, <1>3, <1>4, <2>1, ProducerRetries DEF Retries
<1>5. CASE ~Retries(Now.error)
  <2>1. producer' = [producer EXCEPT !.pc = "error", !.error = Now.error]
    BY <1>5 DEF ReceiveError
  <2> QED
    BY <1>1, <1>2, <1>3, <2>1, ProducerFails DEF ProducerPcs
<1> QED
  BY <1>4, <1>5

LEMMA RetryStepEffect ==
  ASSUME TypeOK, Reading, Retry
  PROVE  \/ /\ \E p \in Opened : /\ pipes' \in Seq(Pipes) /\ attempt' = attempt + 1
                                  /\ pipes' # <<>> /\ Now' = p /\ pipes'[attempt'] = p
                                  /\ \A b \in Attempted : pipes'[b] = pipes[b]
            /\ ProducerIs("receive", producer.sentPayload, producer.retries, producer.chunk, "none")
         \/ /\ UNCHANGED pipes
            /\ ProducerIs("error", producer.sentPayload, producer.retries, producer.chunk, "refused")
<1>1. ASSUME NEW p \in Opened, pipes' = Append(pipes, p),
             producer' = [producer EXCEPT !.pc = "receive", !.error = "none"]
      PROVE  /\ pipes' \in Seq(Pipes) /\ attempt' = attempt + 1
             /\ pipes' # <<>> /\ Now' = p /\ pipes'[attempt'] = p
             /\ \A b \in Attempted : pipes'[b] = pipes[b]
             /\ ProducerIs("receive", producer.sentPayload, producer.retries, producer.chunk, "none")
  BY <1>1, AppendEffect, ProducerFails DEF ProducerPcs
<1>2. CASE UNCHANGED pipes /\ producer' = [producer EXCEPT !.pc = "error", !.error = "refused"]
  BY <1>2, ProducerFails DEF ProducerPcs, Errors
<1> QED
  BY <1>1, <1>2 DEF Retry

LEMMA ExecuteEffect ==
  ASSUME TypeOK, Answering, Execute
  PROVE  /\ pipes = <<>> /\ HandlerIs("peek", handler.errs)
         /\ \/ /\ \E p \in Opened : /\ pipes' \in Seq(Pipes) /\ attempt' = attempt + 1
                                     /\ pipes' # <<>> /\ Now' = p /\ pipes'[attempt'] = p
                                     /\ \A b \in Attempted : pipes'[b] = pipes[b]
               /\ ProducerIs("receive", producer.sentPayload, producer.retries,
                             producer.chunk, producer.error)
               /\ UNCHANGED errBuf
            \/ errBuf' = "refused" /\ UNCHANGED <<pipes, producer>>
<1>1. pipes = <<>> /\ HandlerIs("peek", handler.errs)
  BY HandlerAt DEF Execute, Answering, HandlerIs
<1>2. ASSUME NEW p \in Opened, pipes' = <<p>>,
             producer' = [producer EXCEPT !.pc = "receive"]
      PROVE  /\ pipes' \in Seq(Pipes) /\ attempt' = attempt + 1
             /\ pipes' # <<>> /\ Now' = p /\ pipes'[attempt'] = p
             /\ \A b \in Attempted : pipes'[b] = pipes[b]
             /\ ProducerIs("receive", producer.sentPayload, producer.retries,
                           producer.chunk, producer.error)
  BY <1>1, <1>2, RetryEffect, ProducerAt DEF ProducerPcs
<1> QED
  BY <1>1, <1>2 DEF Execute

(* Steps of the producer that only move it. *)
LEMMA ProducerMoves ==
  ASSUME TypeOK
  PROVE  /\ ReceiveEnd \/ Stop \/ SendError => ProducerIs("closeErrs", producer.sentPayload,
               producer.retries, producer.chunk, producer.error)
         /\ CloseErrs => ProducerIs("closeData", producer.sentPayload,
               producer.retries, producer.chunk, producer.error)
         /\ CloseData => ProducerIs("done", producer.sentPayload,
               producer.retries, producer.chunk, producer.error)
         /\ producer' = ProducerGave => ProducerIs("receive", producer.sentPayload,
               producer.retries, producer.chunk, producer.error)
  BY ProducerAt DEF ProducerPcs, ReceiveEnd, Stop, SendError, CloseErrs, CloseData, ProducerGave

LEMMA ConvertReceiveEffect ==
  ASSUME TypeOK, Reading, ConvertReceive
  PROVE  /\ ConverterIs("offer", <<Payload>>) /\ pipes # <<>>
         /\ Len(<<Payload>>) = 1 /\ <<Payload>> # <<>>
         /\ ProducerIs("receive", producer.sentPayload, producer.retries,
                       producer.chunk, producer.error)
<1>1. convert' = [pc |-> "offer", chunk |-> <<Payload>>] /\ <<Payload>> \in Payloads /\ pipes # <<>>
  BY PayloadType DEF ConvertReceive
<1>2. ProducerIs("receive", producer.sentPayload, producer.retries, producer.chunk, producer.error)
  BY ProducerMoves DEF ConvertReceive
<1> QED
  BY <1>1, <1>2, ConvertIs DEF ConverterIs

LEMMA ConvertEndEffect ==
  ASSUME TypeOK, ConvertEnd
  PROVE  ConverterIs("done", <<>>)
  BY ConvertIs, NothingYet DEF ConvertEnd, ConverterIs

LEMMA PeekNoErrorEffect ==
  ASSUME TypeOK, PeekNoError
  PROVE  HandlerIs(handler.pc, FALSE)
  BY HandlerDeaf DEF PeekNoError, HandlerIs

LEMMA PeekPayloadEffect ==
  ASSUME TypeOK, Reading, PeekPayload
  PROVE  /\ AnswerIs("ok", <<Payload>>, answer.told) /\ pipes # <<>>
         /\ Len(<<Payload>>) = 1 /\ <<Payload>> # <<>> /\ Payload[1] = attempt
         /\ HandlerIs("forward", handler.errs)
         /\ ConverterIs(IF format \in Converting THEN "receive" ELSE convert.pc, convert.chunk)
         /\ ProducerIs("receive", producer.sentPayload, producer.retries,
                       producer.chunk, producer.error)
<1>1. /\ answer' = [Commit("ok") EXCEPT !.got = <<Payload>>] /\ <<Payload>> \in Payloads
      /\ pipes # <<>> /\ Payload[1] = attempt
  BY PayloadType DEF PeekPayload
<1>2. AnswerIs("ok", <<Payload>>, answer.told)
  BY <1>1, CommitEffect, GotEffect DEF AnswerIs
<1>3. HandlerIs("forward", handler.errs)
  BY HandlerAt DEF PeekPayload, HandlerIs
<1>4. ConverterIs(IF format \in Converting THEN "receive" ELSE convert.pc, convert.chunk)
  <2>1. convert' = [convert EXCEPT !.pc = IF format \in Converting THEN "receive" ELSE convert.pc]
    BY ConvertFields DEF PeekPayload
  <2> QED
    BY <2>1, ConvertAt, ConvertFields DEF ConverterIs
<1> QED
  BY <1>1, <1>2, <1>3, <1>4, ProducerMoves DEF PeekPayload

LEMMA PeekKeepAliveEffect ==
  ASSUME TypeOK, PeekKeepAlive
  PROVE  AnswerIs("ok", answer.got, answer.told)
  BY CommitEffect DEF PeekKeepAlive, AnswerIs

LEMMA ForwardPayloadEffect ==
  ASSUME TypeOK, Reading, Unsent, Committed, Answering, ForwardPayload
  PROVE  /\ answer.status # "none" /\ answer.got # <<>>
         /\ \E got \in Payloads :
              /\ AnswerIs("ok", got, answer.told) /\ got # <<>> /\ got[1] = answer.got[1]
              /\ \/ /\ convert.pc = "off" /\ producer.pc = "data" /\ UNCHANGED convert
                    /\ got = Append(answer.got, Payload) /\ Len(got) = Len(answer.got) + 1
                    /\ ProducerIs("receive", producer.sentPayload, producer.retries,
                                  producer.chunk, producer.error)
                 \/ /\ convert.pc = "offer" /\ ConverterIs("receive", <<>>) /\ UNCHANGED producer
                    /\ got = answer.got \o convert.chunk
                    /\ Len(got) = Len(answer.got) + Len(convert.chunk)
<1>1. answer.status # "none" /\ answer.got # <<>> /\ answer \in Answer /\ answer.got \in Payloads
  BY AnswerFields DEF Committed, Answering, ForwardPayload
<1>2. ASSUME NEW got \in Payloads, answer' = [answer EXCEPT !.got = got]
      PROVE  AnswerIs("ok", got, answer.told)
  BY <1>1, <1>2, GotEffect DEF AnswerIs
<1>3. CASE /\ convert.pc = "off" /\ producer.pc = "data"
           /\ answer' = [answer EXCEPT !.got = Append(@, Payload)]
           /\ producer' = ProducerGave /\ UNCHANGED convert
  <2> DEFINE got == Append(answer.got, Payload)
  <2>1. got \in Payloads /\ Len(got) = Len(answer.got) + 1 /\ got[1] = answer.got[1] /\ got # <<>>
    <3>1. producer.pc = "data"
      BY <1>3
    <3>2. Payload \in Attempts \X (1..MaxPayloads)
      BY <3>1, PayloadType
    <3> HIDE DEF Payload
    <3> QED
      BY <1>1, <3>2, Appended
  <2>2. answer' = [answer EXCEPT !.got = got] /\ UNCHANGED convert
    BY <1>1, <1>3 DEF Answer
  <2>3. ProducerIs("receive", producer.sentPayload, producer.retries, producer.chunk, producer.error)
    BY <1>3, ProducerMoves
  <2> QED
    BY <1>1, <1>2, <1>3, <2>1, <2>2, <2>3
<1>4. CASE /\ convert.pc = "offer"
           /\ answer' = [answer EXCEPT !.got = @ \o convert.chunk]
           /\ convert' = [pc |-> "receive", chunk |-> <<>>] /\ UNCHANGED producer
  <2> DEFINE got == answer.got \o convert.chunk
  <2>1. got \in Payloads /\ Len(got) = Len(answer.got) + Len(convert.chunk) /\ got[1] = answer.got[1]
        /\ got # <<>>
    BY <1>1, Joined, ConvertFields
  <2>2. answer' = [answer EXCEPT !.got = got] /\ UNCHANGED producer
    BY <1>1, <1>4 DEF Answer
  <2>3. ConverterIs("receive", <<>>) /\ convert.pc = "offer"
    BY <1>4, ConvertIs, NothingYet DEF ConverterIs
  <2> QED
    BY <1>1, <1>2, <2>1, <2>2, <2>3
<1> QED
  BY <1>3, <1>4 DEF ForwardPayload

-----------------------------------------------------------------------------
(* Each part of the invariant is kept by every step. *)

LEMMA TypeStep ==
  ASSUME TypeOK, \A b \in Attempted : Recorded(b), Answering, Reading, Unsent, Flowing,
         Closing, Committed, Next
  PROVE  TypeOK'
<1>1. ASSUME NEW a \in Attempted, Send(a) PROVE TypeOK'
  BY <1>1, SendEffect DEF TypeOK, Send, Sent, PipeBecomes, attempt
<1>2. ASSUME NEW a \in Attempted, NEW e \in StreamErrors, Break(a, e) PROVE TypeOK'
  BY <1>2, BreakEffect DEF TypeOK, Break, Broken, StreamErrors, PipeBecomes, attempt
<1>3. ASSUME NEW a \in Attempted, Finish(a) PROVE TypeOK'
  BY <1>3, AtEffect DEF TypeOK, Finish, At, PipeBecomes, attempt
<1>4. ASSUME NEW a \in Attempted, MarkEnd(a) PROVE TypeOK'
  BY <1>4, MarkEffect DEF TypeOK, MarkEnd, Marked, PipeBecomes, attempt
<1>5. ASSUME NEW a \in Attempted, CloseOut(a) PROVE TypeOK'
  BY <1>5, AtEffect DEF TypeOK, CloseOut, At, PipeBecomes, attempt
<1>6. ASSUME NEW a \in Attempted, Drop(a) PROVE TypeOK'
  BY <1>6, AtEffect DEF TypeOK, Drop, At, PipeBecomes, attempt
<1>7. CASE ReceivePayload
  BY <1>7, ReceivePayloadEffect DEF TypeOK, ReceivePayload, At, PipeBecomes, ProducerIs,
       attempt
<1>8. CASE ReceiveError
  BY <1>8, ReceiveErrorEffect DEF TypeOK, ReceiveError, Retries, At, PipeBecomes,
       ProducerIs, attempt
<1>9. CASE Retry
  BY <1>9, RetryStepEffect, OpenedType, PipesLen, ProducerFields, HandlerFields,
       ConvertFields, AnswerFields, PipeFields, StreamAssumption DEF TypeOK, Retry,
       ProducerIs, attempt, Now, Attempts, Attempted, Reading, Answering, Unsent,
       ErrsClosed, DataClosed, Recorded, Flowing, InHand, Delivered, Errors, StreamErrors
<1>10. CASE ReceiveEnd
  BY <1>10, ProducerMoves DEF TypeOK, ReceiveEnd, ProducerIs, attempt
<1>11. CASE Stop
  BY <1>11, ProducerMoves DEF TypeOK, Stop, ProducerIs, attempt
<1>12. CASE SendError
  BY <1>12, ProducerMoves, PipesLen, ProducerFields, HandlerFields, ConvertFields,
       AnswerFields DEF TypeOK, SendError, ProducerIs, attempt, Now, Attempts, Attempted
<1>13. CASE CloseErrs
  BY <1>13, ProducerMoves DEF TypeOK, CloseErrs, ProducerIs, attempt
<1>14. CASE CloseData
  BY <1>14, ProducerMoves DEF TypeOK, CloseData, ProducerIs, attempt
<1>15. CASE ConvertReceive
  BY <1>15, ConvertReceiveEffect DEF TypeOK, ConvertReceive, ProducerIs, ConverterIs,
       attempt
<1>16. CASE ConvertEnd
  BY <1>16, ConvertEndEffect, NothingYet DEF TypeOK, ConvertEnd, ConverterIs, attempt
<1>17. CASE Execute
  <2>1. pipes = <<>> /\ attempt = 0 /\ handler' \in Handling
    BY <1>17, ExecuteEffect, PipesLen DEF HandlerIs
  <2>2. CASE /\ pipes' \in Seq(Pipes) /\ attempt' = attempt + 1 /\ UNCHANGED errBuf
             /\ producer' \in Producing
    BY <1>17, <2>1, <2>2, StreamAssumption DEF TypeOK, Execute, attempt
  <2>3. CASE errBuf' = "refused" /\ UNCHANGED <<pipes, producer>>
    BY <1>17, <2>1, <2>3 DEF TypeOK, Execute, Errors
  <2> QED
    BY <1>17, <2>2, <2>3, ExecuteEffect DEF ProducerIs
<1>18. CASE LeaveClient
  BY <1>18, ReturnEffect DEF TypeOK, LeaveClient, HandlerIs, attempt
<1>19. CASE PeekError
  BY <1>19, TellErrorEffect DEF TypeOK, PeekError, PendingError, AnswerIs, HandlerIs,
       attempt
<1>20. CASE PeekNoError
  BY <1>20, PeekNoErrorEffect DEF TypeOK, PeekNoError, HandlerIs, attempt
<1>21. CASE PeekEnd
  BY <1>21, TellErrorEffect, TellEndEffect DEF TypeOK, PeekEnd, PendingError, AnswerIs,
       HandlerIs, attempt
<1>22. CASE PeekPayload
  BY <1>22, PeekPayloadEffect DEF TypeOK, PeekPayload, ProducerIs, ConverterIs, AnswerIs,
       HandlerIs, attempt
<1>23. CASE PeekKeepAlive
  BY <1>23, PeekKeepAliveEffect DEF TypeOK, PeekKeepAlive, AnswerIs, attempt
<1>24. CASE ForwardPayload
  BY <1>24, ForwardPayloadEffect, NothingYet DEF TypeOK, ForwardPayload, AnswerIs,
       ConverterIs, ProducerIs, attempt
<1>25. CASE ForwardError
  BY <1>25, TellErrorEffect DEF TypeOK, ForwardError, PendingError, AnswerIs, HandlerIs,
       attempt
<1>26. CASE ForwardEnd
  BY <1>26, TellErrorEffect, TellEndEffect DEF TypeOK, ForwardEnd, PendingError, AnswerIs,
       HandlerIs, attempt
<1>27. CASE ClientLeaves
  BY <1>27 DEF TypeOK, ClientLeaves, attempt
<1>28. CASE PassCancel
  BY <1>28 DEF TypeOK, PassCancel, attempt
<1> QED
  BY <1>1, <1>2, <1>3, <1>4, <1>5, <1>6, <1>7, <1>8, <1>9, <1>10, <1>11, <1>12, <1>13,
       <1>14, <1>15, <1>16, <1>17, <1>18, <1>19, <1>20, <1>21, <1>22, <1>23, <1>24, <1>25,
       <1>26, <1>27, <1>28 DEF Next, Producer, Converter, Handler, Forwarder, Provider,
       Attempted

LEMMA RecordedStep ==
  ASSUME TypeOK, \A b \in Attempted : Recorded(b), Answering, Reading, Unsent, Flowing,
         Closing, Committed, Next, NEW c \in Attempted'
  PROVE  Recorded(c)'
<1>1. ASSUME NEW a \in Attempted, Send(a) PROVE Recorded(c)'
  <2> DEFINE p == Sent(pipes[a])
  <2>1. /\ PipeBecomes(a, p) /\ pipes[a] \in Pipes
        /\ p.pc = "offer" /\ p.error = pipes[a].error /\ p.sent = pipes[a].sent + 1
        /\ p.mark = pipes[a].mark
        /\ pipes[a].pc = "read" /\ pipes[a].mark = "none"
    BY <1>1, SendEffect, PipesLen DEF Sent, Send
  <2> HIDE DEF p
  <2>2. /\ attempt' = attempt /\ attempt \in Attempted /\ Attempted' = Attempted
        /\ pipes # <<>> /\ pipes' # <<>>
        /\ Now' = IF a = attempt THEN p ELSE Now
        /\ a = attempt => pipes[a] = Now
        /\ \A b \in Attempted : pipes'[b] = IF b = a THEN p ELSE pipes[b]
    BY <2>1, NowBecomes
  <2>3. Recorded(a) /\ Recorded(c) /\ cancelled' = cancelled
    BY <1>1, <2>2 DEF Send
  <2>4. CASE c = a
    <3>1. pipes'[c] = p /\ p \in Pipes /\ pipes[a].sent \in Nat
      BY <2>1, <2>2, <2>4, PipeFields DEF PipeBecomes
    <3> QED
      BY <2>1, <2>3, <2>4, <3>1, PipeFields DEF Recorded
  <2>5. CASE c # a
    <3>1. pipes'[c] = pipes[c]
      BY <2>2, <2>5
    <3> QED
      BY <2>3, <3>1 DEF Recorded
  <2> QED
    BY <2>4, <2>5
<1>2. ASSUME NEW a \in Attempted, NEW e \in StreamErrors, Break(a, e) PROVE Recorded(c)'
  <2> DEFINE p == Broken(pipes[a], e)
  <2>1. /\ PipeBecomes(a, p) /\ pipes[a] \in Pipes
        /\ p.pc = "offer" /\ p.error = e /\ p.sent = pipes[a].sent /\ p.mark = "failed"
        /\ pipes[a].pc = "read" /\ pipes[a].mark = "none" /\ e # "none"
    BY <1>2, BreakEffect, PipesLen DEF Broken, StreamErrors, Break
  <2> HIDE DEF p
  <2>2. /\ attempt' = attempt /\ attempt \in Attempted /\ Attempted' = Attempted
        /\ pipes # <<>> /\ pipes' # <<>>
        /\ Now' = IF a = attempt THEN p ELSE Now
        /\ a = attempt => pipes[a] = Now
        /\ \A b \in Attempted : pipes'[b] = IF b = a THEN p ELSE pipes[b]
    BY <2>1, NowBecomes
  <2>3. Recorded(a) /\ Recorded(c) /\ cancelled' = cancelled
    BY <1>2, <2>2 DEF Break
  <2>4. CASE c = a
    <3>1. pipes'[c] = p /\ p \in Pipes /\ pipes[a].sent \in Nat
      BY <2>1, <2>2, <2>4, PipeFields DEF PipeBecomes
    <3> QED
      BY <2>1, <2>3, <2>4, <3>1, PipeFields DEF Recorded
  <2>5. CASE c # a
    <3>1. pipes'[c] = pipes[c]
      BY <2>2, <2>5
    <3> QED
      BY <2>3, <3>1 DEF Recorded
  <2> QED
    BY <2>4, <2>5
<1>3. ASSUME NEW a \in Attempted, Finish(a) PROVE Recorded(c)'
  <2> DEFINE p == At(pipes[a], "ended")
  <2>1. /\ PipeBecomes(a, p) /\ pipes[a] \in Pipes
        /\ p.pc = "ended" /\ p.error = pipes[a].error /\ p.sent = pipes[a].sent
        /\ p.mark = pipes[a].mark
        /\ pipes[a].pc = "read"
    BY <1>3, FinishEffect, PipesLen DEF At, Finish
  <2> HIDE DEF p
  <2>2. /\ attempt' = attempt /\ attempt \in Attempted /\ Attempted' = Attempted
        /\ pipes # <<>> /\ pipes' # <<>>
        /\ Now' = IF a = attempt THEN p ELSE Now
        /\ a = attempt => pipes[a] = Now
        /\ \A b \in Attempted : pipes'[b] = IF b = a THEN p ELSE pipes[b]
    BY <2>1, NowBecomes
  <2>3. Recorded(a) /\ Recorded(c) /\ cancelled' = cancelled
    BY <1>3, <2>2 DEF Finish
  <2>4. CASE c = a
    <3>1. pipes'[c] = p /\ p \in Pipes /\ pipes[a].sent \in Nat
      BY <2>1, <2>2, <2>4, PipeFields DEF PipeBecomes
    <3> QED
      BY <2>1, <2>3, <2>4, <3>1, PipeFields DEF Recorded
  <2>5. CASE c # a
    <3>1. pipes'[c] = pipes[c]
      BY <2>2, <2>5
    <3> QED
      BY <2>3, <3>1 DEF Recorded
  <2> QED
    BY <2>4, <2>5
<1>4. ASSUME NEW a \in Attempted, MarkEnd(a) PROVE Recorded(c)'
  <2> DEFINE p == Marked(pipes[a])
  <2>1. /\ PipeBecomes(a, p) /\ pipes[a] \in Pipes
        /\ p.pc = "marked" /\ p.error = pipes[a].error /\ p.sent = pipes[a].sent
        /\ p.mark = IF pipes[a].mark = "none" THEN "ok" ELSE pipes[a].mark
        /\ pipes[a].pc = "ended"
    BY <1>4, MarkEffect, PipesLen DEF Marked, MarkEnd
  <2> HIDE DEF p
  <2>2. /\ attempt' = attempt /\ attempt \in Attempted /\ Attempted' = Attempted
        /\ pipes # <<>> /\ pipes' # <<>>
        /\ Now' = IF a = attempt THEN p ELSE Now
        /\ a = attempt => pipes[a] = Now
        /\ \A b \in Attempted : pipes'[b] = IF b = a THEN p ELSE pipes[b]
    BY <2>1, NowBecomes
  <2>3. Recorded(a) /\ Recorded(c) /\ cancelled' = cancelled
    BY <1>4, <2>2 DEF MarkEnd
  <2>4. CASE c = a
    <3>1. pipes'[c] = p /\ p \in Pipes /\ pipes[a].sent \in Nat
      BY <2>1, <2>2, <2>4, PipeFields DEF PipeBecomes
    <3> QED
      BY <2>1, <2>3, <2>4, <3>1, PipeFields DEF Recorded
  <2>5. CASE c # a
    <3>1. pipes'[c] = pipes[c]
      BY <2>2, <2>5
    <3> QED
      BY <2>3, <3>1 DEF Recorded
  <2> QED
    BY <2>4, <2>5
<1>5. ASSUME NEW a \in Attempted, CloseOut(a) PROVE Recorded(c)'
  <2> DEFINE p == At(pipes[a], "closed")
  <2>1. /\ PipeBecomes(a, p) /\ pipes[a] \in Pipes
        /\ p.pc = "closed" /\ p.error = pipes[a].error /\ p.sent = pipes[a].sent
        /\ p.mark = pipes[a].mark
        /\ pipes[a].pc = "marked"
    BY <1>5, CloseEffect, PipesLen DEF At, CloseOut
  <2> HIDE DEF p
  <2>2. /\ attempt' = attempt /\ attempt \in Attempted /\ Attempted' = Attempted
        /\ pipes # <<>> /\ pipes' # <<>>
        /\ Now' = IF a = attempt THEN p ELSE Now
        /\ a = attempt => pipes[a] = Now
        /\ \A b \in Attempted : pipes'[b] = IF b = a THEN p ELSE pipes[b]
    BY <2>1, NowBecomes
  <2>3. Recorded(a) /\ Recorded(c) /\ cancelled' = cancelled
    BY <1>5, <2>2 DEF CloseOut
  <2>4. CASE c = a
    <3>1. pipes'[c] = p /\ p \in Pipes /\ pipes[a].sent \in Nat
      BY <2>1, <2>2, <2>4, PipeFields DEF PipeBecomes
    <3> QED
      BY <2>1, <2>3, <2>4, <3>1, PipeFields DEF Recorded
  <2>5. CASE c # a
    <3>1. pipes'[c] = pipes[c]
      BY <2>2, <2>5
    <3> QED
      BY <2>3, <3>1 DEF Recorded
  <2> QED
    BY <2>4, <2>5
<1>6. ASSUME NEW a \in Attempted, Drop(a) PROVE Recorded(c)'
  <2> DEFINE p == At(pipes[a], "closed")
  <2>1. /\ PipeBecomes(a, p) /\ pipes[a] \in Pipes
        /\ p.pc = "closed" /\ p.error = pipes[a].error /\ p.sent = pipes[a].sent
        /\ p.mark = pipes[a].mark
        /\ pipes[a].pc = "offer" /\ cancelled
    BY <1>6, CloseEffect, PipesLen DEF At, Drop
  <2> HIDE DEF p
  <2>2. /\ attempt' = attempt /\ attempt \in Attempted /\ Attempted' = Attempted
        /\ pipes # <<>> /\ pipes' # <<>>
        /\ Now' = IF a = attempt THEN p ELSE Now
        /\ a = attempt => pipes[a] = Now
        /\ \A b \in Attempted : pipes'[b] = IF b = a THEN p ELSE pipes[b]
    BY <2>1, NowBecomes
  <2>3. Recorded(a) /\ Recorded(c) /\ cancelled' = cancelled
    BY <1>6, <2>2 DEF Drop
  <2>4. CASE c = a
    <3>1. pipes'[c] = p /\ p \in Pipes /\ pipes[a].sent \in Nat
      BY <2>1, <2>2, <2>4, PipeFields DEF PipeBecomes
    <3> QED
      BY <2>1, <2>3, <2>4, <3>1, PipeFields DEF Recorded
  <2>5. CASE c # a
    <3>1. pipes'[c] = pipes[c]
      BY <2>2, <2>5
    <3> QED
      BY <2>3, <3>1 DEF Recorded
  <2> QED
    BY <2>4, <2>5
<1>7. CASE ReceivePayload
  <2> DEFINE p == At(Now, "read")
  <2>1. /\ PipeBecomes(attempt, p) /\ attempt \in Attempted /\ pipes[attempt] = Now
        /\ p.pc = "read" /\ p.error = Now.error /\ p.sent = Now.sent /\ p.mark = Now.mark
        /\ Now.pc = "offer" /\ Now.error = "none" /\ UNCHANGED cancelled
    BY <1>7, ReceivePayloadEffect, PipesLen DEF At, ReceivePayload, Now
  <2> HIDE DEF p
  <2>2. Attempted' = Attempted /\ pipes'[c] = IF c = attempt THEN p ELSE pipes[c]
    BY <2>1, NowBecomes
  <2>3. Recorded(attempt) /\ Recorded(c)
    BY <2>1, <2>2
  <2>4. CASE c = attempt
    BY <2>1, <2>2, <2>3, <2>4 DEF Recorded
  <2>5. CASE c # attempt
    BY <2>1, <2>2, <2>3, <2>5 DEF Recorded
  <2> QED
    BY <2>4, <2>5
<1>8. CASE ReceiveError
  BY <1>8, ReceiveErrorEffect, PipesLen, ProducerFields, HandlerFields, ConvertFields,
       AnswerFields DEF Recorded, ReceiveError, Retries, At, PipeBecomes, ProducerIs,
       attempt, Now, Attempts, Attempted
<1>9. CASE Retry
  BY <1>9, RetryStepEffect, OpenedType, PipesLen, ProducerFields, HandlerFields,
       ConvertFields, AnswerFields DEF Recorded, Retry, ProducerIs, attempt, Now, Attempts,
       Attempted
<1>10. CASE ReceiveEnd
  BY <1>10, ProducerMoves, PipesLen, ProducerFields, HandlerFields, ConvertFields,
       AnswerFields DEF Recorded, ReceiveEnd, ProducerIs, attempt, Now, Attempts, Attempted
<1>11. CASE Stop
  BY <1>11, ProducerMoves, PipesLen, ProducerFields, HandlerFields, ConvertFields,
       AnswerFields DEF Recorded, Stop, ProducerIs, attempt, Now, Attempts, Attempted
<1>12. CASE SendError
  BY <1>12, ProducerMoves, PipesLen, ProducerFields, HandlerFields, ConvertFields,
       AnswerFields DEF Recorded, SendError, ProducerIs, attempt, Now, Attempts, Attempted
<1>13. CASE CloseErrs
  BY <1>13, ProducerMoves, PipesLen, ProducerFields, HandlerFields, ConvertFields,
       AnswerFields DEF Recorded, CloseErrs, ProducerIs, attempt, Now, Attempts, Attempted
<1>14. CASE CloseData
  BY <1>14, ProducerMoves, PipesLen, ProducerFields, HandlerFields, ConvertFields,
       AnswerFields DEF Recorded, CloseData, ProducerIs, attempt, Now, Attempts, Attempted
<1>15. CASE ConvertReceive
  BY <1>15, ConvertReceiveEffect, PipesLen, ProducerFields, HandlerFields, ConvertFields,
       AnswerFields DEF Recorded, ConvertReceive, ProducerIs, ConverterIs, attempt, Now,
       Attempts, Attempted
<1>16. CASE ConvertEnd
  BY <1>16, ConvertEndEffect, NothingYet, PipesLen, ProducerFields, HandlerFields,
       ConvertFields, AnswerFields DEF Recorded, ConvertEnd, ConverterIs, attempt, Now,
       Attempts, Attempted
<1>17. CASE Execute
  BY <1>17, ExecuteEffect, OpenedType, PipesLen, ProducerFields, HandlerFields,
       ConvertFields, AnswerFields DEF Recorded, Execute, ProducerIs, HandlerIs, attempt,
       Now, Attempts, Attempted
<1>18. CASE LeaveClient
  BY <1>18, ReturnEffect, PipesLen, ProducerFields, HandlerFields, ConvertFields,
       AnswerFields DEF Recorded, LeaveClient, HandlerIs, attempt, Now, Attempts, Attempted
<1>19. CASE PeekError
  BY <1>19, TellErrorEffect, PipesLen, ProducerFields, HandlerFields, ConvertFields,
       AnswerFields DEF Recorded, PeekError, PendingError, AnswerIs, HandlerIs, attempt,
       Now, Attempts, Attempted
<1>20. CASE PeekNoError
  BY <1>20, PeekNoErrorEffect, PipesLen, ProducerFields, HandlerFields, ConvertFields,
       AnswerFields DEF Recorded, PeekNoError, HandlerIs, attempt, Now, Attempts, Attempted
<1>21. CASE PeekEnd
  BY <1>21, TellErrorEffect, TellEndEffect, PipesLen, ProducerFields, HandlerFields,
       ConvertFields, AnswerFields DEF Recorded, PeekEnd, PendingError, AnswerIs,
       HandlerIs, attempt, Now, Attempts, Attempted
<1>22. CASE PeekPayload
  BY <1>22, PeekPayloadEffect, PipesLen, ProducerFields, HandlerFields, ConvertFields,
       AnswerFields DEF Recorded, PeekPayload, ProducerIs, ConverterIs, AnswerIs,
       HandlerIs, attempt, Now, Attempts, Attempted
<1>23. CASE PeekKeepAlive
  BY <1>23, PeekKeepAliveEffect, PipesLen, ProducerFields, HandlerFields, ConvertFields,
       AnswerFields DEF Recorded, PeekKeepAlive, AnswerIs, attempt, Now, Attempts,
       Attempted
<1>24. CASE ForwardPayload
  BY <1>24, ForwardPayloadEffect, NothingYet, PipesLen, ProducerFields, HandlerFields,
       ConvertFields, AnswerFields DEF Recorded, ForwardPayload, AnswerIs, ConverterIs,
       ProducerIs, attempt, Now, Attempts, Attempted
<1>25. CASE ForwardError
  BY <1>25, TellErrorEffect, PipesLen, ProducerFields, HandlerFields, ConvertFields,
       AnswerFields DEF Recorded, ForwardError, PendingError, AnswerIs, HandlerIs, attempt,
       Now, Attempts, Attempted
<1>26. CASE ForwardEnd
  BY <1>26, TellErrorEffect, TellEndEffect, PipesLen, ProducerFields, HandlerFields,
       ConvertFields, AnswerFields DEF Recorded, ForwardEnd, PendingError, AnswerIs,
       HandlerIs, attempt, Now, Attempts, Attempted
<1>27. CASE ClientLeaves
  BY <1>27, PipesLen, ProducerFields, HandlerFields, ConvertFields, AnswerFields DEF
       Recorded, ClientLeaves, attempt, Now, Attempts, Attempted
<1>28. CASE PassCancel
  BY <1>28, PipesLen, ProducerFields, HandlerFields, ConvertFields, AnswerFields DEF
       Recorded, PassCancel, attempt, Now, Attempts, Attempted
<1> QED
  BY <1>1, <1>2, <1>3, <1>4, <1>5, <1>6, <1>7, <1>8, <1>9, <1>10, <1>11, <1>12, <1>13,
       <1>14, <1>15, <1>16, <1>17, <1>18, <1>19, <1>20, <1>21, <1>22, <1>23, <1>24, <1>25,
       <1>26, <1>27, <1>28 DEF Next, Producer, Converter, Handler, Forwarder, Provider,
       Attempted

LEMMA AnsweringStep ==
  ASSUME TypeOK, \A b \in Attempted : Recorded(b), Answering, Reading, Unsent, Flowing,
         Closing, Committed, Next
  PROVE  Answering'
<1>1. ASSUME NEW a \in Attempted, Send(a) PROVE Answering'
  BY <1>1, SendEffect DEF Answering, ErrsClosed, Send, Sent, PipeBecomes, attempt
<1>2. ASSUME NEW a \in Attempted, NEW e \in StreamErrors, Break(a, e) PROVE Answering'
  BY <1>2, BreakEffect, NowBecomes DEF Answering, ErrsClosed, Break, Broken
<1>3. ASSUME NEW a \in Attempted, Finish(a) PROVE Answering'
  BY <1>3, FinishEffect, NowBecomes DEF Answering, ErrsClosed, Finish, At
<1>4. ASSUME NEW a \in Attempted, MarkEnd(a) PROVE Answering'
  BY <1>4, MarkEffect DEF Answering, ErrsClosed, MarkEnd, Marked, PipeBecomes, attempt
<1>5. ASSUME NEW a \in Attempted, CloseOut(a) PROVE Answering'
  BY <1>5, CloseEffect, NowBecomes DEF Answering, ErrsClosed, CloseOut, At
<1>6. ASSUME NEW a \in Attempted, Drop(a) PROVE Answering'
  BY <1>6, CloseEffect, NowBecomes DEF Answering, ErrsClosed, Drop, At
<1>7. CASE ReceivePayload
  BY <1>7, ReceivePayloadEffect DEF Answering, ErrsClosed, ReceivePayload, At, PipeBecomes,
       ProducerIs, attempt
<1>8. CASE ReceiveError
  BY <1>8, ReceiveErrorEffect DEF Answering, ErrsClosed, ReceiveError, Retries, At,
       PipeBecomes, ProducerIs, attempt
<1>9. CASE Retry
  BY <1>9, RetryStepEffect, OpenedType, PipesLen DEF Answering, ErrsClosed, Retry,
       ProducerIs, attempt, Now, Reading
<1>10. CASE ReceiveEnd
  BY <1>10, ProducerMoves DEF Answering, ErrsClosed, ReceiveEnd, ProducerIs, attempt
<1>11. CASE Stop
  BY <1>11, ProducerMoves DEF Answering, ErrsClosed, Stop, ProducerIs, attempt
<1>12. CASE SendError
  BY <1>12, ProducerMoves, PipesLen DEF Answering, ErrsClosed, SendError, ProducerIs,
       attempt, Now, Reading
<1>13. CASE CloseErrs
  BY <1>13, ProducerMoves DEF Answering, ErrsClosed, CloseErrs, ProducerIs, attempt
<1>14. CASE CloseData
  BY <1>14, ProducerMoves DEF Answering, ErrsClosed, CloseData, ProducerIs, attempt
<1>15. CASE ConvertReceive
  BY <1>15, ConvertReceiveEffect DEF Answering, ErrsClosed, ConvertReceive, ProducerIs,
       ConverterIs, attempt
<1>16. CASE ConvertEnd
  BY <1>16, ConvertEndEffect, NothingYet DEF Answering, ErrsClosed, ConvertEnd,
       ConverterIs, attempt
<1>17. CASE Execute
  BY <1>17, ExecuteEffect, OpenedType, PipesLen DEF Answering, ErrsClosed, Execute,
       ProducerIs, HandlerIs, attempt, Now, Reading
<1>18. CASE LeaveClient
  BY <1>18, ReturnEffect DEF Answering, ErrsClosed, LeaveClient, HandlerIs, attempt
<1>19. CASE PeekError
  BY <1>19, TellErrorEffect DEF Answering, ErrsClosed, PeekError, PendingError, AnswerIs,
       HandlerIs, attempt
<1>20. CASE PeekNoError
  BY <1>20, PeekNoErrorEffect DEF Answering, ErrsClosed, PeekNoError, HandlerIs, attempt
<1>21. CASE PeekEnd
  BY <1>21, TellErrorEffect, TellEndEffect DEF Answering, ErrsClosed, PeekEnd,
       PendingError, AnswerIs, HandlerIs, attempt
<1>22. CASE PeekPayload
  BY <1>22, PeekPayloadEffect DEF Answering, ErrsClosed, PeekPayload, ProducerIs,
       ConverterIs, AnswerIs, HandlerIs, attempt
<1>23. CASE PeekKeepAlive
  BY <1>23, PeekKeepAliveEffect DEF Answering, ErrsClosed, PeekKeepAlive, AnswerIs, attempt
<1>24. CASE ForwardPayload
  BY <1>24, ForwardPayloadEffect, NothingYet DEF Answering, ErrsClosed, ForwardPayload,
       AnswerIs, ConverterIs, ProducerIs, attempt
<1>25. CASE ForwardError
  BY <1>25, TellErrorEffect DEF Answering, ErrsClosed, ForwardError, PendingError,
       AnswerIs, HandlerIs, attempt
<1>26. CASE ForwardEnd
  BY <1>26, TellErrorEffect, TellEndEffect DEF Answering, ErrsClosed, ForwardEnd,
       PendingError, AnswerIs, HandlerIs, attempt
<1>27. CASE ClientLeaves
  BY <1>27 DEF Answering, ErrsClosed, ClientLeaves, attempt
<1>28. CASE PassCancel
  BY <1>28 DEF Answering, ErrsClosed, PassCancel, attempt
<1> QED
  BY <1>1, <1>2, <1>3, <1>4, <1>5, <1>6, <1>7, <1>8, <1>9, <1>10, <1>11, <1>12, <1>13,
       <1>14, <1>15, <1>16, <1>17, <1>18, <1>19, <1>20, <1>21, <1>22, <1>23, <1>24, <1>25,
       <1>26, <1>27, <1>28 DEF Next, Producer, Converter, Handler, Forwarder, Provider,
       Attempted

LEMMA ReadingStep ==
  ASSUME TypeOK, \A b \in Attempted : Recorded(b), Answering, Reading, Unsent, Flowing,
         Closing, Committed, Next
  PROVE  Reading'
<1>1. ASSUME NEW a \in Attempted, Send(a) PROVE Reading'
  <2> DEFINE p == Sent(pipes[a])
  <2>1. /\ PipeBecomes(a, p) /\ pipes[a] \in Pipes
        /\ p.pc = "offer" /\ p.error = pipes[a].error /\ p.sent = pipes[a].sent + 1
        /\ p.mark = pipes[a].mark
        /\ pipes[a].pc = "read" /\ pipes[a].mark = "none"
    BY <1>1, SendEffect, PipesLen DEF Sent, Send
  <2> HIDE DEF p
  <2>2. /\ attempt' = attempt /\ attempt \in Attempted /\ Attempted' = Attempted
        /\ pipes # <<>> /\ pipes' # <<>>
        /\ Now' = IF a = attempt THEN p ELSE Now
        /\ a = attempt => pipes[a] = Now
        /\ \A b \in Attempted : pipes'[b] = IF b = a THEN p ELSE pipes[b]
    BY <2>1, NowBecomes
  <2>3. Recorded(a)
    OBVIOUS
  <2>4. CASE a = attempt
    BY <1>1, <2>1, <2>2, <2>3, <2>4 DEF Recorded, Reading, Send
  <2>5. CASE a # attempt
    BY <1>1, <2>2, <2>5 DEF Reading, Send
  <2> QED
    BY <2>4, <2>5
<1>2. ASSUME NEW a \in Attempted, NEW e \in StreamErrors, Break(a, e) PROVE Reading'
  <2> DEFINE p == Broken(pipes[a], e)
  <2>1. /\ PipeBecomes(a, p) /\ pipes[a] \in Pipes
        /\ p.pc = "offer" /\ p.error = e /\ p.sent = pipes[a].sent /\ p.mark = "failed"
        /\ pipes[a].pc = "read" /\ pipes[a].mark = "none" /\ e # "none"
    BY <1>2, BreakEffect, PipesLen DEF Broken, StreamErrors, Break
  <2> HIDE DEF p
  <2>2. /\ attempt' = attempt /\ attempt \in Attempted /\ Attempted' = Attempted
        /\ pipes # <<>> /\ pipes' # <<>>
        /\ Now' = IF a = attempt THEN p ELSE Now
        /\ a = attempt => pipes[a] = Now
        /\ \A b \in Attempted : pipes'[b] = IF b = a THEN p ELSE pipes[b]
    BY <2>1, NowBecomes
  <2>3. Recorded(a)
    OBVIOUS
  <2>4. CASE a = attempt
    BY <1>2, <2>1, <2>2, <2>3, <2>4 DEF Recorded, Reading, Break
  <2>5. CASE a # attempt
    BY <1>2, <2>2, <2>5 DEF Reading, Break
  <2> QED
    BY <2>4, <2>5
<1>3. ASSUME NEW a \in Attempted, Finish(a) PROVE Reading'
  <2> DEFINE p == At(pipes[a], "ended")
  <2>1. /\ PipeBecomes(a, p) /\ pipes[a] \in Pipes
        /\ p.pc = "ended" /\ p.error = pipes[a].error /\ p.sent = pipes[a].sent
        /\ p.mark = pipes[a].mark
        /\ pipes[a].pc = "read"
    BY <1>3, FinishEffect, PipesLen DEF At, Finish
  <2> HIDE DEF p
  <2>2. /\ attempt' = attempt /\ attempt \in Attempted /\ Attempted' = Attempted
        /\ pipes # <<>> /\ pipes' # <<>>
        /\ Now' = IF a = attempt THEN p ELSE Now
        /\ a = attempt => pipes[a] = Now
        /\ \A b \in Attempted : pipes'[b] = IF b = a THEN p ELSE pipes[b]
    BY <2>1, NowBecomes
  <2>3. Recorded(a)
    OBVIOUS
  <2>4. CASE a = attempt
    BY <1>3, <2>1, <2>2, <2>3, <2>4 DEF Recorded, Reading, Finish
  <2>5. CASE a # attempt
    BY <1>3, <2>2, <2>5 DEF Reading, Finish
  <2> QED
    BY <2>4, <2>5
<1>4. ASSUME NEW a \in Attempted, MarkEnd(a) PROVE Reading'
  <2> DEFINE p == Marked(pipes[a])
  <2>1. /\ PipeBecomes(a, p) /\ pipes[a] \in Pipes
        /\ p.pc = "marked" /\ p.error = pipes[a].error /\ p.sent = pipes[a].sent
        /\ p.mark = IF pipes[a].mark = "none" THEN "ok" ELSE pipes[a].mark
        /\ pipes[a].pc = "ended"
    BY <1>4, MarkEffect, PipesLen DEF Marked, MarkEnd
  <2> HIDE DEF p
  <2>2. /\ attempt' = attempt /\ attempt \in Attempted /\ Attempted' = Attempted
        /\ pipes # <<>> /\ pipes' # <<>>
        /\ Now' = IF a = attempt THEN p ELSE Now
        /\ a = attempt => pipes[a] = Now
        /\ \A b \in Attempted : pipes'[b] = IF b = a THEN p ELSE pipes[b]
    BY <2>1, NowBecomes
  <2>3. Recorded(a)
    OBVIOUS
  <2>4. CASE a = attempt
    BY <1>4, <2>1, <2>2, <2>3, <2>4 DEF Recorded, Reading, MarkEnd
  <2>5. CASE a # attempt
    BY <1>4, <2>2, <2>5 DEF Reading, MarkEnd
  <2> QED
    BY <2>4, <2>5
<1>5. ASSUME NEW a \in Attempted, CloseOut(a) PROVE Reading'
  <2> DEFINE p == At(pipes[a], "closed")
  <2>1. /\ PipeBecomes(a, p) /\ pipes[a] \in Pipes
        /\ p.pc = "closed" /\ p.error = pipes[a].error /\ p.sent = pipes[a].sent
        /\ p.mark = pipes[a].mark
        /\ pipes[a].pc = "marked"
    BY <1>5, CloseEffect, PipesLen DEF At, CloseOut
  <2> HIDE DEF p
  <2>2. /\ attempt' = attempt /\ attempt \in Attempted /\ Attempted' = Attempted
        /\ pipes # <<>> /\ pipes' # <<>>
        /\ Now' = IF a = attempt THEN p ELSE Now
        /\ a = attempt => pipes[a] = Now
        /\ \A b \in Attempted : pipes'[b] = IF b = a THEN p ELSE pipes[b]
    BY <2>1, NowBecomes
  <2>3. Recorded(a)
    OBVIOUS
  <2>4. CASE a = attempt
    BY <1>5, <2>1, <2>2, <2>3, <2>4 DEF Recorded, Reading, CloseOut
  <2>5. CASE a # attempt
    BY <1>5, <2>2, <2>5 DEF Reading, CloseOut
  <2> QED
    BY <2>4, <2>5
<1>6. ASSUME NEW a \in Attempted, Drop(a) PROVE Reading'
  <2> DEFINE p == At(pipes[a], "closed")
  <2>1. /\ PipeBecomes(a, p) /\ pipes[a] \in Pipes
        /\ p.pc = "closed" /\ p.error = pipes[a].error /\ p.sent = pipes[a].sent
        /\ p.mark = pipes[a].mark
        /\ pipes[a].pc = "offer" /\ cancelled
    BY <1>6, CloseEffect, PipesLen DEF At, Drop
  <2> HIDE DEF p
  <2>2. /\ attempt' = attempt /\ attempt \in Attempted /\ Attempted' = Attempted
        /\ pipes # <<>> /\ pipes' # <<>>
        /\ Now' = IF a = attempt THEN p ELSE Now
        /\ a = attempt => pipes[a] = Now
        /\ \A b \in Attempted : pipes'[b] = IF b = a THEN p ELSE pipes[b]
    BY <2>1, NowBecomes
  <2>3. Recorded(a)
    OBVIOUS
  <2>4. CASE a = attempt
    BY <1>6, <2>1, <2>2, <2>3, <2>4 DEF Recorded, Reading, Drop
  <2>5. CASE a # attempt
    BY <1>6, <2>2, <2>5 DEF Reading, Drop
  <2> QED
    BY <2>4, <2>5
<1>7. CASE ReceivePayload
  <2>1. /\ PipeBecomes(attempt, At(Now, "read")) /\ attempt \in Attempted /\ pipes[attempt] = Now
        /\ Now.pc = "offer" /\ Now.error = "none" /\ Now.sent >= 1 /\ Now.mark # "failed"
    BY <1>7, ReceivePayloadEffect, PipesLen DEF ReceivePayload, Now, Recorded
  <2>2. /\ attempt' = attempt /\ pipes' # <<>> /\ pipes # <<>>
        /\ Now'.error = "none" /\ Now'.mark = Now.mark
    BY <2>1, NowBecomes DEF At
  <2>3. /\ producer.pc = "receive" /\ UNCHANGED <<errBuf, cancelled>> /\ producer.error = "none"
        /\ errBuf = "none" /\ attempt <= producer.retries + 1
    BY <1>7 DEF ReceivePayload, Reading
  <2>4. CASE ProducerIs("data", TRUE, producer.retries, Now.sent, producer.error)
    BY <2>1, <2>2, <2>3, <2>4 DEF Reading, ProducerIs, StreamErrors
  <2>5. CASE ProducerIs("error", producer.sentPayload, producer.retries, producer.chunk, "invalid")
    BY <2>1, <2>2, <2>3, <2>5 DEF Reading, ProducerIs, StreamErrors
  <2> QED
    BY <1>7, <2>4, <2>5, ReceivePayloadEffect
<1>8. CASE ReceiveError
  BY <1>8, ReceiveErrorEffect, PipesLen, ProducerFields, HandlerFields, ConvertFields,
       AnswerFields, PipeFields, StreamAssumption DEF Reading, ReceiveError, Retries, At,
       PipeBecomes, ProducerIs, attempt, Now, Attempts, Attempted, Answering, Unsent,
       ErrsClosed, DataClosed, Recorded, Flowing, InHand, Delivered, Errors, StreamErrors
<1>9. CASE Retry
  <2>1. /\ producer.pc = "retry" /\ UNCHANGED <<errBuf, cancelled>>
        /\ producer.error \notin {"none", "invalid"} /\ ~producer.sentPayload
        /\ attempt <= producer.retries /\ errBuf = "none" /\ pipes # <<>>
    BY <1>9 DEF Retry, Reading
  <2>2. attempt \in Nat /\ producer.retries \in Nat /\ producer.error \in Errors \cup {"none"}
    BY PipesLen, ProducerFields
  <2>3. ASSUME NEW p \in Opened, attempt' = attempt + 1, pipes' # <<>>, Now' = p,
               ProducerIs("receive", producer.sentPayload, producer.retries, producer.chunk, "none")
        PROVE  Reading'
    BY <2>1, <2>2, <2>3, OpenedType DEF Reading, ProducerIs, StreamErrors
  <2>4. ASSUME UNCHANGED pipes,
               ProducerIs("error", producer.sentPayload, producer.retries, producer.chunk, "refused")
        PROVE  Reading'
    <3>1. Now' = Now /\ attempt' = attempt /\ Now.mark = "failed"
      BY <2>1, <2>2, <2>4 DEF Now, attempt, Reading, Errors
    <3> QED
      BY <2>1, <2>2, <2>4, <3>1 DEF Reading, ProducerIs
  <2> QED
    BY <1>9, <2>3, <2>4, RetryStepEffect
<1>10. CASE ReceiveEnd
  BY <1>10, ProducerMoves, PipesLen DEF Reading, ReceiveEnd, ProducerIs, attempt, Now
<1>11. CASE Stop
  BY <1>11, ProducerMoves, PipesLen DEF Reading, Stop, ProducerIs, attempt, Now
<1>12. CASE SendError
  BY <1>12, ProducerMoves, PipesLen DEF Reading, SendError, ProducerIs, attempt, Now
<1>13. CASE CloseErrs
  BY <1>13, ProducerMoves, PipesLen DEF Reading, CloseErrs, ProducerIs, attempt, Now
<1>14. CASE CloseData
  BY <1>14, ProducerMoves, PipesLen DEF Reading, CloseData, ProducerIs, attempt, Now
<1>15. CASE ConvertReceive
  BY <1>15, ConvertReceiveEffect, PipesLen DEF Reading, ConvertReceive, ProducerIs,
       ConverterIs, attempt, Now
<1>16. CASE ConvertEnd
  BY <1>16, ConvertEndEffect, NothingYet, PipesLen DEF Reading, ConvertEnd, ConverterIs,
       attempt, Now
<1>17. CASE Execute
  BY <1>17, ExecuteEffect, OpenedType, PipesLen, ProducerFields, HandlerFields,
       ConvertFields, AnswerFields, PipeFields, StreamAssumption DEF Reading, Execute,
       ProducerIs, HandlerIs, attempt, Now, Attempts, Attempted, Answering, Unsent,
       ErrsClosed, DataClosed, Recorded, Flowing, InHand, Delivered, Errors, StreamErrors
<1>18. CASE LeaveClient
  BY <1>18, ReturnEffect, PipesLen DEF Reading, LeaveClient, HandlerIs, attempt, Now
<1>19. CASE PeekError
  BY <1>19, TellErrorEffect, PipesLen DEF Reading, PeekError, PendingError, AnswerIs,
       HandlerIs, attempt, Now
<1>20. CASE PeekNoError
  BY <1>20, PeekNoErrorEffect, PipesLen DEF Reading, PeekNoError, HandlerIs, attempt, Now
<1>21. CASE PeekEnd
  BY <1>21, TellErrorEffect, TellEndEffect, PipesLen DEF Reading, PeekEnd, PendingError,
       AnswerIs, HandlerIs, attempt, Now
<1>22. CASE PeekPayload
  BY <1>22, PeekPayloadEffect, PipesLen DEF Reading, PeekPayload, ProducerIs, ConverterIs,
       AnswerIs, HandlerIs, attempt, Now
<1>23. CASE PeekKeepAlive
  BY <1>23, PeekKeepAliveEffect, PipesLen DEF Reading, PeekKeepAlive, AnswerIs, attempt,
       Now
<1>24. CASE ForwardPayload
  BY <1>24, ForwardPayloadEffect, NothingYet, PipesLen DEF Reading, ForwardPayload,
       AnswerIs, ConverterIs, ProducerIs, attempt, Now
<1>25. CASE ForwardError
  BY <1>25, TellErrorEffect, PipesLen DEF Reading, ForwardError, PendingError, AnswerIs,
       HandlerIs, attempt, Now
<1>26. CASE ForwardEnd
  BY <1>26, TellErrorEffect, TellEndEffect, PipesLen DEF Reading, ForwardEnd, PendingError,
       AnswerIs, HandlerIs, attempt, Now
<1>27. CASE ClientLeaves
  BY <1>27, PipesLen DEF Reading, ClientLeaves, attempt, Now
<1>28. CASE PassCancel
  BY <1>28, PipesLen DEF Reading, PassCancel, attempt, Now
<1> QED
  BY <1>1, <1>2, <1>3, <1>4, <1>5, <1>6, <1>7, <1>8, <1>9, <1>10, <1>11, <1>12, <1>13,
       <1>14, <1>15, <1>16, <1>17, <1>18, <1>19, <1>20, <1>21, <1>22, <1>23, <1>24, <1>25,
       <1>26, <1>27, <1>28 DEF Next, Producer, Converter, Handler, Forwarder, Provider,
       Attempted

LEMMA UnsentStep ==
  ASSUME TypeOK, \A b \in Attempted : Recorded(b), Answering, Reading, Unsent, Flowing,
         Closing, Committed, Next
  PROVE  Unsent'
<1>1. ASSUME NEW a \in Attempted, Send(a) PROVE Unsent'
  BY <1>1, SendEffect DEF Unsent, DataClosed, Send, Sent, PipeBecomes, attempt
<1>2. ASSUME NEW a \in Attempted, NEW e \in StreamErrors, Break(a, e) PROVE Unsent'
  BY <1>2, BreakEffect DEF Unsent, DataClosed, Break, Broken, StreamErrors, PipeBecomes,
       attempt
<1>3. ASSUME NEW a \in Attempted, Finish(a) PROVE Unsent'
  BY <1>3, AtEffect DEF Unsent, DataClosed, Finish, At, PipeBecomes, attempt
<1>4. ASSUME NEW a \in Attempted, MarkEnd(a) PROVE Unsent'
  BY <1>4, MarkEffect DEF Unsent, DataClosed, MarkEnd, Marked, PipeBecomes, attempt
<1>5. ASSUME NEW a \in Attempted, CloseOut(a) PROVE Unsent'
  BY <1>5, AtEffect DEF Unsent, DataClosed, CloseOut, At, PipeBecomes, attempt
<1>6. ASSUME NEW a \in Attempted, Drop(a) PROVE Unsent'
  BY <1>6, AtEffect DEF Unsent, DataClosed, Drop, At, PipeBecomes, attempt
<1>7. CASE ReceivePayload
  BY <1>7, ReceivePayloadEffect DEF Unsent, DataClosed, ReceivePayload, At, PipeBecomes,
       ProducerIs, attempt
<1>8. CASE ReceiveError
  BY <1>8, ReceiveErrorEffect DEF Unsent, DataClosed, ReceiveError, Retries, At,
       PipeBecomes, ProducerIs, attempt
<1>9. CASE Retry
  BY <1>9, RetryStepEffect, OpenedType DEF Unsent, DataClosed, Retry, ProducerIs, attempt
<1>10. CASE ReceiveEnd
  BY <1>10, ProducerMoves DEF Unsent, DataClosed, ReceiveEnd, ProducerIs, attempt
<1>11. CASE Stop
  BY <1>11, ProducerMoves DEF Unsent, DataClosed, Stop, ProducerIs, attempt
<1>12. CASE SendError
  BY <1>12, ProducerMoves DEF Unsent, DataClosed, SendError, ProducerIs, attempt
<1>13. CASE CloseErrs
  BY <1>13, ProducerMoves DEF Unsent, DataClosed, CloseErrs, ProducerIs, attempt
<1>14. CASE CloseData
  BY <1>14, ProducerMoves DEF Unsent, DataClosed, CloseData, ProducerIs, attempt
<1>15. CASE ConvertReceive
  BY <1>15, ConvertReceiveEffect DEF Unsent, DataClosed, ConvertReceive, ProducerIs,
       ConverterIs, attempt
<1>16. CASE ConvertEnd
  BY <1>16, ConvertEndEffect, NothingYet DEF Unsent, DataClosed, ConvertEnd, ConverterIs,
       attempt
<1>17. CASE Execute
  BY <1>17, ExecuteEffect, OpenedType, PipesLen DEF Unsent, DataClosed, Execute,
       ProducerIs, HandlerIs, attempt, Now, Reading
<1>18. CASE LeaveClient
  BY <1>18, ReturnEffect DEF Unsent, DataClosed, LeaveClient, HandlerIs, attempt
<1>19. CASE PeekError
  BY <1>19, TellErrorEffect DEF Unsent, DataClosed, PeekError, PendingError, AnswerIs,
       HandlerIs, attempt
<1>20. CASE PeekNoError
  BY <1>20, PeekNoErrorEffect DEF Unsent, DataClosed, PeekNoError, HandlerIs, attempt
<1>21. CASE PeekEnd
  BY <1>21, TellErrorEffect, TellEndEffect DEF Unsent, DataClosed, PeekEnd, PendingError,
       AnswerIs, HandlerIs, attempt
<1>22. CASE PeekPayload
  BY <1>22, PeekPayloadEffect, PipesLen, ProducerFields, HandlerFields, ConvertFields,
       AnswerFields, PipeFields DEF Unsent, DataClosed, PeekPayload, ProducerIs,
       ConverterIs, AnswerIs, HandlerIs, attempt, Now, Attempts, Attempted, Reading,
       Answering, ErrsClosed
<1>23. CASE PeekKeepAlive
  BY <1>23, PeekKeepAliveEffect DEF Unsent, DataClosed, PeekKeepAlive, AnswerIs, attempt
<1>24. CASE ForwardPayload
  BY <1>24, ForwardPayloadEffect, NothingYet DEF Unsent, DataClosed, ForwardPayload,
       AnswerIs, ConverterIs, ProducerIs, attempt
<1>25. CASE ForwardError
  BY <1>25, TellErrorEffect DEF Unsent, DataClosed, ForwardError, PendingError, AnswerIs,
       HandlerIs, attempt
<1>26. CASE ForwardEnd
  BY <1>26, TellErrorEffect, TellEndEffect DEF Unsent, DataClosed, ForwardEnd,
       PendingError, AnswerIs, HandlerIs, attempt
<1>27. CASE ClientLeaves
  BY <1>27 DEF Unsent, DataClosed, ClientLeaves, attempt
<1>28. CASE PassCancel
  BY <1>28 DEF Unsent, DataClosed, PassCancel, attempt
<1> QED
  BY <1>1, <1>2, <1>3, <1>4, <1>5, <1>6, <1>7, <1>8, <1>9, <1>10, <1>11, <1>12, <1>13,
       <1>14, <1>15, <1>16, <1>17, <1>18, <1>19, <1>20, <1>21, <1>22, <1>23, <1>24, <1>25,
       <1>26, <1>27, <1>28 DEF Next, Producer, Converter, Handler, Forwarder, Provider,
       Attempted

LEMMA FlowingStep ==
  ASSUME TypeOK, \A b \in Attempted : Recorded(b), Answering, Reading, Unsent, Flowing,
         Closing, Committed, Next
  PROVE  Flowing'
<1>1. ASSUME NEW a \in Attempted, Send(a) PROVE Flowing'
  <2> DEFINE p == Sent(pipes[a])
  <2>1. /\ PipeBecomes(a, p) /\ pipes[a] \in Pipes
        /\ p.pc = "offer" /\ p.error = pipes[a].error /\ p.sent = pipes[a].sent + 1
        /\ p.mark = pipes[a].mark
        /\ pipes[a].pc = "read" /\ pipes[a].mark = "none"
    BY <1>1, SendEffect, PipesLen DEF Sent, Send
  <2> HIDE DEF p
  <2>2. /\ attempt' = attempt /\ attempt \in Attempted /\ Attempted' = Attempted
        /\ pipes # <<>> /\ pipes' # <<>>
        /\ Now' = IF a = attempt THEN p ELSE Now
        /\ a = attempt => pipes[a] = Now
        /\ \A b \in Attempted : pipes'[b] = IF b = a THEN p ELSE pipes[b]
    BY <2>1, NowBecomes
  <2>3. Recorded(a)
    OBVIOUS
  <2>4. /\ UNCHANGED <<handler, producer, convert, answer>> /\ InHand' = InHand
        /\ InHand \in Nat
    BY <1>1, InHandType DEF Send, InHand, Delivered
  <2>5. CASE a = attempt
    <3>1. Now' = p /\ Now = pipes[a] /\ Now.sent \in Nat
      BY <2>1, <2>2, <2>5, PipeFields
    <3> QED
      BY <2>1, <2>2, <2>3, <2>4, <3>1 DEF Recorded, Flowing
  <2>6. CASE a # attempt
    BY <2>2, <2>4, <2>6 DEF Flowing
  <2> QED
    BY <2>5, <2>6
<1>2. ASSUME NEW a \in Attempted, NEW e \in StreamErrors, Break(a, e) PROVE Flowing'
  <2> DEFINE p == Broken(pipes[a], e)
  <2>1. /\ PipeBecomes(a, p) /\ pipes[a] \in Pipes
        /\ p.pc = "offer" /\ p.error = e /\ p.sent = pipes[a].sent /\ p.mark = "failed"
        /\ pipes[a].pc = "read" /\ pipes[a].mark = "none" /\ e # "none"
    BY <1>2, BreakEffect, PipesLen DEF Broken, StreamErrors, Break
  <2> HIDE DEF p
  <2>2. /\ attempt' = attempt /\ attempt \in Attempted /\ Attempted' = Attempted
        /\ pipes # <<>> /\ pipes' # <<>>
        /\ Now' = IF a = attempt THEN p ELSE Now
        /\ a = attempt => pipes[a] = Now
        /\ \A b \in Attempted : pipes'[b] = IF b = a THEN p ELSE pipes[b]
    BY <2>1, NowBecomes
  <2>3. Recorded(a)
    OBVIOUS
  <2>4. /\ UNCHANGED <<handler, producer, convert, answer>> /\ InHand' = InHand
        /\ InHand \in Nat
    BY <1>2, InHandType DEF Break, InHand, Delivered
  <2>5. CASE a = attempt
    <3>1. Now' = p /\ Now = pipes[a] /\ Now.sent \in Nat
      BY <2>1, <2>2, <2>5, PipeFields
    <3> QED
      BY <2>1, <2>2, <2>3, <2>4, <3>1 DEF Recorded, Flowing
  <2>6. CASE a # attempt
    BY <2>2, <2>4, <2>6 DEF Flowing
  <2> QED
    BY <2>5, <2>6
<1>3. ASSUME NEW a \in Attempted, Finish(a) PROVE Flowing'
  <2> DEFINE p == At(pipes[a], "ended")
  <2>1. /\ PipeBecomes(a, p) /\ pipes[a] \in Pipes
        /\ p.pc = "ended" /\ p.error = pipes[a].error /\ p.sent = pipes[a].sent
        /\ p.mark = pipes[a].mark
        /\ pipes[a].pc = "read"
    BY <1>3, FinishEffect, PipesLen DEF At, Finish
  <2> HIDE DEF p
  <2>2. /\ attempt' = attempt /\ attempt \in Attempted /\ Attempted' = Attempted
        /\ pipes # <<>> /\ pipes' # <<>>
        /\ Now' = IF a = attempt THEN p ELSE Now
        /\ a = attempt => pipes[a] = Now
        /\ \A b \in Attempted : pipes'[b] = IF b = a THEN p ELSE pipes[b]
    BY <2>1, NowBecomes
  <2>3. Recorded(a)
    OBVIOUS
  <2>4. /\ UNCHANGED <<handler, producer, convert, answer>> /\ InHand' = InHand
        /\ InHand \in Nat
    BY <1>3, InHandType DEF Finish, InHand, Delivered
  <2>5. CASE a = attempt
    <3>1. Now' = p /\ Now = pipes[a] /\ Now.sent \in Nat
      BY <2>1, <2>2, <2>5, PipeFields
    <3> QED
      BY <2>1, <2>2, <2>3, <2>4, <3>1 DEF Recorded, Flowing
  <2>6. CASE a # attempt
    BY <2>2, <2>4, <2>6 DEF Flowing
  <2> QED
    BY <2>5, <2>6
<1>4. ASSUME NEW a \in Attempted, MarkEnd(a) PROVE Flowing'
  <2> DEFINE p == Marked(pipes[a])
  <2>1. /\ PipeBecomes(a, p) /\ pipes[a] \in Pipes
        /\ p.pc = "marked" /\ p.error = pipes[a].error /\ p.sent = pipes[a].sent
        /\ p.mark = IF pipes[a].mark = "none" THEN "ok" ELSE pipes[a].mark
        /\ pipes[a].pc = "ended"
    BY <1>4, MarkEffect, PipesLen DEF Marked, MarkEnd
  <2> HIDE DEF p
  <2>2. /\ attempt' = attempt /\ attempt \in Attempted /\ Attempted' = Attempted
        /\ pipes # <<>> /\ pipes' # <<>>
        /\ Now' = IF a = attempt THEN p ELSE Now
        /\ a = attempt => pipes[a] = Now
        /\ \A b \in Attempted : pipes'[b] = IF b = a THEN p ELSE pipes[b]
    BY <2>1, NowBecomes
  <2>3. Recorded(a)
    OBVIOUS
  <2>4. /\ UNCHANGED <<handler, producer, convert, answer>> /\ InHand' = InHand
        /\ InHand \in Nat
    BY <1>4, InHandType DEF MarkEnd, InHand, Delivered
  <2>5. CASE a = attempt
    <3>1. Now' = p /\ Now = pipes[a] /\ Now.sent \in Nat
      BY <2>1, <2>2, <2>5, PipeFields
    <3> QED
      BY <2>1, <2>2, <2>3, <2>4, <3>1 DEF Recorded, Flowing
  <2>6. CASE a # attempt
    BY <2>2, <2>4, <2>6 DEF Flowing
  <2> QED
    BY <2>5, <2>6
<1>5. ASSUME NEW a \in Attempted, CloseOut(a) PROVE Flowing'
  <2> DEFINE p == At(pipes[a], "closed")
  <2>1. /\ PipeBecomes(a, p) /\ pipes[a] \in Pipes
        /\ p.pc = "closed" /\ p.error = pipes[a].error /\ p.sent = pipes[a].sent
        /\ p.mark = pipes[a].mark
        /\ pipes[a].pc = "marked"
    BY <1>5, CloseEffect, PipesLen DEF At, CloseOut
  <2> HIDE DEF p
  <2>2. /\ attempt' = attempt /\ attempt \in Attempted /\ Attempted' = Attempted
        /\ pipes # <<>> /\ pipes' # <<>>
        /\ Now' = IF a = attempt THEN p ELSE Now
        /\ a = attempt => pipes[a] = Now
        /\ \A b \in Attempted : pipes'[b] = IF b = a THEN p ELSE pipes[b]
    BY <2>1, NowBecomes
  <2>3. Recorded(a)
    OBVIOUS
  <2>4. /\ UNCHANGED <<handler, producer, convert, answer>> /\ InHand' = InHand
        /\ InHand \in Nat
    BY <1>5, InHandType DEF CloseOut, InHand, Delivered
  <2>5. CASE a = attempt
    <3>1. Now' = p /\ Now = pipes[a] /\ Now.sent \in Nat
      BY <2>1, <2>2, <2>5, PipeFields
    <3> QED
      BY <2>1, <2>2, <2>3, <2>4, <3>1 DEF Recorded, Flowing
  <2>6. CASE a # attempt
    BY <2>2, <2>4, <2>6 DEF Flowing
  <2> QED
    BY <2>5, <2>6
<1>6. ASSUME NEW a \in Attempted, Drop(a) PROVE Flowing'
  <2> DEFINE p == At(pipes[a], "closed")
  <2>1. /\ PipeBecomes(a, p) /\ pipes[a] \in Pipes
        /\ p.pc = "closed" /\ p.error = pipes[a].error /\ p.sent = pipes[a].sent
        /\ p.mark = pipes[a].mark
        /\ pipes[a].pc = "offer" /\ cancelled
    BY <1>6, CloseEffect, PipesLen DEF At, Drop
  <2> HIDE DEF p
  <2>2. /\ attempt' = attempt /\ attempt \in Attempted /\ Attempted' = Attempted
        /\ pipes # <<>> /\ pipes' # <<>>
        /\ Now' = IF a = attempt THEN p ELSE Now
        /\ a = attempt => pipes[a] = Now
        /\ \A b \in Attempted : pipes'[b] = IF b = a THEN p ELSE pipes[b]
    BY <2>1, NowBecomes
  <2>3. Recorded(a)
    OBVIOUS
  <2>4. /\ UNCHANGED <<handler, producer, convert, answer>> /\ InHand' = InHand
        /\ InHand \in Nat
    BY <1>6, InHandType DEF Drop, InHand, Delivered
  <2>5. CASE a = attempt
    <3>1. Now' = p /\ Now = pipes[a] /\ Now.sent \in Nat
      BY <2>1, <2>2, <2>5, PipeFields
    <3> QED
      BY <2>1, <2>2, <2>3, <2>4, <3>1 DEF Recorded, Flowing
  <2>6. CASE a # attempt
    BY <2>2, <2>4, <2>6 DEF Flowing
  <2> QED
    BY <2>5, <2>6
<1>7. CASE ReceivePayload
  <2>1. /\ PipeBecomes(attempt, At(Now, "read")) /\ attempt \in Attempted /\ pipes[attempt] = Now
        /\ Now.pc = "offer" /\ Now.error = "none" /\ Now.mark # "ok" /\ pipes # <<>>
    BY <1>7, ReceivePayloadEffect, PipesLen DEF ReceivePayload, Now, Recorded
  <2>2. /\ attempt' = attempt /\ Now'.pc = "read" /\ Now'.sent = Now.sent /\ Now'.mark # "ok"
    BY <2>1, NowBecomes DEF At
  <2>3. /\ producer.pc = "receive" /\ UNCHANGED <<handler, convert, answer>>
        /\ Delivered' = Delivered /\ InHand = Delivered /\ Delivered \in Nat
    BY <1>7, InHandType DEF ReceivePayload, InHand, Delivered
  <2>4. CASE ProducerIs("data", TRUE, producer.retries, Now.sent, producer.error)
    <3>1. InHand' = InHand + 1 /\ producer'.pc = "data" /\ producer'.chunk = Now.sent
      BY <2>3, <2>4 DEF InHand, ProducerIs
    <3> QED
      BY <2>1, <2>2, <2>3, <3>1 DEF Flowing
  <2>5. CASE ProducerIs("error", producer.sentPayload, producer.retries, producer.chunk, "invalid")
    <3>1. InHand' = InHand /\ producer'.pc = "error"
      BY <2>3, <2>5 DEF InHand, ProducerIs
    <3> QED
      BY <2>1, <2>2, <2>3, <3>1 DEF Flowing
  <2> QED
    BY <1>7, <2>4, <2>5, ReceivePayloadEffect
<1>8. CASE ReceiveError
  <2> DEFINE pc == IF Now.pc = "canned" THEN "closed" ELSE "read"
  <2>1. /\ PipeBecomes(attempt, At(Now, pc)) /\ attempt \in Attempted /\ pipes # <<>>
        /\ producer'.pc \in {"retry", "error"} /\ producer.pc = "receive"
    BY <1>8, ReceiveErrorEffect, PipesLen DEF ReceiveError, ProducerIs
  <2>2. attempt' = attempt /\ Now'.sent = Now.sent
    BY <2>1, NowBecomes DEF At
  <2>3. UNCHANGED <<handler, convert, answer>> /\ InHand' = InHand
    BY <1>8, <2>1 DEF ReceiveError, InHand, Delivered
  <2> QED
    BY <2>1, <2>2, <2>3 DEF Flowing
<1>9. CASE Retry
  <2>1. /\ UNCHANGED <<handler, convert, answer>> /\ producer.pc = "retry"
        /\ ~producer.sentPayload /\ convert.pc = "off" /\ Delivered' = Delivered
        /\ answer.got = <<>> /\ convert.chunk = <<>>
    BY <1>9 DEF Retry, Delivered, Reading, Unsent
  <2>2. Delivered = 0
    BY <2>1, NothingYet, AnswerFields, ConvertFields DEF Delivered
  <2>3. CASE /\ \E p \in Opened : Now' = p
             /\ ProducerIs("receive", producer.sentPayload, producer.retries, producer.chunk, "none")
    <3>1. producer'.pc = "receive" /\ InHand' = 0
      BY <2>2, <2>1, <2>3 DEF ProducerIs, InHand
    <3>2. /\ Now'.sent \in {0, 1} /\ Now'.mark # "ok" /\ Now'.pc \in {"offer", "ended", "canned"}
          /\ Now'.pc = "offer" => Now'.sent = 1
          /\ Now'.pc # "offer" => Now'.sent = 0
      BY <2>3, OpenedType
    <3> QED
      BY <2>2, <2>1, <3>1, <3>2 DEF Flowing
  <2>4. CASE /\ UNCHANGED pipes
             /\ ProducerIs("error", producer.sentPayload, producer.retries, producer.chunk, "refused")
    <3>1. producer'.pc = "error" /\ InHand' = InHand /\ attempt' = attempt /\ Now' = Now
      BY <2>1, <2>4 DEF ProducerIs, InHand, attempt, Now
    <3> QED
      BY <2>1, <2>4, <3>1 DEF Flowing
  <2> QED
    BY <1>9, <2>3, <2>4, RetryStepEffect
<1>10. CASE ReceiveEnd
  BY <1>10, ProducerMoves, PipesLen DEF Flowing, InHand, Delivered, ReceiveEnd, ProducerIs,
       attempt, Now, Reading
<1>11. CASE Stop
  <2>1. /\ UNCHANGED <<handler, convert, answer, pipes>> /\ producer'.pc = "closeErrs"
        /\ Delivered' = Delivered /\ attempt' = attempt /\ Now' = Now
    BY <1>11, ProducerMoves DEF Stop, Delivered, ProducerIs, attempt, Now
  <2>2. InHand' = Delivered /\ Delivered <= InHand /\ Delivered \in Nat /\ InHand \in Nat
    BY <2>1, InHandType DEF InHand
  <2>3. pipes # <<>> => Now.sent \in Nat
    BY PipesLen, PipeFields DEF Now
  <2> QED
    BY <2>1, <2>2, <2>3 DEF Flowing
<1>12. CASE SendError
  BY <1>12, ProducerMoves, PipesLen DEF Flowing, InHand, Delivered, SendError, ProducerIs,
       attempt, Now, Reading
<1>13. CASE CloseErrs
  BY <1>13, ProducerMoves, PipesLen DEF Flowing, InHand, Delivered, CloseErrs, ProducerIs,
       attempt, Now, Reading
<1>14. CASE CloseData
  BY <1>14, ProducerMoves, PipesLen DEF Flowing, InHand, Delivered, CloseData, ProducerIs,
       attempt, Now, Reading
<1>15. CASE ConvertReceive
  <2>1. /\ UNCHANGED <<handler, answer, pipes>> /\ producer.pc = "data" /\ producer'.pc = "receive"
        /\ convert'.pc = "offer" /\ convert'.chunk = <<Payload>> /\ Len(convert'.chunk) = 1
        /\ convert.pc = "receive" /\ Len(convert.chunk) = 0
        /\ attempt' = attempt /\ Now' = Now
    BY <1>15, ConvertReceiveEffect, ConvertFields
       DEF ConvertReceive, ProducerIs, ConverterIs, attempt, Now, Unsent
  <2>2. /\ InHand' = InHand /\ InHand = Len(answer.got) + 1
    BY <2>1, AnswerFields DEF InHand, Delivered
  <2> QED
    BY <2>1, <2>2 DEF Flowing, Payload
<1>16. CASE ConvertEnd
  BY <1>16, ConvertEndEffect, NothingYet, PipesLen, ProducerFields, HandlerFields,
       ConvertFields, AnswerFields, PipeFields DEF Flowing, InHand, Delivered, ConvertEnd,
       ConverterIs, attempt, Now, Attempts, Attempted, Reading, Answering, Unsent,
       ErrsClosed, DataClosed
<1>17. CASE Execute
  <2>1. /\ UNCHANGED <<convert, answer>> /\ pipes = <<>>
        /\ convert.pc = "off" /\ Delivered' = Delivered
        /\ answer.got = <<>> /\ convert.chunk = <<>>
    BY <1>17, ExecuteEffect DEF Execute, Delivered, Answering, Unsent
  <2>2. Delivered = 0
    BY <2>1, NothingYet, AnswerFields, ConvertFields DEF Delivered
  <2>3. CASE /\ \E p \in Opened : Now' = p
             /\ ProducerIs("receive", producer.sentPayload, producer.retries,
                          producer.chunk, producer.error)
    <3>1. producer'.pc = "receive" /\ InHand' = 0
      BY <2>2, <2>1, <2>3 DEF ProducerIs, InHand
    <3>2. /\ Now'.sent \in {0, 1} /\ Now'.mark # "ok" /\ Now'.pc \in {"offer", "ended", "canned"}
          /\ Now'.pc = "offer" => Now'.sent = 1
          /\ Now'.pc # "offer" => Now'.sent = 0
      BY <2>3, OpenedType
    <3> QED
      BY <2>2, <2>1, <3>1, <3>2 DEF Flowing
  <2>4. CASE UNCHANGED pipes
    BY <2>1, <2>4 DEF Flowing
  <2> QED
    BY <1>17, <2>3, <2>4, ExecuteEffect
<1>18. CASE LeaveClient
  BY <1>18, ReturnEffect DEF Flowing, InHand, Delivered, LeaveClient, HandlerIs, attempt
<1>19. CASE PeekError
  BY <1>19, TellErrorEffect DEF Flowing, InHand, Delivered, PeekError, PendingError,
       AnswerIs, HandlerIs, attempt
<1>20. CASE PeekNoError
  BY <1>20, PeekNoErrorEffect, PipesLen DEF Flowing, InHand, Delivered, PeekNoError,
       HandlerIs, attempt, Now, Reading
<1>21. CASE PeekEnd
  BY <1>21, TellErrorEffect, TellEndEffect DEF Flowing, InHand, Delivered, PeekEnd,
       PendingError, AnswerIs, HandlerIs, attempt
<1>22. CASE PeekPayload
  <2>1. /\ UNCHANGED pipes /\ producer.pc = "data" /\ producer'.pc = "receive"
        /\ convert'.pc # "offer" /\ convert'.chunk = convert.chunk /\ Len(convert.chunk) = 0
        /\ answer.got = <<>> /\ Len(answer'.got) = 1 /\ handler.pc = "peek"
        /\ attempt' = attempt /\ Now' = Now /\ pipes # <<>>
    BY <1>22, PeekPayloadEffect, ConvertFields
       DEF PeekPayload, ProducerIs, ConverterIs, AnswerIs, attempt, Now, Unsent, Answering
  <2>2. /\ InHand' = 1 /\ InHand = 1
    BY <2>1, NothingYet DEF InHand, Delivered
  <2> QED
    BY <2>1, <2>2 DEF Flowing
<1>23. CASE PeekKeepAlive
  BY <1>23, PeekKeepAliveEffect, PipesLen DEF Flowing, InHand, Delivered, PeekKeepAlive,
       AnswerIs, attempt, Now, Reading
<1>24. CASE ForwardPayload
  <2>1. /\ UNCHANGED <<handler, pipes, cancelled, errBuf>> /\ handler.pc = "forward"
        /\ attempt' = attempt /\ Now' = Now /\ producer'.error = producer.error
        /\ \/ /\ convert.pc = "off" /\ producer.pc = "data" /\ UNCHANGED convert
              /\ Len(answer'.got) = Len(answer.got) + 1 /\ producer'.pc = "receive"
           \/ /\ convert.pc = "offer" /\ convert'.pc = "receive" /\ convert'.chunk = <<>>
              /\ Len(answer'.got) = Len(answer.got) + Len(convert.chunk) /\ UNCHANGED producer
    BY <1>24, ForwardPayloadEffect
       DEF ForwardPayload, ProducerIs, ConverterIs, AnswerIs, attempt, Now
  <2>2. Len(answer.got) \in Nat /\ Len(convert.chunk) \in Nat
    BY ConvertFields, AnswerFields
  <2>3. convert'.pc # "offer"
    BY <2>1
  <2>4. CASE convert.pc = "off"
    <3>1. /\ producer.pc = "data" /\ producer'.pc = "receive" /\ convert' = convert
          /\ Len(answer'.got) = Len(answer.got) + 1
      BY <2>1, <2>4
    <3>2. convert'.chunk = convert.chunk
      BY <3>1
    <3>3. Delivered' = Delivered + 1 /\ Delivered \in Nat
      <4>1. PICK n \in Nat, m \in Nat : n = Len(answer.got) /\ m = Len(convert.chunk)
        BY <2>2
      <4>2. Delivered = n + m
        BY <4>1 DEF Delivered
      <4>3. Len(answer'.got) = n + 1 /\ Len(convert'.chunk) = m
        BY <3>1, <3>2, <4>1
      <4>4. Delivered' = n + 1 + m
        BY <4>3 DEF Delivered
      <4> QED
        BY <4>2, <4>4
    <3>4. InHand' = InHand
      BY <3>1, <3>3 DEF InHand
    <3> QED
      BY <2>1, <2>3, <3>1, <3>4 DEF Flowing
  <2>5. CASE convert.pc = "offer"
    <3>1. /\ producer' = producer /\ convert'.chunk = <<>>
          /\ Len(answer'.got) = Len(answer.got) + Len(convert.chunk)
      BY <2>1, <2>5
    <3>2. Delivered' = Delivered
      BY <2>2, <3>1, NothingYet DEF Delivered
    <3>3. InHand' = InHand
      BY <3>1, <3>2 DEF InHand
    <3> QED
      BY <2>1, <2>3, <3>1, <3>3 DEF Flowing
  <2> QED
    BY <2>1, <2>4, <2>5
<1>25. CASE ForwardError
  BY <1>25, TellErrorEffect DEF Flowing, InHand, Delivered, ForwardError, PendingError,
       AnswerIs, HandlerIs, attempt
<1>26. CASE ForwardEnd
  BY <1>26, TellErrorEffect, TellEndEffect DEF Flowing, InHand, Delivered, ForwardEnd,
       PendingError, AnswerIs, HandlerIs, attempt
<1>27. CASE ClientLeaves
  BY <1>27, PipesLen DEF Flowing, InHand, Delivered, ClientLeaves, attempt, Now, Reading
<1>28. CASE PassCancel
  BY <1>28, PipesLen DEF Flowing, InHand, Delivered, PassCancel, attempt, Now, Reading
<1> QED
  BY <1>1, <1>2, <1>3, <1>4, <1>5, <1>6, <1>7, <1>8, <1>9, <1>10, <1>11, <1>12, <1>13,
       <1>14, <1>15, <1>16, <1>17, <1>18, <1>19, <1>20, <1>21, <1>22, <1>23, <1>24, <1>25,
       <1>26, <1>27, <1>28 DEF Next, Producer, Converter, Handler, Forwarder, Provider,
       Attempted

LEMMA ClosingStep ==
  ASSUME TypeOK, \A b \in Attempted : Recorded(b), Answering, Reading, Unsent, Flowing,
         Closing, Committed, Next
  PROVE  Closing'
<1>1. ASSUME NEW a \in Attempted, Send(a) PROVE Closing'
  <2>1. PipeBecomes(a, Sent(pipes[a])) /\ pipes[a].mark = "none"
    BY <1>1, SendEffect DEF Send
  <2>2. (a = attempt => Now.mark = "none") /\ (a # attempt => Now' = Now)
    BY <2>1, NowBecomes
  <2>3. UNCHANGED <<cancelled, producer, errBuf>> /\ Delivered' = Delivered
    BY <1>1 DEF Send, Delivered
  <2> QED
    BY <2>2, <2>3 DEF Closing
<1>2. ASSUME NEW a \in Attempted, NEW e \in StreamErrors, Break(a, e) PROVE Closing'
  <2>1. PipeBecomes(a, Broken(pipes[a], e)) /\ pipes[a].mark = "none"
    BY <1>2, BreakEffect DEF Break
  <2>2. (a = attempt => Now.mark = "none") /\ (a # attempt => Now' = Now)
    BY <2>1, NowBecomes
  <2>3. UNCHANGED <<cancelled, producer, errBuf>> /\ Delivered' = Delivered
    BY <1>2 DEF Break, Delivered
  <2> QED
    BY <2>2, <2>3 DEF Closing
<1>3. ASSUME NEW a \in Attempted, Finish(a) PROVE Closing'
  BY <1>3, FinishEffect, NowBecomes DEF Closing, Delivered, Finish, At, Recorded
<1>4. ASSUME NEW a \in Attempted, MarkEnd(a) PROVE Closing'
  BY <1>4, MarkEffect, NowBecomes DEF Closing, Delivered, MarkEnd, Marked, Recorded
<1>5. ASSUME NEW a \in Attempted, CloseOut(a) PROVE Closing'
  <2> DEFINE p == At(pipes[a], "closed")
  <2>1. /\ PipeBecomes(a, p) /\ pipes[a] \in Pipes
        /\ p.pc = "closed" /\ p.error = pipes[a].error /\ p.sent = pipes[a].sent
        /\ p.mark = pipes[a].mark
        /\ pipes[a].pc = "marked"
    BY <1>5, CloseEffect, PipesLen DEF At, CloseOut
  <2> HIDE DEF p
  <2>2. /\ attempt' = attempt /\ attempt \in Attempted /\ Attempted' = Attempted
        /\ pipes # <<>> /\ pipes' # <<>>
        /\ Now' = IF a = attempt THEN p ELSE Now
        /\ a = attempt => pipes[a] = Now
        /\ \A b \in Attempted : pipes'[b] = IF b = a THEN p ELSE pipes[b]
    BY <2>1, NowBecomes
  <2>3. Recorded(a)
    OBVIOUS
  <2>4. UNCHANGED <<cancelled, producer, errBuf>> /\ Delivered' = Delivered
    BY <1>5 DEF CloseOut, Delivered
  <2>5. CASE a = attempt
    BY <1>5, <2>1, <2>2, <2>3, <2>4, <2>5, PipeFields DEF Recorded, Closing, CloseOut
  <2>6. CASE a # attempt
    BY <2>2, <2>4, <2>6 DEF Closing
  <2> QED
    BY <2>5, <2>6
<1>6. ASSUME NEW a \in Attempted, Drop(a) PROVE Closing'
  BY <1>6, AtEffect DEF Closing, Delivered, Drop, At, PipeBecomes, attempt
<1>7. CASE ReceivePayload
  BY <1>7, ReceivePayloadEffect DEF Closing, Delivered, ReceivePayload, At, PipeBecomes,
       ProducerIs, attempt
<1>8. CASE ReceiveError
  BY <1>8, ReceiveErrorEffect DEF Closing, Delivered, ReceiveError, Retries, At,
       PipeBecomes, ProducerIs, attempt
<1>9. CASE Retry
  BY <1>9, RetryStepEffect, OpenedType DEF Closing, Delivered, Retry, ProducerIs, attempt
<1>10. CASE ReceiveEnd
  <2>0. /\ producer'.error = producer.error /\ cancelled' = cancelled
        /\ Delivered' = Delivered /\ Now' = Now
    BY <1>10, ProducerMoves DEF ReceiveEnd, ProducerIs, Delivered, Now, attempt
  <2> SUFFICES ASSUME ~cancelled
               PROVE  producer.error = "none" /\ Now.mark = "ok" /\ Delivered = Now.sent
    BY <2>0 DEF Closing
  <2>1. /\ producer.pc = "receive" /\ Now.pc = "closed" /\ producer.error = "none"
        /\ pipes # <<>> /\ attempt \in Attempted /\ Now \in Pipes
    BY <1>10, PipesLen DEF ReceiveEnd, Reading, Now
  <2>2. Now.error = "none" /\ Now.mark # "none" /\ Now.mark # "failed" /\ Recorded(attempt)
    BY <2>1 DEF Reading, Recorded, Now
  <2>3. Now.mark = "ok"
    BY <2>1, <2>2, PipeFields
  <2>4. handler.pc # "done" /\ InHand = Delivered
    BY <2>1, InHandType DEF Answering, InHand
  <2> QED
    BY <2>1, <2>3, <2>4 DEF Flowing
<1>11. CASE Stop
  BY <1>11, ProducerMoves DEF Closing, Delivered, Stop, ProducerIs, attempt
<1>12. CASE SendError
  BY <1>12, ProducerMoves, PipesLen DEF Closing, Delivered, SendError, ProducerIs, attempt,
       Now, Reading
<1>13. CASE CloseErrs
  BY <1>13, ProducerMoves, PipesLen DEF Closing, Delivered, CloseErrs, ProducerIs, attempt,
       Now, Reading
<1>14. CASE CloseData
  BY <1>14, ProducerMoves, PipesLen DEF Closing, Delivered, CloseData, ProducerIs, attempt,
       Now, Reading
<1>15. CASE ConvertReceive
  BY <1>15, ConvertReceiveEffect DEF Closing, Delivered, ConvertReceive, ProducerIs,
       ConverterIs, attempt
<1>16. CASE ConvertEnd
  BY <1>16, ConvertEndEffect, NothingYet, PipesLen, ProducerFields, HandlerFields,
       ConvertFields, AnswerFields, PipeFields DEF Closing, Delivered, ConvertEnd,
       ConverterIs, attempt, Now, Attempts, Attempted, Reading, Answering, Unsent,
       ErrsClosed, DataClosed
<1>17. CASE Execute
  BY <1>17, ExecuteEffect, OpenedType, PipesLen DEF Closing, Delivered, Execute,
       ProducerIs, HandlerIs, attempt, Now, Reading
<1>18. CASE LeaveClient
  BY <1>18, ReturnEffect DEF Closing, Delivered, LeaveClient, HandlerIs, attempt
<1>19. CASE PeekError
  BY <1>19, TellErrorEffect DEF Closing, Delivered, PeekError, PendingError, AnswerIs,
       HandlerIs, attempt
<1>20. CASE PeekNoError
  BY <1>20, PeekNoErrorEffect, PipesLen DEF Closing, Delivered, PeekNoError, HandlerIs,
       attempt, Now, Reading
<1>21. CASE PeekEnd
  BY <1>21, TellErrorEffect, TellEndEffect DEF Closing, Delivered, PeekEnd, PendingError,
       AnswerIs, HandlerIs, attempt
<1>22. CASE PeekPayload
  BY <1>22, PeekPayloadEffect DEF Closing, Delivered, PeekPayload, ProducerIs, ConverterIs,
       AnswerIs, HandlerIs, attempt
<1>23. CASE PeekKeepAlive
  BY <1>23, PeekKeepAliveEffect, PipesLen DEF Closing, Delivered, PeekKeepAlive, AnswerIs,
       attempt, Now, Reading
<1>24. CASE ForwardPayload
  <2>1. /\ UNCHANGED <<handler, pipes, cancelled, errBuf>> /\ handler.pc = "forward"
        /\ attempt' = attempt /\ Now' = Now /\ producer'.error = producer.error
        /\ \/ /\ convert.pc = "off" /\ producer.pc = "data" /\ UNCHANGED convert
              /\ Len(answer'.got) = Len(answer.got) + 1 /\ producer'.pc = "receive"
           \/ /\ convert.pc = "offer" /\ convert'.pc = "receive" /\ convert'.chunk = <<>>
              /\ Len(answer'.got) = Len(answer.got) + Len(convert.chunk) /\ UNCHANGED producer
    BY <1>24, ForwardPayloadEffect
       DEF ForwardPayload, ProducerIs, ConverterIs, AnswerIs, attempt, Now
  <2>2. CASE producer.pc = "data" /\ producer'.pc = "receive"
    BY <2>2 DEF Closing
  <2>3. CASE UNCHANGED producer /\ producer.pc # "data"
    <3>1. /\ convert'.chunk = <<>> /\ Len(answer'.got) = Len(answer.got) + Len(convert.chunk)
          /\ Len(answer.got) \in Nat /\ Len(convert.chunk) \in Nat /\ Len(<<>>) = 0
      BY <2>1, <2>3, NothingYet, ConvertFields, AnswerFields
    <3>2. Delivered' = Delivered
      BY <3>1 DEF Delivered
    <3> QED
      BY <2>1, <2>3, <3>2 DEF Closing
  <2>4. CASE UNCHANGED producer /\ producer.pc = "data"
    BY <2>4 DEF Closing
  <2> QED
    BY <2>1, <2>2, <2>3, <2>4
<1>25. CASE ForwardError
  BY <1>25, TellErrorEffect DEF Closing, Delivered, ForwardError, PendingError, AnswerIs,
       HandlerIs, attempt
<1>26. CASE ForwardEnd
  BY <1>26, TellErrorEffect, TellEndEffect DEF Closing, Delivered, ForwardEnd,
       PendingError, AnswerIs, HandlerIs, attempt
<1>27. CASE ClientLeaves
  BY <1>27, PipesLen DEF Closing, Delivered, ClientLeaves, attempt, Now, Reading
<1>28. CASE PassCancel
  BY <1>28 DEF Closing, Delivered, PassCancel, attempt
<1> QED
  BY <1>1, <1>2, <1>3, <1>4, <1>5, <1>6, <1>7, <1>8, <1>9, <1>10, <1>11, <1>12, <1>13,
       <1>14, <1>15, <1>16, <1>17, <1>18, <1>19, <1>20, <1>21, <1>22, <1>23, <1>24, <1>25,
       <1>26, <1>27, <1>28 DEF Next, Producer, Converter, Handler, Forwarder, Provider,
       Attempted

LEMMA CommittedStep ==
  ASSUME TypeOK, \A b \in Attempted : Recorded(b), Answering, Reading, Unsent, Flowing,
         Closing, Committed, Next
  PROVE  Committed'
<1>1. ASSUME NEW a \in Attempted, Send(a) PROVE Committed'
  BY <1>1, SendEffect DEF Committed, HeadersMatch, Send, Sent, PipeBecomes, attempt
<1>2. ASSUME NEW a \in Attempted, NEW e \in StreamErrors, Break(a, e) PROVE Committed'
  BY <1>2, BreakEffect DEF Committed, HeadersMatch, Break, Broken, StreamErrors,
       PipeBecomes, attempt
<1>3. ASSUME NEW a \in Attempted, Finish(a) PROVE Committed'
  BY <1>3, AtEffect DEF Committed, HeadersMatch, Finish, At, PipeBecomes, attempt
<1>4. ASSUME NEW a \in Attempted, MarkEnd(a) PROVE Committed'
  BY <1>4, MarkEffect DEF Committed, HeadersMatch, MarkEnd, Marked, PipeBecomes, attempt
<1>5. ASSUME NEW a \in Attempted, CloseOut(a) PROVE Committed'
  BY <1>5, AtEffect DEF Committed, HeadersMatch, CloseOut, At, PipeBecomes, attempt
<1>6. ASSUME NEW a \in Attempted, Drop(a) PROVE Committed'
  BY <1>6, AtEffect DEF Committed, HeadersMatch, Drop, At, PipeBecomes, attempt
<1>7. CASE ReceivePayload
  BY <1>7, ReceivePayloadEffect DEF Committed, HeadersMatch, ReceivePayload, At,
       PipeBecomes, ProducerIs, attempt
<1>8. CASE ReceiveError
  BY <1>8, ReceiveErrorEffect DEF Committed, HeadersMatch, ReceiveError, Retries, At,
       PipeBecomes, ProducerIs, attempt
<1>9. CASE Retry
  BY <1>9, RetryStepEffect, OpenedType DEF Committed, HeadersMatch, Retry, ProducerIs,
       attempt
<1>10. CASE ReceiveEnd
  BY <1>10, ProducerMoves DEF Committed, HeadersMatch, ReceiveEnd, ProducerIs, attempt
<1>11. CASE Stop
  BY <1>11, ProducerMoves DEF Committed, HeadersMatch, Stop, ProducerIs, attempt
<1>12. CASE SendError
  BY <1>12, ProducerMoves DEF Committed, HeadersMatch, SendError, ProducerIs, attempt
<1>13. CASE CloseErrs
  BY <1>13, ProducerMoves DEF Committed, HeadersMatch, CloseErrs, ProducerIs, attempt
<1>14. CASE CloseData
  BY <1>14, ProducerMoves DEF Committed, HeadersMatch, CloseData, ProducerIs, attempt
<1>15. CASE ConvertReceive
  BY <1>15, ConvertReceiveEffect DEF Committed, HeadersMatch, ConvertReceive, ProducerIs,
       ConverterIs, attempt
<1>16. CASE ConvertEnd
  BY <1>16, ConvertEndEffect, NothingYet DEF Committed, HeadersMatch, ConvertEnd,
       ConverterIs, attempt
<1>17. CASE Execute
  BY <1>17, ExecuteEffect, OpenedType DEF Committed, HeadersMatch, Execute, ProducerIs,
       HandlerIs, attempt
<1>18. CASE LeaveClient
  BY <1>18, ReturnEffect DEF Committed, HeadersMatch, LeaveClient, HandlerIs, attempt
<1>19. CASE PeekError
  BY <1>19, TellErrorEffect DEF Committed, HeadersMatch, PeekError, PendingError, AnswerIs,
       HandlerIs, attempt
<1>20. CASE PeekNoError
  BY <1>20, PeekNoErrorEffect DEF Committed, HeadersMatch, PeekNoError, HandlerIs, attempt
<1>21. CASE PeekEnd
  BY <1>21, TellErrorEffect, TellEndEffect DEF Committed, HeadersMatch, PeekEnd,
       PendingError, AnswerIs, HandlerIs, attempt
<1>22. CASE PeekPayload
  BY <1>22, PeekPayloadEffect DEF Committed, HeadersMatch, PeekPayload, ProducerIs,
       ConverterIs, AnswerIs, HandlerIs, attempt
<1>23. CASE PeekKeepAlive
  BY <1>23, PeekKeepAliveEffect DEF Committed, HeadersMatch, PeekKeepAlive, AnswerIs,
       attempt
<1>24. CASE ForwardPayload
  BY <1>24, ForwardPayloadEffect, NothingYet DEF Committed, HeadersMatch, ForwardPayload,
       AnswerIs, ConverterIs, ProducerIs, attempt
<1>25. CASE ForwardError
  BY <1>25, TellErrorEffect DEF Committed, HeadersMatch, ForwardError, PendingError,
       AnswerIs, HandlerIs, attempt
<1>26. CASE ForwardEnd
  BY <1>26, TellErrorEffect, TellEndEffect DEF Committed, HeadersMatch, ForwardEnd,
       PendingError, AnswerIs, HandlerIs, attempt
<1>27. CASE ClientLeaves
  BY <1>27 DEF Committed, HeadersMatch, ClientLeaves, attempt
<1>28. CASE PassCancel
  BY <1>28 DEF Committed, HeadersMatch, PassCancel, attempt
<1> QED
  BY <1>1, <1>2, <1>3, <1>4, <1>5, <1>6, <1>7, <1>8, <1>9, <1>10, <1>11, <1>12, <1>13,
       <1>14, <1>15, <1>16, <1>17, <1>18, <1>19, <1>20, <1>21, <1>22, <1>23, <1>24, <1>25,
       <1>26, <1>27, <1>28 DEF Next, Producer, Converter, Handler, Forwarder, Provider,
       Attempted

-----------------------------------------------------------------------------
(* The theorems. *)

LEMMA IInvInit == Init => IInv
<1> SUFFICES ASSUME Init PROVE IInv
  OBVIOUS
<1>1. TypeOK
  <2>1. pipes \in Seq(Pipes) /\ Len(pipes) <= MaxRetries + 1
    BY StreamAssumption DEF Init
  <2>2. <<>> \in Payloads
    BY NothingYet
  <2>3. producer \in Producing
    BY StreamAssumption DEF Init, Producing
  <2>4. convert \in Conversion /\ handler \in Handling
    BY <2>2 DEF Init, Conversion, Handling
  <2>5. answer \in Answer
    BY <2>2 DEF Init, Answer
  <2> QED
    BY <2>1, <2>3, <2>4, <2>5 DEF Init, TypeOK
<1>2. attempt = 0
  BY DEF Init, attempt
<1>3. Answering /\ Reading /\ Unsent
  BY <1>2, <1>1, StreamAssumption
     DEF Init, Answering, Reading, Unsent, ErrsClosed, DataClosed, StreamErrors, TypeOK
<1>4. Flowing /\ Closing /\ Committed
  BY DEF Init, Flowing, Closing, Committed, HeadersMatch
<1> QED
  BY <1>1, <1>2, <1>3, <1>4 DEF IInv

LEMMA IInvStep == IInv /\ [Next]_vars => IInv'
<1> SUFFICES ASSUME IInv, [Next]_vars PROVE IInv'
  OBVIOUS
<1> USE DEF Attempted
<1>1. CASE Next
  <2>1. TypeOK'
    BY <1>1, TypeStep DEF IInv
  <2>2. ASSUME NEW c \in Attempted' PROVE Recorded(c)'
    BY <1>1, RecordedStep DEF IInv
  <2>3. Answering' /\ Reading'
    BY <1>1, AnsweringStep, ReadingStep DEF IInv
  <2>4. Unsent' /\ Flowing'
    BY <1>1, UnsentStep, FlowingStep DEF IInv
  <2>5. Closing' /\ Committed'
    BY <1>1, ClosingStep, CommittedStep DEF IInv
  <2> QED
    BY <2>1, <2>2, <2>3, <2>4, <2>5 DEF IInv
<1>2. CASE UNCHANGED vars
  <2>1. UNCHANGED <<format, client, cancelled, pipes, producer, errBuf, convert, handler, answer>>
    BY <1>2 DEF vars
  <2>2. attempt' = attempt /\ Now' = Now /\ InHand' = InHand /\ Delivered' = Delivered
    BY <2>1 DEF attempt, Now, InHand, Delivered
  <2>3. TypeOK' /\ Unsent' /\ Committed'
    BY <2>1 DEF IInv, TypeOK, Unsent, DataClosed, Committed, HeadersMatch
  <2>4. \A a \in Attempted' : Recorded(a)'
    BY <2>1, <2>2 DEF IInv, Recorded
  <2>5. Answering' /\ Reading'
    BY <2>1, <2>2 DEF IInv, Answering, ErrsClosed, Reading
  <2>6. Flowing' /\ Closing'
    BY <2>1, <2>2 DEF IInv, Flowing, Closing
  <2> QED
    BY <2>3, <2>4, <2>5, <2>6 DEF IInv
<1> QED
  BY <1>1, <1>2

THEOREM IInvInvariant == Spec => []IInv
<1> QED
  BY IInvInit, IInvStep, PTL DEF Spec

(* Every variable keeps its type; in particular no request makes more        *)
(* attempts than the retries it is allowed.                                  *)
THEOREM TypeCorrect == Spec => []TypeOK
<1>1. IInv => TypeOK
  BY DEF IInv
<1> QED
  BY <1>1, IInvInvariant, PTL

(* A client gets the upstream headers of the attempt whose payloads it gets, *)
(* however many attempts were made before, except an image stream's.         *)
THEOREM HeadersMatchInvariant == Spec => []HeadersMatch
<1>1. IInv => HeadersMatch
  BY DEF IInv, Committed
<1> QED
  BY <1>1, IInvInvariant, PTL

-----------------------------------------------------------------------------
(* The refinement.  Which step of ClientStream a step takes.  Offered is    *)
(* what its variable offered stands for.                                    *)
Offered == IF attempt = 0 THEN 0 ELSE Now.sent

LEMMA EndingIs ==
  /\ producer.error = "invalid" => Ending = "failed"
  /\ attempt = 0 /\ handler.pc # "execute" => Ending = "failed"
  /\ attempt = 0 /\ handler.pc = "execute" /\ producer.error # "invalid" => Ending = "no"
  /\ attempt # 0 /\ producer.error # "invalid" =>
       /\ Now.mark = "failed" => Ending = "failed"
       /\ Now.mark = "ok" => Ending = "complete"
       /\ Now.mark \notin {"failed", "ok"} => Ending = "no"
  BY DEF Ending

LEMMA EndingIsNext ==
  /\ producer'.error = "invalid" => Ending' = "failed"
  /\ attempt' = 0 /\ handler'.pc # "execute" => Ending' = "failed"
  /\ attempt' # 0 /\ producer'.error # "invalid" =>
       /\ Now'.mark = "failed" => Ending' = "failed"
       /\ Now'.mark = "ok" => Ending' = "complete"
       /\ Now'.mark \notin {"failed", "ok"} => Ending' = "no"
  BY DEF Ending

(* What decides the ending.                                                 *)
LEMMA EndingStays ==
  ASSUME UNCHANGED <<attempt, producer.error>>,
         attempt # 0 => Now'.mark = Now.mark,
         attempt = 0 => (handler'.pc = "execute" <=> handler.pc = "execute")
  PROVE  Ending' = Ending
  BY DEF Ending

LEMMA OutcomeIs ==
  /\ client = "gone" => Outcome = "left"
  /\ client # "gone" /\ answer.told # "none" => Outcome = answer.told
  /\ client # "gone" /\ answer.told = "none" => Outcome = "open"
  BY DEF Outcome

LEMMA OutcomeIsNext ==
  /\ client' = "gone" => Outcome' = "left"
  /\ client' # "gone" /\ answer'.told # "none" => Outcome' = answer'.told
  /\ client' # "gone" /\ answer'.told = "none" => Outcome' = "open"
  BY DEF Outcome

LEMMA OutcomeStays ==
  ASSUME client' = client, client = "gone" \/ answer'.told = answer.told
  PROVE  Outcome' = Outcome
  BY DEF Outcome

LEMMA PromisedIs ==
  /\ format \in KeepingAlive => Promised = "never"
  /\ format \notin Checking \cup KeepingAlive => Promised = "afterFirst"
  /\ UNCHANGED format => UNCHANGED Promised
  BY DEF Promised, Checking, KeepingAlive

LEMMA Stutters ==
  ASSUME UNCHANGED <<format, attempt, Offered, Ending, answer.got, Outcome>>
  PROVE  [Promise!Next]_(Promise!vars)
  BY PromisedIs DEF Promise!vars, Offered

LEMMA IsAttempt ==
  ASSUME UNCHANGED <<format, answer.got, Outcome>>, answer.got = <<>>,
         attempt = 0 \/ Ending = "failed", attempt' = attempt + 1,
         Offered' \in {0, 1}, Ending' \in {"no", "failed"}
  PROVE  [Promise!Next]_(Promise!vars)
  BY PromisedIs DEF Promise!Next, Promise!Attempt, Offered

LEMMA IsOffer ==
  ASSUME UNCHANGED <<format, attempt, Ending, answer.got, Outcome>>,
         Ending # "complete", Offered' = Offered + 1
  PROVE  [Promise!Next]_(Promise!vars)
  BY PromisedIs DEF Promise!Next, Promise!Offer, Offered

LEMMA IsEnd ==
  ASSUME UNCHANGED <<format, attempt, Offered, answer.got, Outcome>>,
         Ending = "no", Ending' \in {"complete", "failed"}
  PROVE  [Promise!Next]_(Promise!vars)
  BY PromisedIs DEF Promise!Next, Promise!End, Offered

LEMMA IsDeliver ==
  ASSUME UNCHANGED <<format, attempt, Offered, Ending, Outcome>>,
         Outcome \in {"open", "left"}, Len(answer.got) < Offered,
         answer'.got = Append(answer.got, <<attempt, Len(answer.got) + 1>>)
  PROVE  [Promise!Next]_(Promise!vars)
  BY PromisedIs DEF Promise!Next, Promise!Deliver, Offered

LEMMA IsTold ==
  ASSUME UNCHANGED <<format, attempt, Offered, Ending, answer.got>>, Outcome = "open",
         \/ Outcome' = "failed" /\ Ending = "failed"
         \/ Outcome' = "complete" /\ Ending = "complete" /\ Len(answer.got) = Offered
         \/ /\ Outcome' = "complete" /\ Ending = "failed"
            /\ Promised = "never" \/ (Promised = "afterFirst" /\ answer.got = <<>>)
  PROVE  [Promise!Next]_(Promise!vars)
  BY PromisedIs
     DEF Promise!Next, Promise!TellFailure, Promise!TellComplete, Promise!HideFailure, Offered

LEMMA IsLeave ==
  ASSUME UNCHANGED <<format, attempt, Offered, Ending, answer.got>>,
         Outcome = "open", Outcome' = "left"
  PROVE  [Promise!Next]_(Promise!vars)
  BY PromisedIs DEF Promise!Next, Promise!Leave, Offered

LEMMA SendMaps ==
  ASSUME IInv, NEW a \in Attempted, Send(a)
  PROVE  [Promise!Next]_(Promise!vars)
<1>0. TypeOK /\ Send(a)
  BY DEF IInv
<1> DEFINE p == Sent(pipes[a])
<1>1. /\ PipeBecomes(a, p) /\ pipes[a] \in Pipes
      /\ p.pc = "offer" /\ p.error = pipes[a].error /\ p.sent = pipes[a].sent + 1
      /\ p.mark = pipes[a].mark
      /\ pipes[a].pc = "read" /\ pipes[a].mark = "none"
  BY <1>0, SendEffect, PipesLen DEF Sent, Send
<1> HIDE DEF p
<1>2. /\ attempt' = attempt /\ attempt \in Attempted /\ Attempted' = Attempted
      /\ pipes # <<>> /\ pipes' # <<>>
      /\ Now' = IF a = attempt THEN p ELSE Now
      /\ a = attempt => pipes[a] = Now
      /\ \A b \in Attempted : pipes'[b] = IF b = a THEN p ELSE pipes[b]
  BY <1>0, <1>1, NowBecomes
<1>3. UNCHANGED <<format, producer, handler, client, answer>>
  BY <1>0 DEF Send
<1>4. attempt # 0 /\ UNCHANGED <<attempt, Outcome>>
  BY <1>2, <1>3, OutcomeStays DEF Attempted
<1>5. CASE a # attempt
  <2>1. Offered' = Offered /\ Ending' = Ending
    BY <1>2, <1>3, <1>4, <1>5, EndingStays DEF Offered
  <2> QED
    BY <1>3, <1>4, <2>1, Stutters
<1>6. CASE a = attempt
  <2>1. Offered' = Offered + 1 /\ Ending' = Ending
    BY <1>1, <1>2, <1>3, <1>4, <1>6, EndingStays DEF Offered
  <2>2. Ending # "complete"
    BY <1>1, <1>2, <1>4, <1>6, EndingIs
  <2> QED
    BY <1>3, <1>4, <2>1, <2>2, IsOffer
<1> QED
  BY <1>5, <1>6

LEMMA BreakMaps ==
  ASSUME IInv, NEW a \in Attempted, NEW e \in StreamErrors, Break(a, e)
  PROVE  [Promise!Next]_(Promise!vars)
<1>0. TypeOK /\ Break(a, e)
  BY DEF IInv
<1> DEFINE p == Broken(pipes[a], e)
<1>1. /\ PipeBecomes(a, p) /\ pipes[a] \in Pipes
      /\ p.pc = "offer" /\ p.error = e /\ p.sent = pipes[a].sent /\ p.mark = "failed"
      /\ pipes[a].pc = "read" /\ pipes[a].mark = "none" /\ e # "none"
  BY <1>0, BreakEffect, PipesLen DEF Broken, StreamErrors, Break
<1> HIDE DEF p
<1>2. /\ attempt' = attempt /\ attempt \in Attempted /\ Attempted' = Attempted
      /\ pipes # <<>> /\ pipes' # <<>>
      /\ Now' = IF a = attempt THEN p ELSE Now
      /\ a = attempt => pipes[a] = Now
      /\ \A b \in Attempted : pipes'[b] = IF b = a THEN p ELSE pipes[b]
  BY <1>0, <1>1, NowBecomes
<1>3. UNCHANGED <<format, producer, handler, client, answer>>
  BY <1>0 DEF Break
<1>4. attempt # 0 /\ UNCHANGED <<attempt, Outcome>>
  BY <1>2, <1>3, OutcomeStays DEF Attempted
<1>5. CASE a # attempt
  <2>1. Offered' = Offered /\ Ending' = Ending
    BY <1>2, <1>3, <1>4, <1>5, EndingStays DEF Offered
  <2> QED
    BY <1>3, <1>4, <2>1, Stutters
<1>6. CASE a = attempt
  <2>1. Offered' = Offered
    BY <1>1, <1>2, <1>4, <1>6 DEF Offered
  <2>2. CASE producer.error = "invalid"
    <3>1. Ending' = Ending
      BY <1>3, <2>2, EndingIs, EndingIsNext
    <3> QED
      BY <1>3, <1>4, <2>1, <3>1, Stutters
  <2>3. CASE producer.error # "invalid"
    <3>1. Ending = "no" /\ Ending' = "failed"
      BY <1>1, <1>2, <1>3, <1>4, <1>6, <2>3, EndingIs, EndingIsNext
    <3> QED
      BY <1>3, <1>4, <2>1, <3>1, IsEnd
  <2> QED
    BY <2>2, <2>3
<1> QED
  BY <1>5, <1>6

LEMMA FinishMaps ==
  ASSUME IInv, NEW a \in Attempted, Finish(a)
  PROVE  [Promise!Next]_(Promise!vars)
<1>0. TypeOK /\ Finish(a)
  BY DEF IInv
<1> DEFINE p == At(pipes[a], "ended")
<1>1. /\ PipeBecomes(a, p) /\ pipes[a] \in Pipes
      /\ p.pc = "ended" /\ p.error = pipes[a].error /\ p.sent = pipes[a].sent
      /\ p.mark = pipes[a].mark
      /\ pipes[a].pc = "read"
  BY <1>0, FinishEffect, PipesLen DEF At, Finish
<1> HIDE DEF p
<1>2. /\ attempt' = attempt /\ attempt \in Attempted /\ Attempted' = Attempted
      /\ pipes # <<>> /\ pipes' # <<>>
      /\ Now' = IF a = attempt THEN p ELSE Now
      /\ a = attempt => pipes[a] = Now
      /\ \A b \in Attempted : pipes'[b] = IF b = a THEN p ELSE pipes[b]
  BY <1>0, <1>1, NowBecomes
<1>3. UNCHANGED <<format, producer, handler, client, answer>>
  BY <1>0 DEF Finish
<1>4. attempt # 0 /\ UNCHANGED <<attempt, Outcome>>
  BY <1>2, <1>3, OutcomeStays DEF Attempted
<1>5. CASE a # attempt
  <2>1. Offered' = Offered /\ Ending' = Ending
    BY <1>2, <1>3, <1>4, <1>5, EndingStays DEF Offered
  <2> QED
    BY <1>3, <1>4, <2>1, Stutters
<1>6. CASE a = attempt
  <2>1. Offered' = Offered /\ Ending' = Ending
    BY <1>1, <1>2, <1>3, <1>4, <1>6, EndingStays DEF Offered
  <2> QED
    BY <1>3, <1>4, <2>1, Stutters
<1> QED
  BY <1>5, <1>6

LEMMA MarkEndMaps ==
  ASSUME IInv, NEW a \in Attempted, MarkEnd(a)
  PROVE  [Promise!Next]_(Promise!vars)
<1>0. TypeOK /\ MarkEnd(a)
  BY DEF IInv
<1> DEFINE p == Marked(pipes[a])
<1>1. /\ PipeBecomes(a, p) /\ pipes[a] \in Pipes
      /\ p.pc = "marked" /\ p.error = pipes[a].error /\ p.sent = pipes[a].sent
      /\ p.mark = IF pipes[a].mark = "none" THEN "ok" ELSE pipes[a].mark
      /\ pipes[a].pc = "ended"
  BY <1>0, MarkEffect, PipesLen DEF Marked, MarkEnd
<1> HIDE DEF p
<1>2. /\ attempt' = attempt /\ attempt \in Attempted /\ Attempted' = Attempted
      /\ pipes # <<>> /\ pipes' # <<>>
      /\ Now' = IF a = attempt THEN p ELSE Now
      /\ a = attempt => pipes[a] = Now
      /\ \A b \in Attempted : pipes'[b] = IF b = a THEN p ELSE pipes[b]
  BY <1>0, <1>1, NowBecomes
<1>3. UNCHANGED <<format, producer, handler, client, answer>>
  BY <1>0 DEF MarkEnd
<1>4. attempt # 0 /\ UNCHANGED <<attempt, Outcome>>
  BY <1>2, <1>3, OutcomeStays DEF Attempted
<1>5. CASE a # attempt
  <2>1. Offered' = Offered /\ Ending' = Ending
    BY <1>2, <1>3, <1>4, <1>5, EndingStays DEF Offered
  <2> QED
    BY <1>3, <1>4, <2>1, Stutters
<1>6. CASE a = attempt
  <2>1. Offered' = Offered
    BY <1>1, <1>2, <1>4, <1>6 DEF Offered
  <2>2. CASE producer.error = "invalid"
    <3>1. Ending' = Ending
      BY <1>3, <2>2, EndingIs, EndingIsNext
    <3> QED
      BY <1>3, <1>4, <2>1, <3>1, Stutters
  <2>3. CASE Now.mark # "none"
    <3>1. Ending' = Ending
      BY <1>1, <1>2, <1>3, <1>4, <1>6, <2>3, EndingStays
    <3> QED
      BY <1>3, <1>4, <2>1, <3>1, Stutters
  <2>4. CASE producer.error # "invalid" /\ Now.mark = "none"
    <3>1. Ending = "no" /\ Ending' = "complete"
      BY <1>1, <1>2, <1>3, <1>4, <1>6, <2>4, EndingIs, EndingIsNext
    <3> QED
      BY <1>3, <1>4, <2>1, <3>1, IsEnd
  <2> QED
    BY <2>2, <2>3, <2>4
<1> QED
  BY <1>5, <1>6

LEMMA CloseOutMaps ==
  ASSUME IInv, NEW a \in Attempted, CloseOut(a)
  PROVE  [Promise!Next]_(Promise!vars)
<1>0. TypeOK /\ CloseOut(a)
  BY DEF IInv
<1> DEFINE p == At(pipes[a], "closed")
<1>1. /\ PipeBecomes(a, p) /\ pipes[a] \in Pipes
      /\ p.pc = "closed" /\ p.error = pipes[a].error /\ p.sent = pipes[a].sent
      /\ p.mark = pipes[a].mark
      /\ pipes[a].pc = "marked"
  BY <1>0, CloseEffect, PipesLen DEF At, CloseOut
<1> HIDE DEF p
<1>2. /\ attempt' = attempt /\ attempt \in Attempted /\ Attempted' = Attempted
      /\ pipes # <<>> /\ pipes' # <<>>
      /\ Now' = IF a = attempt THEN p ELSE Now
      /\ a = attempt => pipes[a] = Now
      /\ \A b \in Attempted : pipes'[b] = IF b = a THEN p ELSE pipes[b]
  BY <1>0, <1>1, NowBecomes
<1>3. UNCHANGED <<format, producer, handler, client, answer>>
  BY <1>0 DEF CloseOut
<1>4. attempt # 0 /\ UNCHANGED <<attempt, Outcome>>
  BY <1>2, <1>3, OutcomeStays DEF Attempted
<1>5. CASE a # attempt
  <2>1. Offered' = Offered /\ Ending' = Ending
    BY <1>2, <1>3, <1>4, <1>5, EndingStays DEF Offered
  <2> QED
    BY <1>3, <1>4, <2>1, Stutters
<1>6. CASE a = attempt
  <2>1. Offered' = Offered /\ Ending' = Ending
    BY <1>1, <1>2, <1>3, <1>4, <1>6, EndingStays DEF Offered
  <2> QED
    BY <1>3, <1>4, <2>1, Stutters
<1> QED
  BY <1>5, <1>6

LEMMA DropMaps ==
  ASSUME IInv, NEW a \in Attempted, Drop(a)
  PROVE  [Promise!Next]_(Promise!vars)
<1>0. TypeOK /\ Drop(a)
  BY DEF IInv
<1> DEFINE p == At(pipes[a], "closed")
<1>1. /\ PipeBecomes(a, p) /\ pipes[a] \in Pipes
      /\ p.pc = "closed" /\ p.error = pipes[a].error /\ p.sent = pipes[a].sent
      /\ p.mark = pipes[a].mark
      /\ pipes[a].pc = "offer" /\ cancelled
  BY <1>0, CloseEffect, PipesLen DEF At, Drop
<1> HIDE DEF p
<1>2. /\ attempt' = attempt /\ attempt \in Attempted /\ Attempted' = Attempted
      /\ pipes # <<>> /\ pipes' # <<>>
      /\ Now' = IF a = attempt THEN p ELSE Now
      /\ a = attempt => pipes[a] = Now
      /\ \A b \in Attempted : pipes'[b] = IF b = a THEN p ELSE pipes[b]
  BY <1>0, <1>1, NowBecomes
<1>3. UNCHANGED <<format, producer, handler, client, answer>>
  BY <1>0 DEF Drop
<1>4. attempt # 0 /\ UNCHANGED <<attempt, Outcome>>
  BY <1>2, <1>3, OutcomeStays DEF Attempted
<1>5. CASE a # attempt
  <2>1. Offered' = Offered /\ Ending' = Ending
    BY <1>2, <1>3, <1>4, <1>5, EndingStays DEF Offered
  <2> QED
    BY <1>3, <1>4, <2>1, Stutters
<1>6. CASE a = attempt
  <2>1. Offered' = Offered /\ Ending' = Ending
    BY <1>1, <1>2, <1>3, <1>4, <1>6, EndingStays DEF Offered
  <2> QED
    BY <1>3, <1>4, <2>1, Stutters
<1> QED
  BY <1>5, <1>6

(* A step that leaves the pipes, the answer and the client alone, and what  *)
(* the producer and the handler are about to tell.                          *)
LEMMA QuietMaps ==
  ASSUME UNCHANGED <<format, pipes, client, answer>>, producer'.error = producer.error,
         handler'.pc = "execute" <=> handler.pc = "execute"
  PROVE  [Promise!Next]_(Promise!vars)
<1>1. attempt' = attempt /\ Now' = Now /\ Offered' = Offered
  BY DEF attempt, Now, Offered
<1>2. Outcome' = Outcome
  BY OutcomeStays
<1>3. Ending' = Ending
  BY <1>1, EndingStays
<1> QED
  BY <1>1, <1>2, <1>3, Stutters

LEMMA ProducerMaps ==
  ASSUME IInv, Producer
  PROVE  [Promise!Next]_(Promise!vars)
<1>1. TypeOK /\ Reading /\ Answering /\ Unsent /\ \A a \in Attempted : Recorded(a)
  BY DEF IInv, Attempted
<1>2. UNCHANGED <<format, client, answer, handler>> /\ UNCHANGED Outcome
  BY OutcomeStays DEF Producer, ReceivePayload, ReceiveError, Retry, ReceiveEnd, Stop,
     SendError, CloseErrs, CloseData
<1>3. CASE ReceivePayload
  <2>1. /\ PipeBecomes(attempt, At(Now, "read")) /\ attempt \in Attempted /\ attempt # 0
        /\ Now.pc = "offer" /\ Now.error = "none" /\ producer.error = "none"
        /\ producer'.error \in {producer.error, "invalid"}
    BY <1>1, <1>3, ReceivePayloadEffect, PipesLen DEF ReceivePayload, ProducerIs, Reading
  <2>2. /\ attempt' = attempt /\ Now'.mark = Now.mark /\ Now'.sent = Now.sent
        /\ Now.mark \notin {"ok", "failed"}
    BY <1>1, <2>1, NowBecomes DEF At, Recorded, Now
  <2>3. Offered' = Offered
    BY <2>2 DEF Offered
  <2>4. CASE producer'.error = producer.error
    <3>1. Ending' = Ending
      BY <1>2, <2>2, <2>4, EndingStays
    <3> QED
      BY <1>2, <2>2, <2>3, <3>1, Stutters
  <2>5. CASE producer'.error = "invalid"
    <3>1. Ending = "no" /\ Ending' = "failed"
      BY <2>1, <2>2, <2>5, EndingIs, EndingIsNext
    <3> QED
      BY <1>2, <2>2, <2>3, <3>1, IsEnd
  <2> QED
    BY <2>1, <2>4, <2>5
<1>4. CASE ReceiveError
  <2> DEFINE pc == IF Now.pc = "canned" THEN "closed" ELSE "read"
  <2>1. /\ PipeBecomes(attempt, At(Now, pc)) /\ attempt \in Attempted /\ attempt # 0
        /\ producer.error = "none" /\ producer'.error = Now.error /\ Now.error \in StreamErrors
    BY <1>1, <1>4, ReceiveErrorEffect, PipesLen DEF ReceiveError, ProducerIs, Reading
  <2> HIDE DEF pc
  <2>2. attempt' = attempt /\ Now'.mark = Now.mark /\ Now'.sent = Now.sent
    BY <1>1, <2>1, NowBecomes DEF At
  <2>3. Now.mark = "failed"
    BY <1>1, <2>1 DEF Recorded, Now, StreamErrors
  <2>4. Offered' = Offered /\ Ending' = Ending
    BY <2>1, <2>2, <2>3, EndingIs, EndingIsNext DEF Offered, StreamErrors
  <2> QED
    BY <1>2, <2>2, <2>4, Stutters
<1>5. CASE Retry
  <2>1. /\ producer.pc = "retry" /\ producer.error \in StreamErrors \cup {"refused"}
        /\ ~producer.sentPayload /\ answer.got = <<>>
    BY <1>1, <1>5, ProducerFields DEF Retry, Reading, Unsent, Errors
  <2>2. Now.mark = "failed" /\ attempt # 0 /\ producer.error # "invalid"
    BY <1>1, <2>1, PipesLen DEF Reading, StreamErrors
  <2>3. Ending = "failed"
    BY <2>2, EndingIs
  <2>4. CASE UNCHANGED pipes /\ producer'.error = "refused"
    <3>1. attempt' = attempt /\ Now' = Now /\ Offered' = Offered
      BY <2>4 DEF attempt, Now, Offered
    <3>2. Ending' = Ending
      BY <2>2, <2>3, <2>4, <3>1, EndingIsNext
    <3> QED
      BY <1>2, <3>1, <3>2, Stutters
  <2>5. CASE /\ \E o \in Opened : Now' = o
             /\ attempt' = attempt + 1 /\ producer'.error = "none"
    <3>1. attempt' # 0 /\ Now'.sent \in {0, 1} /\ Now'.mark \in {"none", "failed"}
      BY <1>1, <2>5, PipesLen, OpenedType
    <3>2. Offered' \in {0, 1} /\ Ending' \in {"no", "failed"}
      BY <2>5, <3>1, EndingIsNext DEF Offered
    <3> QED
      BY <1>2, <2>1, <2>3, <2>5, <3>2, IsAttempt
  <2> QED
    BY <1>1, <1>5, <2>4, <2>5, RetryStepEffect DEF ProducerIs
<1>6. CASE ReceiveEnd \/ Stop \/ SendError \/ CloseErrs \/ CloseData
  <2>1. UNCHANGED pipes /\ producer'.error = producer.error
    BY <1>1, <1>6, ProducerMoves
       DEF ReceiveEnd, Stop, SendError, CloseErrs, CloseData, ProducerIs
  <2> QED
    BY <1>2, <2>1, QuietMaps
<1> QED
  BY <1>3, <1>4, <1>5, <1>6 DEF Producer

LEMMA ConverterMaps ==
  ASSUME IInv, Converter
  PROVE  [Promise!Next]_(Promise!vars)
<1>1. TypeOK /\ Reading
  BY DEF IInv
<1>2. UNCHANGED <<format, pipes, client, answer, handler>>
  BY DEF Converter, ConvertReceive, ConvertEnd
<1>3. producer'.error = producer.error
  BY <1>1, ConvertReceiveEffect DEF Converter, ConvertEnd, ProducerIs
<1> QED
  BY <1>2, <1>3, QuietMaps

(* What the handler finds when nobody has called anything off.              *)
LEMMA Pending ==
  ASSUME IInv, errBuf # "none", handler.pc # "execute"
  PROVE  Ending = "failed"
<1>1. TypeOK /\ Reading
  BY DEF IInv
<1>2. CASE attempt = 0
  BY <1>2, EndingIs
<1>3. CASE attempt # 0 /\ producer.error = "invalid"
  BY <1>3, EndingIs
<1>4. CASE attempt # 0 /\ producer.error # "invalid"
  <2>1. producer.error = errBuf /\ errBuf \in Errors
    BY <1>1, <1>4 DEF Reading, TypeOK
  <2>2. Now.mark = "failed"
    BY <1>1, <1>4, <2>1 DEF Reading, Errors
  <2> QED
    BY <1>4, <2>2, EndingIs
<1> QED
  BY <1>2, <1>3, <1>4

LEMMA EndOfData ==
  ASSUME IInv, DataClosed, client = "here", handler.pc # "done"
  PROVE  \/ Ending = "complete" /\ Delivered = Offered
         \/ Ending = "failed" /\ PendingError
<1>1. /\ TypeOK /\ Reading /\ Answering /\ Closing
  BY DEF IInv
<1>2. ~cancelled /\ attempt # 0 /\ producer.pc = "done"
  BY <1>1, PipesLen DEF Answering, DataClosed, Reading
<1>3. CASE producer.error = "none" /\ Now.mark = "ok" /\ Delivered = Now.sent
  BY <1>2, <1>3, EndingIs DEF Offered
<1>4. CASE producer.error # "none" /\ errBuf = producer.error
  <2>1. handler.errs
    BY <1>1, <1>2, <1>4, HandlerFields DEF Answering
  <2>2. PendingError /\ handler.pc # "execute"
    BY <1>1, <1>4, <2>1 DEF PendingError, Answering
  <2> QED
    BY <1>4, <2>2, Pending
<1> QED
  BY <1>1, <1>2, <1>3, <1>4 DEF Closing

(* The client is told of an error.                                          *)
LEMMA TellErrorMaps ==
  ASSUME IInv, NEW status \in {"ok", "error"}, TellError(status), PendingError,
         handler.pc \in {"peek", "forward"},
         UNCHANGED <<format, client, pipes, producer, convert>>
  PROVE  [Promise!Next]_(Promise!vars)
<1>1. TypeOK /\ Answering
  BY DEF IInv
<1>2. /\ answer'.got = answer.got /\ answer'.told = "failed" /\ handler'.pc = "done"
      /\ attempt' = attempt /\ Now' = Now /\ Offered' = Offered
  BY <1>1, TellErrorEffect DEF AnswerIs, HandlerIs, attempt, Now, Offered
<1>3. Ending' = Ending
  BY <1>2, EndingStays
<1>4. CASE client = "gone"
  BY <1>2, <1>3, <1>4, OutcomeStays, Stutters
<1>5. CASE client # "gone"
  <2>1. Outcome = "open" /\ Outcome' = "failed"
    BY <1>1, <1>2, <1>5, OutcomeIs, OutcomeIsNext DEF Answering
  <2>2. Ending = "failed"
    BY Pending DEF PendingError
  <2> QED
    BY <1>2, <1>3, <2>1, <2>2, IsTold
<1> QED
  BY <1>4, <1>5

(* The client is told that the stream is complete.                          *)
LEMMA TellEndMaps ==
  ASSUME IInv, TellEnd, handler.pc \in {"peek", "forward"},
         UNCHANGED <<format, client, pipes, producer, convert>>,
         client # "gone" =>
           \/ Ending = "complete" /\ Len(answer.got) = Offered
           \/ /\ Ending = "failed"
              /\ Promised = "never" \/ (Promised = "afterFirst" /\ answer.got = <<>>)
  PROVE  [Promise!Next]_(Promise!vars)
<1>1. TypeOK /\ Answering
  BY DEF IInv
<1>2. /\ answer'.got = answer.got /\ answer'.told = "complete" /\ handler'.pc = "done"
      /\ attempt' = attempt /\ Now' = Now /\ Offered' = Offered
  BY <1>1, TellEndEffect DEF AnswerIs, HandlerIs, attempt, Now, Offered
<1>3. Ending' = Ending
  BY <1>2, EndingStays
<1>4. CASE client = "gone"
  BY <1>2, <1>3, <1>4, OutcomeStays, Stutters
<1>5. CASE client # "gone"
  <2>1. Outcome = "open" /\ Outcome' = "complete"
    BY <1>1, <1>2, <1>5, OutcomeIs, OutcomeIsNext DEF Answering
  <2> QED
    BY <1>2, <1>3, <1>5, <2>1, IsTold
<1> QED
  BY <1>4, <1>5

LEMMA ExecuteMaps ==
  ASSUME IInv, Execute
  PROVE  [Promise!Next]_(Promise!vars)
<1>1. TypeOK /\ Answering /\ Reading
  BY DEF IInv
<1>2. /\ pipes = <<>> /\ attempt = 0 /\ producer.error = "none" /\ answer.got = <<>>
      /\ handler.pc = "execute" /\ handler'.pc = "peek"
  BY <1>1, ExecuteEffect, PipesLen DEF Execute, Answering, Reading, HandlerIs
<1>3. Offered = 0 /\ Ending = "no"
  BY <1>2, EndingIs DEF Offered
<1>4. UNCHANGED <<format, client, answer>> /\ UNCHANGED Outcome
  BY OutcomeStays DEF Execute
<1>5. CASE /\ \E o \in Opened : Now' = o
           /\ attempt' = attempt + 1 /\ producer'.error = "none"
  <2>1. attempt' # 0 /\ Now'.sent \in {0, 1} /\ Now'.mark \in {"none", "failed"}
    BY <1>2, <1>5, OpenedType
  <2>2. Offered' \in {0, 1} /\ Ending' \in {"no", "failed"}
    BY <1>5, <2>1, EndingIsNext DEF Offered
  <2> QED
    BY <1>2, <1>4, <1>5, <2>2, IsAttempt
<1>6. CASE UNCHANGED <<pipes, producer>>
  <2>1. attempt' = attempt /\ Offered' = Offered
    BY <1>2, <1>6 DEF attempt, Offered
  <2>2. Ending' = "failed"
    BY <1>2, <2>1, EndingIsNext
  <2> QED
    BY <1>3, <1>4, <2>1, <2>2, IsEnd
<1> QED
  BY <1>1, <1>2, <1>5, <1>6, ExecuteEffect DEF ProducerIs

LEMMA PeekEndMaps ==
  ASSUME IInv, PeekEnd
  PROVE  [Promise!Next]_(Promise!vars)
<1>1. /\ TypeOK /\ Answering /\ handler.pc = "peek" /\ DataClosed
      /\ UNCHANGED <<format, client, pipes, producer, convert>>
  BY DEF IInv, PeekEnd
<1>2. CASE format \in Checking /\ PendingError
  BY <1>1, <1>2, TellErrorMaps DEF PeekEnd
<1>3. CASE ~(format \in Checking /\ PendingError)
  <2>1. TellEnd /\ answer.got = <<>>
    BY <1>1, <1>3 DEF PeekEnd, Answering
  <2>2. ASSUME client # "gone"
        PROVE  \/ Ending = "complete" /\ Len(answer.got) = Offered
               \/ /\ Ending = "failed"
                  /\ Promised = "never" \/ (Promised = "afterFirst" /\ answer.got = <<>>)
    <3>1. client = "here" /\ format \in Formats
      BY <1>1, <2>2 DEF TypeOK
    <3>2. \/ Ending = "complete" /\ Delivered = Offered
          \/ Ending = "failed" /\ PendingError
      BY <1>1, <3>1, EndOfData
    <3>3. CASE Ending = "complete" /\ Delivered = Offered
      <4>1. convert.chunk = <<>> /\ Len(convert.chunk) = 0
        BY <1>1, ConvertFields DEF IInv, Unsent, Answering
      <4>2. Delivered = Len(answer.got)
        BY <1>1, <4>1, AnswerFields DEF Delivered
      <4> QED
        BY <3>3, <4>2
    <3>4. CASE Ending = "failed" /\ PendingError
      <4>1. format \notin Checking
        BY <1>3, <3>4
      <4> QED
        BY <2>1, <3>4, <4>1, PromisedIs
    <3> QED
      BY <3>2, <3>3, <3>4
  <2> QED
    BY <1>1, <2>1, <2>2, TellEndMaps
<1> QED
  BY <1>2, <1>3

LEMMA ForwardEndMaps ==
  ASSUME IInv, ForwardEnd
  PROVE  [Promise!Next]_(Promise!vars)
<1>1. /\ TypeOK /\ Answering /\ Unsent /\ handler.pc = "forward"
      /\ UNCHANGED <<format, client, pipes, producer, convert>>
  BY DEF IInv, ForwardEnd
<1>2. DataClosed /\ convert.pc # "offer"
  BY <1>1, ConvertFields DEF ForwardEnd, Unsent, IInv, Flowing, DataClosed
<1>3. CASE PendingError /\ format \notin KeepingAlive
  BY <1>1, <1>3, TellErrorMaps DEF ForwardEnd
<1>4. CASE ~(PendingError /\ format \notin KeepingAlive)
  <2>1. TellEnd
    BY <1>4 DEF ForwardEnd
  <2>2. ASSUME client # "gone"
        PROVE  \/ Ending = "complete" /\ Len(answer.got) = Offered
               \/ /\ Ending = "failed"
                  /\ Promised = "never" \/ (Promised = "afterFirst" /\ answer.got = <<>>)
    <3>1. client = "here" /\ format \in Formats
      BY <1>1, <2>2 DEF TypeOK
    <3>2. \/ Ending = "complete" /\ Delivered = Offered
          \/ Ending = "failed" /\ PendingError
      BY <1>1, <1>2, <3>1, EndOfData
    <3>3. CASE Ending = "complete" /\ Delivered = Offered
      <4>1. convert.chunk = <<>> /\ Len(convert.chunk) = 0
        BY <1>1, <1>2, ConvertFields DEF Unsent
      <4>2. Delivered = Len(answer.got)
        BY <1>1, <4>1, AnswerFields DEF Delivered
      <4> QED
        BY <3>3, <4>2
    <3>4. CASE Ending = "failed" /\ PendingError
      BY <1>4, <3>4, PromisedIs
    <3> QED
      BY <3>2, <3>3, <3>4
  <2> QED
    BY <1>1, <2>1, <2>2, TellEndMaps
<1> QED
  BY <1>3, <1>4

(* A payload reaches the client.                                            *)
LEMMA DeliveryMaps ==
  ASSUME IInv, UNCHANGED <<format, client, pipes>>, handler.pc \in {"peek", "forward"},
         producer'.error = producer.error, handler'.pc = "forward",
         answer'.told = answer.told, pipes # <<>>, Len(answer.got) < Now.sent,
         answer'.got = Append(answer.got, <<attempt, Len(answer.got) + 1>>)
  PROVE  [Promise!Next]_(Promise!vars)
<1>1. TypeOK /\ Answering
  BY DEF IInv
<1>2. attempt' = attempt /\ Now' = Now /\ Offered' = Offered /\ Offered = Now.sent
  BY <1>1, PipesLen DEF attempt, Now, Offered
<1>3. Ending' = Ending /\ Outcome' = Outcome
  BY <1>2, EndingStays, OutcomeStays
<1>4. Outcome \in {"open", "left"}
  BY <1>1, OutcomeIs DEF Answering
<1> QED
  BY <1>2, <1>3, <1>4, IsDeliver

LEMMA PeekPayloadMaps ==
  ASSUME IInv, PeekPayload
  PROVE  [Promise!Next]_(Promise!vars)
<1>1. TypeOK /\ Reading /\ Unsent /\ Answering /\ Flowing
  BY DEF IInv
<1>2. /\ handler.pc = "peek" /\ producer.pc = "data" /\ answer.got = <<>> /\ convert.pc = "off"
      /\ UNCHANGED <<format, client, pipes>>
  BY <1>1 DEF PeekPayload, Answering
<1>3. /\ answer'.got = <<Payload>> /\ answer'.told = answer.told /\ handler'.pc = "forward"
      /\ producer'.error = producer.error /\ pipes # <<>>
  BY <1>1, PeekPayloadEffect DEF AnswerIs, HandlerIs, ProducerIs
<1>4. convert.chunk = <<>>
  BY <1>1, <1>2 DEF Unsent
<1>5. Delivered = 0 /\ InHand = 1
  BY <1>1, <1>2, <1>4, AnswerFields, ConvertFields DEF Delivered, InHand
<1>6. producer.chunk = 1 /\ 1 <= Now.sent
  BY <1>1, <1>2, <1>3, <1>5 DEF Flowing
<1>7. Len(answer.got) = 0 /\ Now.sent \in Nat
  BY <1>1, <1>2, <1>3, AnswerFields, PipesLen, PipeFields DEF Now
<1>8. <<Payload>> = Append(answer.got, <<attempt, Len(answer.got) + 1>>)
  BY <1>2, <1>6, <1>7 DEF Payload
<1>9. Len(answer.got) < Now.sent
  BY <1>6, <1>7
<1> QED
  BY <1>2, <1>3, <1>8, <1>9, DeliveryMaps

LEMMA ForwardPayloadMaps ==
  ASSUME IInv, ForwardPayload
  PROVE  [Promise!Next]_(Promise!vars)
<1>1. TypeOK /\ Reading /\ Unsent /\ Answering /\ Flowing /\ Committed
  BY DEF IInv
<1>2. handler.pc = "forward" /\ UNCHANGED <<format, client, pipes, handler>>
  BY DEF ForwardPayload
<1>3. pipes # <<>> /\ Len(answer.got) \in Nat
  BY <1>1, <1>2, ProducerFields, AnswerFields DEF Reading, Unsent, Answering, Closing, IInv
<1>4. Now.sent \in Nat
  BY <1>1, <1>3, PipesLen, PipeFields DEF Now
<1>5. CASE /\ convert.pc = "off" /\ producer.pc = "data"
           /\ answer'.got = Append(answer.got, Payload) /\ answer'.told = answer.told
           /\ producer'.error = producer.error
  <2>1. convert.chunk = <<>>
    BY <1>1, <1>5 DEF Unsent
  <2>2. PICK n \in Nat : n = Len(answer.got)
    BY <1>3
  <2>3. Len(convert.chunk) = 0
    BY <1>1, <2>1, ConvertFields
  <2>4. InHand = n + 1
    BY <1>5, <2>2, <2>3 DEF Delivered, InHand
  <2>5. producer.chunk = n + 1 /\ n + 1 <= Now.sent
    BY <1>1, <1>2, <1>3, <1>5, <2>4 DEF Flowing
  <2>6. Payload = <<attempt, Len(answer.got) + 1>> /\ Len(answer.got) < Now.sent
    BY <1>4, <2>2, <2>5 DEF Payload
  <2> QED
    BY <1>2, <1>3, <1>5, <2>6, DeliveryMaps
<1>6. CASE /\ convert.pc = "offer"
           /\ answer'.got = answer.got \o convert.chunk /\ answer'.told = answer.told
           /\ producer'.error = producer.error
  <2>1. convert.chunk = <<<<attempt, Len(answer.got) + 1>>>>
    BY <1>1, <1>2, <1>3, <1>6 DEF Flowing
  <2>2. Len(convert.chunk) = 1
    BY <2>1
  <2>3. PICK n \in Nat : n = Len(answer.got)
    BY <1>3
  <2>4. Delivered = n + 1
    BY <2>2, <2>3 DEF Delivered
  <2>5. n + 1 <= Now.sent
    BY <1>1, <1>2, <1>3, <1>4, <2>4 DEF Flowing, InHand
  <2>6. Len(answer.got) < Now.sent
    BY <1>4, <2>3, <2>5
  <2>7. answer'.got = Append(answer.got, <<attempt, Len(answer.got) + 1>>)
    BY <1>1, <1>6, <2>1, AnswerFields DEF Payloads
  <2> QED
    BY <1>2, <1>3, <1>6, <2>6, <2>7, DeliveryMaps
<1> QED
  BY <1>1, <1>5, <1>6, ForwardPayloadEffect DEF AnswerIs, ProducerIs, ConverterIs

LEMMA HandlerMaps ==
  ASSUME IInv, Handler
  PROVE  [Promise!Next]_(Promise!vars)
<1>1. TypeOK
  BY DEF IInv
<1>2. CASE LeaveClient
  <2>1. handler'.pc = "done" /\ handler.pc # "execute"
    BY <1>1, <1>2, ReturnEffect DEF LeaveClient, HandlerIs
  <2> QED
    BY <1>2, <2>1, QuietMaps DEF LeaveClient
<1>3. CASE PeekError
  BY <1>3, TellErrorMaps DEF PeekError
<1>4. CASE PeekNoError
  <2>1. handler'.pc = handler.pc
    BY <1>1, <1>4, PeekNoErrorEffect DEF HandlerIs
  <2> QED
    BY <1>4, <2>1, QuietMaps DEF PeekNoError
<1>5. CASE PeekKeepAlive
  <2>1. answer'.got = answer.got /\ answer'.told = answer.told
    BY <1>1, <1>5, PeekKeepAliveEffect DEF AnswerIs
  <2>2. UNCHANGED <<format, client, pipes, producer, handler>>
    BY <1>5 DEF PeekKeepAlive
  <2>3. attempt' = attempt /\ Now' = Now /\ Offered' = Offered
    BY <2>2 DEF attempt, Now, Offered
  <2>4. Ending' = Ending /\ Outcome' = Outcome
    BY <2>1, <2>2, <2>3, EndingStays, OutcomeStays
  <2> QED
    BY <2>1, <2>2, <2>3, <2>4, Stutters
<1>6. CASE ForwardError
  BY <1>6, TellErrorMaps DEF ForwardError
<1> QED
  BY <1>2, <1>3, <1>4, <1>5, <1>6, ExecuteMaps, PeekEndMaps, PeekPayloadMaps,
     ForwardPayloadMaps, ForwardEndMaps DEF Handler

LEMMA ClientMaps ==
  ASSUME IInv, ClientLeaves \/ PassCancel
  PROVE  [Promise!Next]_(Promise!vars)
<1>1. Answering
  BY DEF IInv
<1>2. UNCHANGED <<format, pipes, producer, handler, answer>>
  BY DEF ClientLeaves, PassCancel
<1>3. attempt' = attempt /\ Now' = Now /\ Offered' = Offered
  BY <1>2 DEF attempt, Now, Offered
<1>4. Ending' = Ending
  BY <1>2, <1>3, EndingStays
<1>5. CASE ClientLeaves
  <2>1. Outcome = "open" /\ Outcome' = "left"
    BY <1>1, <1>5, OutcomeIs, OutcomeIsNext DEF ClientLeaves, Answering
  <2> QED
    BY <1>2, <1>3, <1>4, <2>1, IsLeave
<1>6. CASE PassCancel
  BY <1>2, <1>6, QuietMaps DEF PassCancel
<1> QED
  BY <1>5, <1>6

LEMMA InitMaps == Init => Promise!Init
<1> SUFFICES ASSUME Init PROVE Promise!Init
  OBVIOUS
<1>1. attempt = 0 /\ Ending = "no" /\ Outcome = "open"
  BY EndingIs, OutcomeIs DEF Init, attempt
<1>2. Promised \in {"always", "afterFirst", "never"}
  BY DEF Promised
<1> QED
  BY <1>1, <1>2 DEF Init, Promise!Init

LEMMA StepMaps == IInv /\ [Next]_vars => [Promise!Next]_(Promise!vars)
<1> SUFFICES ASSUME IInv, [Next]_vars PROVE [Promise!Next]_(Promise!vars)
  OBVIOUS
<1>1. CASE UNCHANGED vars
  BY <1>1, QuietMaps DEF vars
<1>2. ASSUME NEW a \in Attempted, Forwarder(a) \/ Provider(a)
      PROVE  [Promise!Next]_(Promise!vars)
  BY <1>2, MarkEndMaps, CloseOutMaps, DropMaps, SendMaps, FinishMaps, BreakMaps
     DEF Forwarder, Provider
<1> QED
  BY <1>1, <1>2, ProducerMaps, ConverterMaps, HandlerMaps, ClientMaps DEF Next, Attempted

(* The client gets what ClientStream promises, for every endpoint, however   *)
(* many retries are allowed and however long the provider's streams are:     *)
(* the payloads of one attempt in order and without a gap, told complete     *)
(* only if the provider's stream was, and a failure kept quiet only where    *)
(* the endpoint is known to keep quiet.                                      *)
THEOREM PromiseIsKept == Spec => PromiseKept
<1>1. Init => Promise!Init
  BY InitMaps
<1>2. IInv /\ [Next]_vars => [Promise!Next]_(Promise!vars)
  BY StepMaps
<1> QED
  BY <1>1, <1>2, IInvInvariant, PTL DEF Spec, PromiseKept, Promise!Spec
=============================================================================
