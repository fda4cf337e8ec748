---------------------------- MODULE ClientStream ----------------------------
(***************************************************************************)
(* What a streaming request promises its client: the payloads of exactly   *)
(* one attempt, in the order the provider sent them, and an end that says  *)
(* how that attempt ended.  StreamBootstrap implements it.                 *)
(***************************************************************************)
EXTENDS Naturals, Sequences

VARIABLES
  promise,   \* when a failure is sure to be told: "always", "afterFirst", "never"
  attempt,   \* number of the attempt the request is at, 0 before the first
  offered,   \* payloads its provider has sent
  ended,     \* how it ended: "no", "complete", "failed"
  got,       \* what the client has: pairs of an attempt and a payload's number
  outcome    \* what the client was told: "open", "complete", "failed", "left"

vars == <<promise, attempt, offered, ended, got, outcome>>

Init ==
  /\ promise \in {"always", "afterFirst", "never"}
  /\ attempt = 0
  /\ offered = 0
  /\ ended = "no"
  /\ got = <<>>
  /\ outcome = "open"

(* Another attempt is made only of a request whose client has nothing yet. *)
Attempt ==
  /\ got = <<>>
  /\ attempt = 0 \/ ended = "failed"
  /\ attempt' = attempt + 1
  /\ offered' \in {0, 1}
  /\ ended' \in {"no", "failed"}
  /\ UNCHANGED <<promise, got, outcome>>

Offer ==
  /\ ended # "complete"
  /\ offered' = offered + 1
  /\ UNCHANGED <<promise, attempt, ended, got, outcome>>

End ==
  /\ ended = "no"
  /\ ended' \in {"complete", "failed"}
  /\ UNCHANGED <<promise, attempt, offered, got, outcome>>

(* What is written to a client that has left is written in vain. *)
Deliver ==
  /\ outcome \in {"open", "left"}
  /\ Len(got) < offered
  /\ got' = Append(got, <<attempt, Len(got) + 1>>)
  /\ UNCHANGED <<promise, attempt, offered, ended, outcome>>

TellComplete ==
  /\ outcome = "open"
  /\ ended = "complete"
  /\ Len(got) = offered
  /\ outcome' = "complete"
  /\ UNCHANGED <<promise, attempt, offered, ended, got>>

TellFailure ==
  /\ outcome = "open"
  /\ ended = "failed"
  /\ outcome' = "failed"
  /\ UNCHANGED <<promise, attempt, offered, ended, got>>

(* The defect of the formats that do not look for a pending error. *)
HideFailure ==
  /\ outcome = "open"
  /\ ended = "failed"
  /\ promise = "never" \/ (promise = "afterFirst" /\ got = <<>>)
  /\ outcome' = "complete"
  /\ UNCHANGED <<promise, attempt, offered, ended, got>>

Leave ==
  /\ outcome = "open"
  /\ outcome' = "left"
  /\ UNCHANGED <<promise, attempt, offered, ended, got>>

Next ==
  \/ Attempt \/ Offer \/ End \/ Deliver
  \/ TellComplete \/ TellFailure \/ HideFailure \/ Leave

Spec == Init /\ [][Next]_vars
=============================================================================
