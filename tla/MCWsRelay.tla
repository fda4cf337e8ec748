----------------------------- MODULE MCWsRelay -----------------------------
(* WsRelay with a streaming and a plain request over a channel of one.     *)
EXTENDS WsRelay, TLC

CONSTANTS r1, r2

OneStream == {r1}
TwoAndOne == (r1 :> 2) @@ (r2 :> 1)
=============================================================================
