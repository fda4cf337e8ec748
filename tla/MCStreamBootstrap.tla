------------------------- MODULE MCStreamBootstrap -------------------------
(* StreamBootstrap with every kind of endpoint.                           *)
EXTENDS StreamBootstrap
=============================================================================
