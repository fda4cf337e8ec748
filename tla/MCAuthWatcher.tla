--------------------------- MODULE MCAuthWatcher ---------------------------
(* AuthWatcher with one file, of contents that both, neither or one of the   *)
(* event goroutine and the synthesizer take, one relay session, the         *)
(* startup's reload and one of a changed configuration.                     *)
EXTENDS AuthWatcher, TLC

CONSTANTS f1, s1, old, new, marked, untyped, junk, start, again

OneAtATime == {{}, {"forces"}, {"excludes"}, {"moves"}}
EitherContent == Permutations({old, new})
=============================================================================
