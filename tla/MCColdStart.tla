---------------------------- MODULE MCColdStart ----------------------------
(* Two variables whose references point into the same or different secrets. *)
EXTENDS ColdStart, TLC

Symmetric == Permutations(Names) \cup Permutations(Secrets)
=============================================================================
