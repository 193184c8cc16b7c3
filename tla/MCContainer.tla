---------------------------- MODULE MCContainer ----------------------------
(* Two variables whose references point into the same or different secrets. *)
EXTENDS Container, TLC

Symmetric == Permutations(Names) \cup Permutations(Secrets)
=============================================================================
