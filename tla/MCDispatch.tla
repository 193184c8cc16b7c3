---------------------------- MODULE MCDispatch ----------------------------
(* Two threads and three calls, every route, every handler the signals had *)
(* before and the handlers installed or not.                               *)
EXTENDS Dispatch

Symmetric == Permutations(Threads) \cup Permutations(Calls)
=============================================================================
