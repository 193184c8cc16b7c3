------------------------- MODULE MCSingletonTimeout -------------------------
(* Timeouts of a few seconds, with and without an alarm from before. *)
EXTENDS SingletonTimeout

MCLimits == {<<1, 2>>, <<1, 3>>, <<2, 3>>}
OneLimit == {<<1, 3>>}
=============================================================================
