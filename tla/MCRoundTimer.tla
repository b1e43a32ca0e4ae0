---------------------------- MODULE MCRoundTimer ----------------------------
(***************************************************************************)
(* RoundTimer with two nodes, the clock of one ahead by less than half a   *)
(* second, and a slot duration that is not divisible by three.             *)
(***************************************************************************)
EXTENDS RoundTimer

MCSkew == [n \in Node |-> IF n = "b" THEN MaxSkew ELSE 0]

MCTimer == {<<"eager_dlinear", TRUE>>, <<"eager_dlinear", FALSE>>,
            <<"inc", FALSE>>, <<"linear", FALSE>>}

Eager == {<<"eager_dlinear", TRUE>>}
=============================================================================
