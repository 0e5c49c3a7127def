--------------------------- MODULE MCMeteredLane ---------------------------
(* MeteredLane with two concurrent requests on a clock of a few units: a   *)
(* failure window of 3, backoffs of 1, 2, 2, cooldowns of 2 and 3, a probe *)
(* every 3 units while up and every unit while down, answered within one.  *)
EXTENDS MeteredLane

CONSTANTS c1, c2

MCCalls == {c1, c2}
MCSpendTimes == {2, 3}
=============================================================================
