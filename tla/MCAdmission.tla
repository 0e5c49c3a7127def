---------------------------- MODULE MCAdmission -----------------------------
(***************************************************************************)
(* A small instance of Admission: prices that round on every component,    *)
(* and caps around the price of the floor, of the estimates and of the     *)
(* first tokens of output.                                                 *)
(***************************************************************************)
EXTENDS Admission

CONSTANTS MaxOutput, MaxCap

MCPrices ==
  [c \in Components |-> IF c = "input" THEN 3 ELSE IF c = "output" THEN 7 ELSE 2]
MCAsks ==
  [counted : {0, 1, 20}, bytes : {10, 100}, max_tokens : 1..MaxOutput, cap : 0..MaxCap]
MCUsages ==
  {[c \in Components |->
      IF c = "input" THEN i ELSE IF c = "output" THEN o ELSE IF c = "cache_read" THEN k ELSE 0] :
     i \in {0, 4, 32, 40, 53, 60}, o \in 0..(MaxOutput + 1), k \in {0, 1}}
=============================================================================
