------------------------------ MODULE MCLedger ------------------------------
(***************************************************************************)
(* Small instances of Ledger.                                              *)
(***************************************************************************)
EXTENDS LedgerRefinement

CONSTANTS c1, p1, p2, metered, j1

Amount(billed, list) == [b \in Bases |-> IF b = "billed" THEN billed ELSE list]

MCProjectCap == [p \in Projects |-> 3]
MCCallerDayCap == [c \in Callers |-> 4]
MCUncappedCaller == [c \in Callers |-> NoCap]
MCBrakeCap == [l \in Lanes |-> 2]

Ask(project, job, cap, billed, list) ==
  [caller_id |-> c1, project_id |-> project, job_id |-> job, lane_used |-> metered,
   cap_presented |-> cap, worst |-> Amount(billed, list)]

(* Clock run: days, months, a stepped clock and the latch, with requests   *)
(* of one size, one of which reaches the ceiling.                          *)
ClockInputs == {Ask(p1, NoJob, 2, 2, 2)}
ClockActuals == {Amount(1, 1)}

(* Budget run: one instant; a job and plain requests over two projects,    *)
(* billed and list apart, a provider that may overcharge.                  *)
BudgetInputs == {Ask(p1, j1, 2, 1, 1), Ask(p1, j1, 3, 1, 2), Ask(p2, NoJob, 2, 2, 2)}
BudgetActuals == {Amount(0, 0), Amount(2, 2)}

BudgetBrakeCap == [l \in Lanes |-> 5]
=============================================================================
