-------------------------- MODULE MCGatewayService --------------------------
(* GatewayService with two concurrent requests at one instant.  The        *)
(* ceiling takes both at their worst case and refuses a third then: what   *)
(* interleaves is the requests, the provider, the worker threads, failed   *)
(* writes, the latch and its reset, shutdown, crash and restart.           *)
EXTENDS GatewayService

CONSTANTS c1, p1, metered, t1, t2

ServiceAsk ==
  [caller_id |-> c1, project_id |-> p1, job_id |-> NoJob, lane_used |-> metered,
   cap_presented |-> 2, worst |-> [b \in Bases |-> 2]]

MCInputs == {ServiceAsk}
MCActuals == {[b \in Bases |-> 1]}
MCAmpleProject == [p \in Projects |-> 9]
MCBrake == [l \in Lanes |-> 5]
MCNoDayCap == [c \in Callers |-> NoCap]
=============================================================================
