----------------------------- MODULE Dispatcher -----------------------------
(***************************************************************************)
(* services/jobs-mcp/src/dispatcher.ts and index.ts over JobQueue: the     *)
(* in-process loop that claims jobs and awaits n8n, the accounting of the  *)
(* bridge to n8n, its idle probe, SIGTERM, crash and boot.                 *)
(*                                                                         *)
(* JavaScript runs one handler at a time, so an action is what runs        *)
(* between two awaits; a crash may fall between any two transactions.  A   *)
(* dispatch waits for the response headers ("posting"), then for the body  *)
(* ("reading"); one whose task type is no longer registered ("removed")    *)
(* only has its failure to write.  n8n is external: any answer may come,   *)
(* or none.                                                                *)
(***************************************************************************)
EXTENDS JobQueue

CONSTANTS
  Concurrency,            \* DISPATCH_CONCURRENCY
  Registries,             \* the task types a boot may find registered
  BridgeUnit, BridgeCap,  \* the bridge's backoff, in ticks
  MaxExponent,            \* and the exponent at which it stops growing
  MaxRestarts             \* bound: ends of a dispatching process in a behaviour

ASSUME DispatcherConstants ==
  /\ Concurrency \in Nat \ {0}
  /\ \A r \in Registries : r \subseteq TaskTypes
  /\ BridgeUnit \in Nat /\ BridgeCap \in Nat /\ MaxExponent \in Nat /\ MaxRestarts \in Nat

VARIABLES
  process,    \* "down", "up", or "draining" after SIGTERM
  registry,   \* the task types this process found; empty: nothing dispatches
  slots,      \* inFlight: the dispatches awaited, at most Concurrency
  awaited,    \* the dispatches drain() waits for
  failures,   \* bridgeFailures, to the exponent it stops mattering at
  backoff,    \* time left until bridgeBackoffUntil
  probing,    \* an idle probe's connection check is in flight
  restarts    \* bound

process_vars == <<process, registry, restarts>>
bridge == <<failures, backoff>>
vars == <<jobs, process, registry, slots, awaited, failures, backoff, probing, restarts>>

Slots == 1..Concurrency
Idle == [job |-> 0, attempt |-> 0, phase |-> "idle"]
Dispatch == [job : Nat, attempt : Nat, phase : {"idle", "posting", "reading", "removed"}]
InFlight == {s \in Slots : slots[s] # Idle}
Serving == process \in {"up", "draining"}
Dispatching == process = "up" /\ registry # {}
BridgeUp == failures = 0

MarkBridgeUp == failures' = 0 /\ UNCHANGED backoff

Backoffs(count) ==
  {w \in 0..BridgeCap :
     LET full == BridgeUnit * 2 ^ count
     IN w = IF full < BridgeCap THEN full ELSE BridgeCap}
MarkBridgeDown ==
  /\ failures' = IF failures < MaxExponent THEN failures + 1 ELSE failures
  /\ backoff' \in Backoffs(failures')

Init ==
  /\ jobs = <<>> /\ process = "down" /\ registry = {} /\ restarts = 0
  /\ slots = [s \in Slots |-> Idle] /\ awaited = {}
  /\ failures = 0 /\ backoff = 0 /\ probing = FALSE

(***************************************************************************)
(* Callers, served as long as the HTTP server is.                          *)
(***************************************************************************)
EnqueueTool(e) ==
  /\ Serving /\ e.task_type \in registry
  /\ Enqueue(e)
  /\ UNCHANGED <<process, registry, slots, awaited, failures, backoff, probing, restarts>>

CancelTool(i) ==
  /\ Serving /\ Cancel(i)
  /\ UNCHANGED <<process, registry, slots, awaited, failures, backoff, probing, restarts>>

(***************************************************************************)
(* The loop.  A claim is its own transaction and the synchronous head of   *)
(* dispatch() follows it, up to the fetch; a tick repeats Claim.           *)
(***************************************************************************)
MayClaim_MidProbe == Dispatching /\ backoff = 0
MayClaim_Draining == Serving /\ registry # {} /\ ~probing /\ backoff = 0
MayClaim == Dispatching /\ ~probing /\ backoff = 0

FirstPhase(i) ==
  IF jobs[i].envelope.task_type \in registry THEN "posting" ELSE "removed"

Claim(i, s) ==
  /\ MayClaim
  /\ slots[s] = Idle /\ \A t \in Slots : t < s => slots[t] # Idle
  /\ ClaimNext(i)
  /\ slots' = [slots EXCEPT ![s] =
       [job |-> i, attempt |-> jobs'[i].attempts, phase |-> FirstPhase(i)]]
  /\ UNCHANGED <<process, registry, awaited, failures, backoff, probing, restarts>>

(* A dispatch ends: its row is written and its promise leaves inFlight.    *)
Ends(s, rows) ==
  /\ \E r \in rows : jobs' = [jobs EXCEPT ![slots[s].job] = r]
  /\ slots' = [slots EXCEPT ![s] = Idle]
  /\ awaited' = awaited \ {s}
  /\ UNCHANGED <<process_vars, probing>>

In(s, phase) == Serving /\ slots[s].phase = phase
JobRow(s) == jobs[slots[s].job]

FailRemoved(s) ==
  /\ In(s, "removed")
  /\ Ends(s, FailedTerminal(JobRow(s)))
  /\ UNCHANGED bridge

TimesOut(s) ==
  /\ In(s, "posting")
  /\ Ends(s, FailedAttempt(JobRow(s), TRUE))
  /\ UNCHANGED bridge

ConnectionFails(s) ==
  /\ In(s, "posting")
  /\ MarkBridgeDown
  /\ Ends(s, GivenBack(JobRow(s), backoff'))

HttpError(s) ==
  /\ In(s, "posting")
  /\ MarkBridgeUp
  /\ Ends(s, FailedAttempt(JobRow(s), TRUE))

Headers(s) ==
  /\ In(s, "posting")
  /\ MarkBridgeUp
  /\ slots' = [slots EXCEPT ![s].phase = "reading"]
  /\ UNCHANGED <<jobs, awaited, process_vars, probing>>

(* The body is unparseable, not a report, or a report of failure; or       *)
(* reading it throws, which the caller's catch turns into a failed         *)
(* attempt as well.                                                        *)
BadReport(s) ==
  /\ In(s, "reading")
  /\ Ends(s, FailedAttempt(JobRow(s), TRUE))
  /\ UNCHANGED bridge

(* A body, result or manifest that breaks the contract: it would do so on  *)
(* every retry (failAttempt, not retryable, or failTerminal).              *)
ContractBroken(s) ==
  /\ In(s, "reading")
  /\ Ends(s, FailedAttempt(JobRow(s), FALSE))
  /\ UNCHANGED bridge

Succeeds(s) ==
  /\ In(s, "reading")
  /\ Ends(s, Succeeded(JobRow(s)))
  /\ UNCHANGED bridge

(* The write that would end the dispatch throws (a full disk): the catch   *)
(* fails the attempt, or throws too and leaves the row running.            *)
LastResort(s) ==
  /\ Serving /\ slots[s] # Idle
  /\ IF slots[s].phase = "posting"
     THEN MarkBridgeDown \/ MarkBridgeUp \/ UNCHANGED bridge
     ELSE UNCHANGED bridge
  /\ Ends(s, FailedAttempt(JobRow(s), TRUE) \cup {JobRow(s)})

(***************************************************************************)
(* The idle probe.                                                         *)
(***************************************************************************)
ProbeStarts ==
  /\ Dispatching /\ ~probing /\ InFlight = {} /\ backoff = 0
  /\ probing' = TRUE
  /\ UNCHANGED <<jobs, slots, awaited, process_vars, failures, backoff>>

(* A result that arrives after SIGTERM changes nothing.                    *)
ProbeEnds(Mark) ==
  /\ Serving /\ probing /\ probing' = FALSE
  /\ IF process = "draining" THEN UNCHANGED bridge ELSE Mark
  /\ UNCHANGED <<jobs, slots, awaited, process_vars>>

ProbeReaches_Unmarked == ProbeEnds(UNCHANGED bridge)
ProbeReaches == ProbeEnds(MarkBridgeUp)
ProbeFails == ProbeEnds(MarkBridgeDown)

(***************************************************************************)
(* The process.                                                            *)
(***************************************************************************)
(* The bound is on the processes that dispatch: one that found no registry *)
(* may always be replaced.                                                 *)
Counted ==
  \/ registry # {} /\ restarts < MaxRestarts /\ restarts' = restarts + 1
  \/ registry = {} /\ UNCHANGED restarts

Sigterm ==
  /\ process = "up" /\ Counted
  /\ process' = "draining"
  /\ awaited' = InFlight
  /\ UNCHANGED <<jobs, registry, slots, failures, backoff, probing>>

Stops ==
  /\ process' = "down"
  /\ slots' = [s \in Slots |-> Idle] /\ awaited' = {} /\ registry' = {}
  /\ failures' = 0 /\ backoff' = 0 /\ probing' = FALSE
  /\ UNCHANGED jobs

DrainEnds == process = "draining" /\ awaited = {} /\ Stops /\ UNCHANGED restarts
GraceExpires == process = "draining" /\ awaited # {} /\ Stops /\ UNCHANGED restarts

Crash ==
  /\ process = "up" /\ Counted
  /\ Stops

(* Boot: the registry is read, then orphans are swept, then start().       *)
Boot(r) ==
  /\ process = "down" /\ process' = "up"
  /\ registry' = r
  /\ BootSweep
  /\ UNCHANGED <<slots, awaited, failures, backoff, probing, restarts>>

(* Time, which passes for the table and for the bridge alike.              *)
Less(w) == IF w > 0 THEN w - 1 ELSE w
Tick ==
  /\ backoff > 0 \/ \E i \in JobIds : jobs[i].not_before > 0
  /\ backoff' = Less(backoff)
  /\ jobs' = [i \in JobIds |-> [jobs[i] EXCEPT !.not_before = Less(@)]]
  /\ UNCHANGED <<slots, awaited, process_vars, failures, probing>>

Answer(s) ==
  \/ TimesOut(s) \/ HttpError(s) \/ Headers(s)
  \/ BadReport(s) \/ ContractBroken(s) \/ Succeeds(s)

Next ==
  \/ \E e \in Envelopes : EnqueueTool(e)
  \/ \E i \in JobIds : CancelTool(i) \/ \E s \in Slots : Claim(i, s)
  \/ \E s \in Slots : FailRemoved(s) \/ ConnectionFails(s) \/ Answer(s) \/ LastResort(s)
  \/ ProbeStarts \/ ProbeReaches \/ ProbeFails
  \/ Sigterm \/ DrainEnds \/ GraceExpires \/ Crash
  \/ \E r \in Registries : Boot(r)
  \/ Tick

Spec == Init /\ [][Next]_vars

(***************************************************************************)
(* Fairness.  The clock runs and Kubernetes restarts the container.  Every *)
(* await is bounded (AbortSignal.timeout, the grace period).  The loop's   *)
(* timer fires 120 times between two probes, so a job that is due whenever *)
(* no probe runs is claimed.  n8n is not unreachable for ever: a job that  *)
(* is posted again and again is answered, a probe tried again and again    *)
(* gets through.  Nothing is assumed of callers, SIGTERM, crash or disk.   *)
(***************************************************************************)
DispatchMoves(s) == FailRemoved(s) \/ ConnectionFails(s) \/ Answer(s) \/ LastResort(s)
Fairness ==
  /\ WF_vars(Tick)
  /\ WF_vars(\E r \in Registries : Boot(r)) /\ WF_vars(DrainEnds \/ GraceExpires)
  /\ SF_vars(\E i \in JobIds, s \in Slots : Claim(i, s))
  /\ \A s \in Slots : WF_vars(DispatchMoves(s))
  /\ \A i \in 1..MaxJobs : SF_vars(\E s \in Slots : slots[s].job = i /\ Answer(s))
  /\ WF_vars(ProbeStarts) /\ WF_vars(ProbeReaches \/ ProbeFails) /\ SF_vars(ProbeReaches)

FairSpec == Spec /\ Fairness

(***************************************************************************)
(* Properties.                                                             *)
(***************************************************************************)
TypeOK ==
  /\ jobs \in Seq(Row) /\ Len(jobs) <= MaxJobs
  /\ process \in {"down", "up", "draining"} /\ registry \in {{}} \cup Registries
  /\ slots \in [Slots -> Dispatch] /\ awaited \subseteq Slots
  /\ failures \in 0..MaxExponent /\ backoff \in 0..BridgeCap /\ probing \in BOOLEAN
  /\ restarts \in 0..MaxRestarts

(* max_attempts bounds the tries of a job although the claim never looks   *)
(* at it: failed attempts, reverted claims and boot sweeps leave no row in *)
(* the queue whose tries are used up, and no job fails for want of tries   *)
(* it still had (queue.ts:136-160, 177-206).                               *)
WithinBudget(r) ==
  /\ r.attempts <= r.max_attempts
  /\ r.state = "queued" => r.attempts < r.max_attempts
  /\ r.state = "running" => r.attempts > 0
  /\ r.error = "retries_exhausted" => r.state = "failed" /\ r.attempts = r.max_attempts
AttemptsWithinBudget == \A i \in JobIds : WithinBudget(jobs[i])

(* A dispatch that is still awaited owns its row: the row is running, in   *)
(* the attempt the dispatch was started for, and no other dispatch is      *)
(* awaited for it.  So whatever the answer, it is written to the attempt   *)
(* it answers (dispatcher.ts:143-176, 178-308).                            *)
DispatchOwnsRow ==
  \A s \in InFlight :
    /\ slots[s].job \in JobIds
    /\ JobRow(s).state = "running" /\ JobRow(s).attempts = slots[s].attempt
    /\ \A t \in InFlight \ {s} : slots[t].job # slots[s].job

(* "A real dispatch can never start mid-probe" (dispatcher.ts:89-91), nor  *)
(* a probe mid-dispatch, so the two never race the bridge's accounting.    *)
ProbeRunsAlone == probing => InFlight = {}

(* Strictly (priority, id) (queue.ts:90-92): while a job waits that was    *)
(* never tried, no job enqueued after it with the same or less urgency has *)
(* ever been claimed, whatever was retried, given back or swept meanwhile. *)
Untouched(r) == r.not_before = Null /\ r.attempts = 0
NoOvertaking ==
  \A i \in JobIds, j \in JobIds :
    /\ i < j /\ jobs[i].envelope.priority <= jobs[j].envelope.priority
    /\ jobs[i].state = "queued" /\ Untouched(jobs[i])
    => Untouched(jobs[j])

(* A drain that ends within the grace period severs no dispatch, so the    *)
(* next boot takes no attempt from a job that would have been answered     *)
(* ("a deploy must not consume an attempt", dispatcher.ts:122-131).        *)
CleanExitSeversNothing == [][DrainEnds => InFlight = {}]_vars

(* Every job keeps JobPromise, through claims, answers, retries, outages,  *)
(* cancels, crashes and boots.                                             *)
NoJob == [state |-> "none", attempts |-> 0, max_attempts |-> 0, error |-> "none"]
Job(i) == IF i \in JobIds THEN jobs[i] ELSE NoJob
PhaseOf(r) ==
  CASE r.state = "none"    -> "none"
    [] r.state = "queued"  -> "waiting"
    [] r.state = "running" -> "trying"
    [] OTHER -> "done"
OutcomeOf(r) ==
  CASE r.state = "failed" -> r.error
    [] r.state \in {"succeeded", "canceled"} -> r.state
    [] OTHER -> "none"
Promise(i) == INSTANCE JobPromise WITH
  phase <- PhaseOf(Job(i)), tries <- Job(i).attempts,
  limit <- Job(i).max_attempts, outcome <- OutcomeOf(Job(i))
EveryJobKeepsPromise ==
  /\ \A i \in 1..MaxJobs : Promise(i)!Init
  /\ [][\A i \in 1..MaxJobs : Promise(i)!Next \/ UNCHANGED Promise(i)!promise]_vars

(* Every job that was accepted ends, as long as deployments do not leave   *)
(* the registry empty for good: but for a row whose last write failed      *)
(* twice, which stays running until the next boot (dispatcher.ts:164-166). *)
Stuck(i) ==
  process = "up" /\ jobs[i].state = "running" /\ \A s \in Slots : slots[s].job # i
EveryJobEnds ==
  <>[](registry # {}) =>
    \A i \in 1..MaxJobs :
      i \in JobIds ~> i \in JobIds /\ (Terminal(jobs[i]) \/ Stuck(i))

(* An outage does not leave the gauge at 0 once n8n answers again, also    *)
(* when every job is gone and only the idle probe can notice               *)
(* (dispatcher.ts:310-323).                                                *)
OutageEnds == ~BridgeUp ~> BridgeUp
=============================================================================
