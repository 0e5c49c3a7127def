------------------------------ MODULE JobQueue ------------------------------
(***************************************************************************)
(* services/jobs-mcp/src/queue.ts: the jobs table and what its methods do  *)
(* to a row.  A job's number is the order of its ULID, so the sequence is  *)
(* the table in id order.  Every method is one SQLite transaction.         *)
(*                                                                         *)
(* not_before is the time left until the row may be claimed: Null is SQL's *)
(* NULL, 0 an instant that has passed.  Operators named X_Bug are X with a *)
(* plausible mistake.                                                      *)
(***************************************************************************)
EXTENDS Integers, Sequences

CONSTANTS
  Envelopes,    \* what callers may ask for: [task_type, priority, key]
  TaskTypes,    \* names a registry may hold
  MaxAttempts,  \* [TaskTypes -> naturals from 1], the registry's max_attempts
  NoKey,        \* an envelope without idempotency_key
  RetryUnit, RetryCap, Jitter,  \* naturals: the backoff of an attempt, in ticks
  MaxJobs       \* bound: rows a behaviour inserts

ASSUME QueueConstants ==
  /\ \A e \in Envelopes : e.task_type \in TaskTypes /\ e.priority \in Nat
  /\ MaxAttempts \in [TaskTypes -> Nat \ {0}]
  /\ RetryUnit \in Nat /\ RetryCap \in Nat /\ Jitter \in Nat /\ MaxJobs \in Nat

VARIABLE jobs

Null == -1
JobIds == 1..Len(jobs)
JobStates == {"queued", "running", "succeeded", "failed", "canceled"}
Terminal(r) == r.state \in {"succeeded", "failed", "canceled"}

(* A row.  Of error only the terminal codes are kept apart: the error a    *)
(* retried row carries meanwhile is overwritten by them.                   *)
Row ==
  [envelope : Envelopes, state : JobStates, attempts : Nat, max_attempts : Nat \ {0},
   not_before : Nat \cup {Null}, error : {"none", "retries_exhausted", "terminal"}]

Enqueued(e) ==
  [envelope |-> e, state |-> "queued", attempts |-> 0,
   max_attempts |-> MaxAttempts[e.task_type], not_before |-> Null, error |-> "none"]

(* idempotency_key is unique for ever: a second enqueue is a replay or a   *)
(* conflict, and writes nothing.                                           *)
KeyIsFree(e) == e.key = NoKey \/ \A i \in JobIds : jobs[i].envelope.key # e.key

(* ORDER BY priority ASC, id ASC over the rows that are due.               *)
Due_NotNull(i) == jobs[i].state = "queued" /\ jobs[i].not_before = 0
Due(i) == jobs[i].state = "queued" /\ jobs[i].not_before <= 0
Before_Desc(i, j) ==
  \/ jobs[j].envelope.priority < jobs[i].envelope.priority
  \/ jobs[i].envelope.priority = jobs[j].envelope.priority /\ i < j
Before(i, j) ==
  \/ jobs[i].envelope.priority < jobs[j].envelope.priority
  \/ jobs[i].envelope.priority = jobs[j].envelope.priority /\ i < j
IsNext(i) == Due(i) /\ \A j \in JobIds \ {i} : Due(j) => Before(i, j)

Claimed_Uncounted(r) == [r EXCEPT !.state = "running"]
Claimed(r) == [r EXCEPT !.state = "running", !.attempts = @ + 1]

(* UPDATE ... WHERE state = 'running': any other row is left alone.        *)
IfRunning(r, outcomes) == IF r.state = "running" THEN outcomes ELSE {r}

Succeeded(r) == IfRunning(r, {[r EXCEPT !.state = "succeeded"]})
FailedTerminal(r) == IfRunning(r, {[r EXCEPT !.state = "failed", !.error = "terminal"]})
Exhausted(r) == [r EXCEPT !.state = "failed", !.error = "retries_exhausted"]

(* min(unit * 2^attempts, cap), and up to Jitter on top.                   *)
Waits(attempts) ==
  {w \in 0..(RetryCap + Jitter) :
     LET full == RetryUnit * 2 ^ attempts
         backoff == IF full < RetryCap THEN full ELSE RetryCap
     IN backoff <= w /\ w <= backoff + Jitter}

Requeued(r) == {[r EXCEPT !.state = "queued", !.not_before = w] : w \in Waits(r.attempts)}

(* failAttempt's branches, shared with the boot sweep.                     *)
AttemptsLeft_OneMore(r) == r.attempts <= r.max_attempts
AttemptsLeft(r) == r.attempts < r.max_attempts
FailedAttempt(r, retryable) ==
  IfRunning(r, IF ~retryable THEN FailedTerminal(r)
               ELSE IF AttemptsLeft(r) THEN Requeued(r) ELSE {Exhausted(r)})

(* requeueBridgeDown: the claim is reverted.                               *)
GivenBack(r, wait) ==
  IfRunning(r, {[r EXCEPT !.state = "queued", !.attempts = @ - 1, !.not_before = wait]})

(* bootSweep, for one row: a running row is an orphan.                     *)
SweptRow_AlwaysRequeued(r) == IfRunning(r, Requeued(r))
SweptRow(r) == FailedAttempt(r, TRUE)

(***************************************************************************)
(* The tools that write.                                                   *)
(***************************************************************************)
Enqueue(e) ==
  /\ Len(jobs) < MaxJobs
  /\ KeyIsFree(e)
  /\ jobs' = Append(jobs, Enqueued(e))

Canceled(r) == [r EXCEPT !.state = "canceled"]
Cancel_Running(i) ==
  /\ ~Terminal(jobs[i])
  /\ jobs' = [jobs EXCEPT ![i] = Canceled(@)]
Cancel(i) ==
  /\ jobs[i].state = "queued"
  /\ jobs' = [jobs EXCEPT ![i] = Canceled(@)]

ClaimNext(i) == IsNext(i) /\ jobs' = [jobs EXCEPT ![i] = Claimed(@)]

BootSweep ==
  \E swept \in [JobIds -> UNION {SweptRow(jobs[i]) : i \in JobIds}] :
    /\ \A i \in JobIds : swept[i] \in SweptRow(jobs[i])
    /\ jobs' = swept
=============================================================================
