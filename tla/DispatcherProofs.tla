-------------------------- MODULE DispatcherProofs --------------------------
(***************************************************************************)
(* Proofs about Dispatcher, for any envelopes, task types, registries and  *)
(* limits, any number of jobs and slots, and any backoffs.                 *)
(***************************************************************************)
EXTENDS Dispatcher, FiniteSetTheorems, TLAPS

-----------------------------------------------------------------------------
(* What the end of a try may make of a running row.                        *)
Ended(r, q) ==
  /\ q \in Row /\ WithinBudget(q)
  /\ q.envelope = r.envelope /\ q.max_attempts = r.max_attempts
  /\ \/ q = r
     \/ /\ q.state = "queued" /\ q.not_before \in Nat
        /\ q.attempts = r.attempts - 1 \/ q.attempts = r.attempts
     \/ q.state = "succeeded" /\ q.attempts = r.attempts
     \/ q.state = "failed" /\ q.error = "terminal" /\ q.attempts = r.attempts
     \/ /\ q.state = "failed" /\ q.error = "retries_exhausted"
        /\ q.attempts = r.attempts /\ q.attempts = q.max_attempts

LEMMA RowFields ==
  ASSUME NEW r \in Row
  PROVE  /\ r.attempts \in Nat /\ r.max_attempts \in Nat /\ r.max_attempts > 0
         /\ r.state \in JobStates /\ r.envelope \in Envelopes
         /\ r.not_before \in Int /\ r.not_before >= Null
BY DEF Row, Null

LEMMA WaitsAreTimes == ASSUME NEW a \in Nat, NEW w \in Waits(a) PROVE w \in Nat
BY QueueConstants DEF Waits

LEMMA RequeuedEnds ==
  ASSUME NEW r \in Row, WithinBudget(r), r.state = "running", r.attempts < r.max_attempts,
         NEW q \in Requeued(r)
  PROVE  Ended(r, q)
<1>1. PICK w \in Waits(r.attempts) : q = [r EXCEPT !.state = "queued", !.not_before = w]
  BY DEF Requeued
<1>2. w \in Nat
  BY <1>1, WaitsAreTimes, RowFields
<1>3. QED
  BY <1>1, <1>2, RowFields DEF Ended, Row, JobStates, WithinBudget

LEMMA FailedEnds ==
  ASSUME NEW r \in Row, WithinBudget(r), r.state = "running", NEW retryable \in BOOLEAN,
         NEW q \in FailedAttempt(r, retryable)
  PROVE  Ended(r, q)
<1>1. CASE ~retryable
  <2>1. q = [r EXCEPT !.state = "failed", !.error = "terminal"]
    BY <1>1 DEF FailedAttempt, FailedTerminal, IfRunning
  <2>2. QED
    BY <2>1, RowFields DEF Ended, Row, JobStates, WithinBudget
<1>2. CASE retryable /\ AttemptsLeft(r)
  BY <1>2, RequeuedEnds DEF FailedAttempt, IfRunning, AttemptsLeft
<1>3. CASE retryable /\ ~AttemptsLeft(r)
  <2>1. q = [r EXCEPT !.state = "failed", !.error = "retries_exhausted"]
    BY <1>3 DEF FailedAttempt, IfRunning, Exhausted
  <2>2. r.attempts = r.max_attempts
    BY <1>3, RowFields DEF AttemptsLeft, WithinBudget
  <2>3. QED
    BY <2>1, <2>2, RowFields DEF Ended, Row, JobStates, WithinBudget
<1>4. QED
  BY <1>1, <1>2, <1>3

LEMMA SucceededEnds ==
  ASSUME NEW r \in Row, WithinBudget(r), r.state = "running", NEW q \in Succeeded(r)
  PROVE  Ended(r, q)
<1>1. q = [r EXCEPT !.state = "succeeded"]
  BY DEF Succeeded, IfRunning
<1>2. r.error # "retries_exhausted"
  BY DEF WithinBudget
<1>3. QED
  BY <1>1, <1>2, RowFields DEF Ended, Row, JobStates, WithinBudget

LEMMA GivenBackEnds ==
  ASSUME NEW r \in Row, WithinBudget(r), r.state = "running", NEW wait \in Nat,
         NEW q \in GivenBack(r, wait)
  PROVE  Ended(r, q)
<1>1. q = [r EXCEPT !.state = "queued", !.attempts = r.attempts - 1, !.not_before = wait]
  BY DEF GivenBack, IfRunning
<1>2. r.attempts - 1 \in Nat /\ r.attempts - 1 < r.max_attempts
  BY RowFields DEF WithinBudget
<1>3. DEFINE n == r.attempts - 1
<1>4. n \in Nat /\ n < r.max_attempts /\ n <= r.max_attempts
  BY <1>2, RowFields
<1>5. q = [r EXCEPT !.state = "queued", !.attempts = n, !.not_before = wait]
  BY <1>1
<1>6. n = r.attempts - 1
  OBVIOUS
<1> HIDE DEF n
<1>7. /\ q \in Row /\ q.state = "queued" /\ q.attempts = n /\ q.not_before = wait
      /\ q.envelope = r.envelope /\ q.max_attempts = r.max_attempts /\ q.error = r.error
  BY <1>4, <1>5 DEF Row, JobStates
<1>8. r.error # "retries_exhausted"
  BY DEF WithinBudget
<1>9. QED
  BY <1>4, <1>6, <1>7, <1>8 DEF Ended, WithinBudget

LEMMA TerminalEnds ==
  ASSUME NEW r \in Row, WithinBudget(r), r.state = "running", NEW q \in FailedTerminal(r)
  PROVE  Ended(r, q)
<1>1. q = [r EXCEPT !.state = "failed", !.error = "terminal"]
  BY DEF FailedTerminal, IfRunning
<1>2. QED
  BY <1>1, RowFields DEF Ended, Row, JobStates, WithinBudget

-----------------------------------------------------------------------------
(* What any step may do to the table: append one row, and move the others. *)
Moves(r, q) ==
  /\ q \in Row /\ WithinBudget(q)
  /\ q.envelope = r.envelope /\ q.max_attempts = r.max_attempts
  /\ \/ /\ q.state = r.state /\ q.attempts = r.attempts /\ q.error = r.error
        /\ q.not_before = Null <=> r.not_before = Null
     \/ /\ r.state = "queued" /\ q.state = "canceled" /\ q.attempts = r.attempts
        /\ q.not_before = r.not_before
     \/ r.state = "queued" /\ q.state = "running" /\ q.attempts = r.attempts + 1
     \/ r.state = "running" /\ Ended(r, q)

TableTypeOK == jobs \in Seq(Row) /\ Len(jobs) <= MaxJobs

(* A row leaves the queue for a try only when it is the next in order. *)
TableMoves ==
  /\ TableTypeOK' /\ Len(jobs) <= Len(jobs') /\ Len(jobs') <= Len(jobs) + 1
  /\ \A i \in JobIds :
       /\ Moves(jobs[i], jobs'[i])
       /\ jobs[i].state = "queued" /\ jobs'[i].state = "running" => IsNext(i)
  /\ \A i \in JobIds' \ JobIds : \E e \in Envelopes : KeyIsFree(e) /\ jobs'[i] = Enqueued(e)

TableInv == TableTypeOK /\ AttemptsWithinBudget

LEMMA TableRows ==
  ASSUME TableInv, NEW i \in JobIds
  PROVE  jobs[i] \in Row /\ WithinBudget(jobs[i])
BY DEF TableInv, TableTypeOK, AttemptsWithinBudget, JobIds

LEMMA StillMoves == ASSUME NEW r \in Row, WithinBudget(r) PROVE Moves(r, r)
BY DEF Moves

LEMMA OneRowMoves ==
  ASSUME TableInv, NEW i \in JobIds, NEW q, Moves(jobs[i], q),
         jobs[i].state = "queued" /\ q.state = "running" => IsNext(i),
         jobs' = [jobs EXCEPT ![i] = q]
  PROVE  /\ TableMoves /\ Len(jobs') = Len(jobs)
         /\ jobs'[i] = q /\ \A k \in JobIds \ {i} : jobs'[k] = jobs[k]
<1>1. q \in Row
  BY DEF Moves
<1>2. jobs \in Seq(Row) /\ Len(jobs) \in Nat /\ i \in 1..Len(jobs)
  BY DEF TableInv, TableTypeOK, JobIds
<1>3. jobs' \in Seq(Row) /\ Len(jobs') = Len(jobs)
  BY <1>1, <1>2
<1>4. jobs'[i] = q /\ \A k \in JobIds \ {i} : jobs'[k] = jobs[k]
  BY <1>2 DEF JobIds
<1>5. \A k \in JobIds : Moves(jobs[k], jobs'[k])
  BY <1>4, TableRows, StillMoves
<1>6. \A k \in JobIds : jobs[k].state = "queued" /\ jobs'[k].state = "running" => IsNext(k)
  <2>1. SUFFICES ASSUME NEW k \in JobIds, jobs[k].state = "queued", jobs'[k].state = "running"
                 PROVE  IsNext(k)
    OBVIOUS
  <2>2. k = i
    BY <1>4, <2>1, "queued" # "running"
  <2>3. QED
    BY <1>4, <2>1, <2>2
<1>7. JobIds' = JobIds
  BY <1>3 DEF JobIds
<1>8. QED
  BY <1>2, <1>3, <1>4, <1>5, <1>6, <1>7 DEF TableMoves, TableInv, TableTypeOK

LEMMA NoRowMoves ==
  ASSUME TableInv, UNCHANGED jobs
  PROVE  TableMoves
<1>1. JobIds' = JobIds /\ \A i \in JobIds : jobs'[i] = jobs[i]
  BY DEF JobIds
<1>2. \A i \in JobIds : Moves(jobs[i], jobs'[i])
  BY <1>1, TableRows, StillMoves
<1>3. \A i \in JobIds : ~(jobs[i].state = "queued" /\ jobs'[i].state = "running")
  BY <1>1, "queued" # "running"
<1>4. Len(jobs) \in Nat
  BY DEF TableInv, TableTypeOK
<1>5. QED
  BY <1>1, <1>2, <1>3, <1>4 DEF TableMoves, TableInv, TableTypeOK

LEMMA EnqueueMoves ==
  ASSUME TableInv, NEW e \in Envelopes, Enqueue(e)
  PROVE  /\ TableMoves /\ JobIds \subseteq JobIds'
         /\ \A i \in JobIds : jobs'[i] = jobs[i]
<1>1. jobs \in Seq(Row) /\ Len(jobs) \in Nat /\ Len(jobs) < MaxJobs /\ MaxJobs \in Nat
  BY QueueConstants DEF TableInv, TableTypeOK, Enqueue
<1>2. Enqueued(e) \in Row
  BY QueueConstants DEF Enqueued, Row, JobStates, Null
<1>3. /\ jobs' \in Seq(Row) /\ Len(jobs') = Len(jobs) + 1
      /\ \A i \in 1..Len(jobs) : jobs'[i] = jobs[i]
      /\ jobs'[Len(jobs) + 1] = Enqueued(e)
  BY <1>1, <1>2 DEF Enqueue
<1>4. JobIds' = JobIds \cup {Len(jobs) + 1}
  BY <1>1, <1>3 DEF JobIds
<1>5. \A i \in JobIds : Moves(jobs[i], jobs'[i])
  BY <1>3, TableRows, StillMoves DEF JobIds
<1>6. \A i \in JobIds : ~(jobs[i].state = "queued" /\ jobs'[i].state = "running")
  BY <1>3, "queued" # "running" DEF JobIds
<1>7. KeyIsFree(e)
  BY DEF Enqueue
<1>8. QED
  BY <1>1, <1>3, <1>4, <1>5, <1>6, <1>7 DEF TableMoves, TableTypeOK, JobIds

LEMMA CancelMoves ==
  ASSUME TableInv, NEW i \in JobIds, Cancel(i)
  PROVE  /\ TableMoves /\ Len(jobs') = Len(jobs)
         /\ \A k \in JobIds \ {i} : jobs'[k] = jobs[k]
<1>1. jobs[i] \in Row /\ WithinBudget(jobs[i]) /\ jobs[i].state = "queued"
  BY TableRows DEF Cancel
<1>2. jobs' = [jobs EXCEPT ![i] = Canceled(jobs[i])]
  BY DEF Cancel, TableInv, TableTypeOK, JobIds
<1>3. Canceled(jobs[i]).state = "canceled"
  BY <1>1 DEF Canceled, Row
<1>4. Moves(jobs[i], Canceled(jobs[i]))
  BY <1>1 DEF Canceled, Moves, Row, JobStates, WithinBudget
<1>5. QED
  BY <1>2, <1>3, <1>4, OneRowMoves

LEMMA ClaimMoves ==
  ASSUME TableInv, NEW i \in JobIds, ClaimNext(i)
  PROVE  /\ TableMoves /\ Len(jobs') = Len(jobs)
         /\ jobs[i].state = "queued" /\ jobs'[i].state = "running" /\ jobs'[i].attempts \in Nat
         /\ \A k \in JobIds \ {i} : jobs'[k] = jobs[k]
<1>1. jobs[i] \in Row /\ WithinBudget(jobs[i]) /\ jobs[i].state = "queued" /\ IsNext(i)
  BY TableRows DEF ClaimNext, IsNext, Due
<1>2. jobs' = [jobs EXCEPT ![i] = Claimed(jobs[i])]
  BY DEF ClaimNext, TableInv, TableTypeOK, JobIds
<1>3. jobs[i].attempts \in Nat /\ jobs[i].attempts + 1 <= jobs[i].max_attempts
  BY <1>1, RowFields DEF WithinBudget
<1> DEFINE n == jobs[i].attempts + 1
<1>4. Claimed(jobs[i]) = [jobs[i] EXCEPT !.state = "running", !.attempts = n]
  BY <1>1 DEF Claimed
<1>5. n \in Nat /\ n > 0 /\ n <= jobs[i].max_attempts /\ n = jobs[i].attempts + 1
  BY <1>3
<1> HIDE DEF n
<1> DEFINE q == Claimed(jobs[i])
<1>6. /\ q \in Row /\ q.state = "running" /\ q.attempts = n /\ q.error = jobs[i].error
      /\ q.envelope = jobs[i].envelope /\ q.max_attempts = jobs[i].max_attempts
  BY <1>1, <1>4, <1>5 DEF Row, JobStates
<1> HIDE DEF q
<1>7. jobs[i].error # "retries_exhausted"
  BY <1>1 DEF WithinBudget
<1>8. Moves(jobs[i], q)
  BY <1>1, <1>5, <1>6, <1>7 DEF Moves, WithinBudget
<1>9. jobs' = [jobs EXCEPT ![i] = q]
  BY <1>2 DEF q
<1>10. /\ TableMoves /\ Len(jobs') = Len(jobs) /\ jobs'[i] = q
       /\ \A k \in JobIds \ {i} : jobs'[k] = jobs[k]
  BY <1>1, <1>8, <1>9, OneRowMoves
<1>11. QED
  BY <1>1, <1>5, <1>6, <1>10

LEMMA EndMoves ==
  ASSUME TableInv, NEW i \in JobIds, jobs[i].state = "running", NEW q, Ended(jobs[i], q),
         jobs' = [jobs EXCEPT ![i] = q]
  PROVE  /\ TableMoves /\ Len(jobs') = Len(jobs)
         /\ \A k \in JobIds \ {i} : jobs'[k] = jobs[k]
<1>1. Moves(jobs[i], q)
  BY DEF Moves, Ended
<1>2. QED
  BY <1>1, OneRowMoves, "queued" # "running"

(* The boot sweep moves every running row by the end of a try. *)
LEMMA SweptRows ==
  ASSUME NEW r \in Row, WithinBudget(r), NEW q \in SweptRow(r)
  PROVE  Moves(r, q) /\ ~(r.state = "queued" /\ q.state = "running")
<1>1. CASE r.state = "running"
  <2>1. Ended(r, q)
    BY <1>1, FailedEnds DEF SweptRow
  <2>2. QED
    BY <1>1, <2>1 DEF Moves, Ended
<1>2. CASE r.state # "running"
  <2>1. q = r
    BY <1>2 DEF SweptRow, FailedAttempt, IfRunning
  <2>2. QED
    BY <2>1, StillMoves, "queued" # "running"
<1>3. QED
  BY <1>1, <1>2

LEMMA SweepMoves ==
  ASSUME TableInv, BootSweep
  PROVE  TableMoves
<1>1. PICK swept \in [JobIds -> UNION {SweptRow(jobs[i]) : i \in JobIds}] :
        (\A i \in JobIds : swept[i] \in SweptRow(jobs[i])) /\ jobs' = swept
  BY DEF BootSweep
<1>2. \A i \in JobIds :
        /\ Moves(jobs[i], jobs'[i])
        /\ ~(jobs[i].state = "queued" /\ jobs'[i].state = "running")
  BY <1>1, TableRows, SweptRows
<1>3. \A i \in JobIds : jobs'[i] \in Row
  BY <1>2 DEF Moves
<1>4. Len(jobs) \in Nat /\ Len(jobs) <= MaxJobs /\ jobs' = [i \in 1..Len(jobs) |-> jobs'[i]]
  BY <1>1 DEF TableInv, TableTypeOK, JobIds
<1>5. jobs' \in Seq(Row) /\ Len(jobs') = Len(jobs)
  BY <1>3, <1>4 DEF JobIds
<1>6. QED
  BY <1>2, <1>4, <1>5 DEF TableMoves, TableTypeOK, JobIds

LEMMA TickMoves ==
  ASSUME TableInv, jobs' = [i \in JobIds |-> [jobs[i] EXCEPT !.not_before = Less(@)]]
  PROVE  /\ TableMoves /\ Len(jobs') = Len(jobs)
         /\ \A i \in JobIds : jobs'[i].state = jobs[i].state /\ jobs'[i].attempts = jobs[i].attempts
<1>1. ASSUME NEW i \in JobIds
      PROVE  /\ Moves(jobs[i], jobs'[i]) /\ jobs'[i].state = jobs[i].state
             /\ jobs'[i].attempts = jobs[i].attempts
  <2>1. jobs[i] \in Row /\ WithinBudget(jobs[i])
    BY TableRows
  <2> DEFINE w == Less(jobs[i].not_before)
  <2>2. w \in Nat \cup {Null} /\ (w = Null <=> jobs[i].not_before = Null)
    BY <2>1, RowFields DEF Less, Null, Row
  <2>3. jobs'[i] = [jobs[i] EXCEPT !.not_before = w]
    BY <2>1
  <2> HIDE DEF w
  <2> DEFINE r == jobs[i]
             q == jobs'[i]
  <2>4. /\ q \in Row /\ q.state = r.state /\ q.attempts = r.attempts /\ q.error = r.error
        /\ q.envelope = r.envelope /\ q.max_attempts = r.max_attempts /\ q.not_before = w
    BY <2>1, <2>2, <2>3 DEF Row
  <2>5. QED
    BY <2>1, <2>2, <2>4 DEF Moves, WithinBudget
<1>2. \A i \in JobIds : jobs'[i] \in Row
  BY <1>1 DEF Moves
<1>3. Len(jobs) \in Nat /\ Len(jobs) <= MaxJobs /\ jobs' = [i \in 1..Len(jobs) |-> jobs'[i]]
  BY DEF TableInv, TableTypeOK, JobIds
<1>4. jobs' \in Seq(Row) /\ Len(jobs') = Len(jobs)
  BY <1>2, <1>3 DEF JobIds
<1>5. QED
  BY <1>1, <1>3, <1>4, "queued" # "running" DEF TableMoves, TableTypeOK, JobIds

-----------------------------------------------------------------------------
(* Inv is inductive: no dispatch is awaited while the process is down, and *)
(* a draining process claims nothing, so all it awaits is in the snapshot. *)
LoopTypeOK ==
  /\ process \in {"down", "up", "draining"} /\ registry \in {{}} \cup Registries
  /\ slots \in [Slots -> Dispatch] /\ awaited \subseteq Slots
  /\ failures \in 0..MaxExponent /\ backoff \in 0..BridgeCap /\ probing \in BOOLEAN
  /\ restarts \in 0..MaxRestarts

Severed == process = "down" => InFlight = {}
DrainCovers == process = "draining" => InFlight \subseteq awaited

LoopInv == LoopTypeOK /\ DispatchOwnsRow /\ ProbeRunsAlone /\ Severed /\ DrainCovers
Inv == TableInv /\ LoopInv

LEMMA BridgeDownTyped ==
  ASSUME LoopTypeOK, MarkBridgeDown
  PROVE  failures' \in 0..MaxExponent /\ backoff' \in 0..BridgeCap
<1>1. failures' \in 0..MaxExponent
  BY DispatcherConstants DEF LoopTypeOK, MarkBridgeDown
<1>2. backoff' \in 0..BridgeCap
  BY DEF MarkBridgeDown, Backoffs
<1>3. QED
  BY <1>1, <1>2

LEMMA BridgeUpTyped ==
  ASSUME LoopTypeOK, MarkBridgeUp
  PROVE  failures' \in 0..MaxExponent /\ backoff' \in 0..BridgeCap
BY DispatcherConstants DEF LoopTypeOK, MarkBridgeUp

BridgeTyped == failures' \in 0..MaxExponent /\ backoff' \in 0..BridgeCap

LEMMA BridgeStillTyped ==
  ASSUME LoopTypeOK, UNCHANGED bridge
  PROVE  BridgeTyped
BY DEF LoopTypeOK, bridge, BridgeTyped

(* The dispatches that stay awaited keep what they own, when no row of     *)
(* theirs moves.                                                           *)
LEMMA OwnersKeep ==
  ASSUME DispatchOwnsRow, JobIds \subseteq JobIds', InFlight' \subseteq InFlight,
         \A s \in InFlight' :
           /\ slots'[s].job = slots[s].job /\ slots'[s].attempt = slots[s].attempt
           /\ jobs'[slots[s].job].state = jobs[slots[s].job].state
           /\ jobs'[slots[s].job].attempts = jobs[slots[s].job].attempts
  PROVE  DispatchOwnsRow'
BY DEF DispatchOwnsRow, JobRow

(* Steps that leave the loop alone. *)
LEMMA LoopStays ==
  ASSUME LoopInv, UNCHANGED <<process, registry, slots, awaited, probing, restarts>>,
         BridgeTyped, JobIds \subseteq JobIds',
         \A i \in JobIds : jobs[i].state = "running" =>
           jobs'[i].state = jobs[i].state /\ jobs'[i].attempts = jobs[i].attempts
  PROVE  LoopInv'
<1>1. LoopTypeOK'
  BY DEF LoopInv, LoopTypeOK, BridgeTyped, Slots
<1>2. InFlight' = InFlight
  BY DEF InFlight, Slots
<1>3. DispatchOwnsRow'
  <2>1. \A s \in InFlight : slots[s].job \in JobIds /\ jobs[slots[s].job].state = "running"
    BY DEF LoopInv, DispatchOwnsRow, JobRow
  <2>2. QED
    BY <1>2, <2>1, OwnersKeep DEF LoopInv
<1>4. QED
  BY <1>1, <1>2, <1>3 DEF LoopInv, ProbeRunsAlone, Severed, DrainCovers

Good == TableMoves /\ LoopInv'

LEMMA IdleSlot == \A p \in Dispatch : p.phase # "idle" => p # Idle
BY DEF Idle, Dispatch

LEMMA BridgeSame ==
  ASSUME LoopInv, UNCHANGED <<failures, backoff>>
  PROVE  BridgeTyped
BY DEF LoopInv, LoopTypeOK, BridgeTyped

LEMMA EnqueueGood ==
  ASSUME Inv, NEW e \in Envelopes, EnqueueTool(e)
  PROVE  Good
<1>1. Enqueue(e) /\ UNCHANGED <<process, registry, slots, awaited, failures, backoff, probing, restarts>>
  BY DEF EnqueueTool
<1>2. TableMoves /\ JobIds \subseteq JobIds' /\ \A i \in JobIds : jobs'[i] = jobs[i]
  BY <1>1, EnqueueMoves DEF Inv
<1>3. BridgeTyped
  BY <1>1, BridgeSame DEF Inv
<1>4. QED
  BY <1>1, <1>2, <1>3, LoopStays DEF Inv, Good

LEMMA CancelGood ==
  ASSUME Inv, NEW i \in JobIds, CancelTool(i)
  PROVE  Good
<1>1. Cancel(i) /\ UNCHANGED <<process, registry, slots, awaited, failures, backoff, probing, restarts>>
  BY DEF CancelTool
<1>2. /\ TableMoves /\ Len(jobs') = Len(jobs)
      /\ \A k \in JobIds \ {i} : jobs'[k] = jobs[k]
  BY <1>1, CancelMoves DEF Inv
<1>3. jobs[i].state = "queued" /\ JobIds' = JobIds
  BY <1>1, <1>2 DEF Cancel, JobIds
<1>4. BridgeTyped
  BY <1>1, BridgeSame DEF Inv
<1>5. QED
  BY <1>1, <1>2, <1>3, <1>4, LoopStays, "queued" # "running" DEF Inv, Good

LEMMA ClaimGood ==
  ASSUME Inv, NEW i \in JobIds, NEW s \in Slots, Claim(i, s)
  PROVE  Good
<1> DEFINE p == [job |-> i, attempt |-> jobs'[i].attempts, phase |-> FirstPhase(i)]
<1>1. /\ process = "up" /\ ~probing /\ slots[s] = Idle /\ ClaimNext(i)
      /\ slots' = [slots EXCEPT ![s] = p]
      /\ UNCHANGED <<process, registry, awaited, failures, backoff, probing, restarts>>
  BY DEF Claim, MayClaim, Dispatching
<1>2. /\ TableMoves /\ Len(jobs') = Len(jobs)
      /\ jobs[i].state = "queued" /\ jobs'[i].state = "running" /\ jobs'[i].attempts \in Nat
      /\ \A k \in JobIds \ {i} : jobs'[k] = jobs[k]
  BY <1>1, ClaimMoves DEF Inv
<1>3. i \in Nat /\ JobIds' = JobIds
  BY <1>2 DEF JobIds
<1>4. p \in Dispatch /\ p # Idle
  BY <1>2, <1>3, IdleSlot DEF Dispatch, FirstPhase
<1>5. p.job = i /\ p.attempt = jobs'[i].attempts
  OBVIOUS
<1> HIDE DEF p
<1>6. slots' \in [Slots -> Dispatch] /\ slots'[s] = p /\ \A t \in Slots \ {s} : slots'[t] = slots[t]
  BY <1>1, <1>4 DEF Inv, LoopInv, LoopTypeOK
<1>7. InFlight' = InFlight \cup {s} /\ s \notin InFlight
  BY <1>1, <1>4, <1>6 DEF InFlight, Slots
<1>8. LoopTypeOK'
  BY <1>1, <1>6 DEF Inv, LoopInv, LoopTypeOK, Slots
<1>9. \A t \in InFlight :
        /\ slots[t].job \in JobIds \ {i} /\ jobs[slots[t].job].state = "running"
        /\ jobs[slots[t].job].attempts = slots[t].attempt
        /\ \A u \in InFlight \ {t} : slots[u].job # slots[t].job
  BY <1>2, "queued" # "running" DEF Inv, LoopInv, DispatchOwnsRow, JobRow
<1>10. DispatchOwnsRow'
  <2>1. \A t \in InFlight : slots'[t] = slots[t]
    BY <1>6, <1>7 DEF InFlight
  <2>2. SUFFICES ASSUME NEW t \in InFlight \cup {s}
                 PROVE  /\ slots'[t].job \in JobIds
                        /\ jobs'[slots'[t].job].state = "running"
                        /\ jobs'[slots'[t].job].attempts = slots'[t].attempt
                        /\ \A u \in (InFlight \cup {s}) \ {t} : slots'[u].job # slots'[t].job
    BY <1>3, <1>7 DEF DispatchOwnsRow, JobRow
  <2>3. CASE t = s
    BY <1>2, <1>5, <1>6, <1>9, <2>1, <2>3
  <2>4. CASE t \in InFlight
    BY <1>2, <1>5, <1>6, <1>7, <1>9, <2>1, <2>4
  <2>5. QED
    BY <2>2, <2>3, <2>4
<1>11. QED
  BY <1>1, <1>2, <1>7, <1>8, <1>10 DEF Inv, LoopInv, ProbeRunsAlone, Severed, DrainCovers, Good

(* The end of a dispatch, whatever it writes. *)
LEMMA EndsGood ==
  ASSUME Inv, NEW s \in Slots, slots[s] # Idle, Serving, NEW rows, Ends(s, rows), BridgeTyped,
         \A q \in rows : Ended(JobRow(s), q)
  PROVE  Good
<1> DEFINE i == slots[s].job
<1>1. s \in InFlight
  BY DEF InFlight
<1>2. i \in JobIds /\ jobs[i].state = "running" /\ \A t \in InFlight \ {s} : slots[t].job # i
  BY <1>1 DEF Inv, LoopInv, DispatchOwnsRow, JobRow
<1>3. PICK q \in rows : jobs' = [jobs EXCEPT ![i] = q]
  BY DEF Ends
<1>4. /\ slots' = [slots EXCEPT ![s] = Idle] /\ awaited' = awaited \ {s}
      /\ UNCHANGED <<process, registry, restarts, probing>>
  BY DEF Ends, process_vars
<1>5. /\ TableMoves /\ Len(jobs') = Len(jobs)
      /\ \A k \in JobIds \ {i} : jobs'[k] = jobs[k]
  BY <1>2, <1>3, EndMoves DEF Inv, JobRow
<1>6. Idle \in Dispatch
  BY DEF Idle, Dispatch
<1>7. slots' \in [Slots -> Dispatch] /\ slots'[s] = Idle /\ \A t \in Slots \ {s} : slots'[t] = slots[t]
  BY <1>4, <1>6 DEF Inv, LoopInv, LoopTypeOK
<1>8. InFlight' = InFlight \ {s}
  BY <1>7 DEF InFlight, Slots
<1>9. JobIds' = JobIds
  BY <1>5 DEF JobIds
<1>10. LoopTypeOK'
  BY <1>4, <1>7 DEF Inv, LoopInv, LoopTypeOK, BridgeTyped, Slots
<1>11. \A t \in InFlight' : slots'[t] = slots[t] /\ slots[t].job \in JobIds \ {i}
  BY <1>2, <1>7, <1>8 DEF Inv, LoopInv, DispatchOwnsRow, InFlight
<1>12. DispatchOwnsRow'
  BY <1>5, <1>8, <1>9, <1>11, OwnersKeep DEF Inv, LoopInv
<1>13. QED
  BY <1>4, <1>5, <1>8, <1>10, <1>12 DEF Inv, LoopInv, ProbeRunsAlone, Severed, DrainCovers, Good

(* What an awaited dispatch knows of its row. *)
LEMMA AwaitedRow ==
  ASSUME Inv, NEW s \in Slots, slots[s] # Idle
  PROVE  JobRow(s) \in Row /\ WithinBudget(JobRow(s)) /\ JobRow(s).state = "running"
<1>1. slots[s].job \in JobIds /\ JobRow(s).state = "running"
  BY DEF Inv, LoopInv, DispatchOwnsRow, InFlight
<1>2. QED
  BY <1>1, TableRows DEF Inv, JobRow

LEMMA InIsAwaited ==
  ASSUME Inv, NEW s \in Slots, NEW phase \in {"posting", "reading", "removed"}, In(s, phase)
  PROVE  slots[s] # Idle /\ Serving
BY IdleSlot DEF Inv, LoopInv, LoopTypeOK, In, Idle

LEMMA AttemptFailsGood ==
  ASSUME Inv, NEW s \in Slots, slots[s] # Idle, Serving, NEW retryable \in BOOLEAN,
         Ends(s, FailedAttempt(JobRow(s), retryable)), BridgeTyped
  PROVE  Good
BY AwaitedRow, FailedEnds, EndsGood

LEMMA AnswerGood ==
  ASSUME Inv, NEW s \in Slots,
         FailRemoved(s) \/ TimesOut(s) \/ HttpError(s) \/ BadReport(s) \/ ContractBroken(s)
           \/ Succeeds(s)
  PROVE  Good
<1>1. UNCHANGED bridge \/ MarkBridgeUp => BridgeTyped
  BY BridgeStillTyped, BridgeUpTyped DEF Inv, LoopInv, BridgeTyped
<1>2. CASE FailRemoved(s)
  <2>1. slots[s] # Idle /\ Serving /\ BridgeTyped /\ Ends(s, FailedTerminal(JobRow(s)))
    BY <1>1, <1>2, InIsAwaited DEF FailRemoved
  <2>2. QED
    BY <2>1, AwaitedRow, TerminalEnds, EndsGood
<1>3. CASE TimesOut(s) \/ HttpError(s)
  <2>1. slots[s] # Idle /\ Serving /\ BridgeTyped /\ Ends(s, FailedAttempt(JobRow(s), TRUE))
    BY <1>1, <1>3, InIsAwaited DEF TimesOut, HttpError
  <2>2. QED
    BY <2>1, AttemptFailsGood
<1>4. CASE BadReport(s)
  <2>1. slots[s] # Idle /\ Serving /\ BridgeTyped /\ Ends(s, FailedAttempt(JobRow(s), TRUE))
    BY <1>1, <1>4, InIsAwaited DEF BadReport
  <2>2. QED
    BY <2>1, AttemptFailsGood
<1>5. CASE ContractBroken(s)
  <2>1. slots[s] # Idle /\ Serving /\ BridgeTyped /\ Ends(s, FailedAttempt(JobRow(s), FALSE))
    BY <1>1, <1>5, InIsAwaited DEF ContractBroken
  <2>2. QED
    BY <2>1, AttemptFailsGood
<1>6. CASE Succeeds(s)
  <2>1. slots[s] # Idle /\ Serving /\ BridgeTyped /\ Ends(s, Succeeded(JobRow(s)))
    BY <1>1, <1>6, InIsAwaited DEF Succeeds
  <2>2. QED
    BY <2>1, AwaitedRow, SucceededEnds, EndsGood
<1>7. QED
  BY <1>2, <1>3, <1>4, <1>5, <1>6

LEMMA ConnectionFailsGood ==
  ASSUME Inv, NEW s \in Slots, ConnectionFails(s)
  PROVE  Good
<1>1. slots[s] # Idle /\ Serving /\ MarkBridgeDown /\ Ends(s, GivenBack(JobRow(s), backoff'))
  BY InIsAwaited DEF ConnectionFails
<1>2. BridgeTyped
  BY <1>1, BridgeDownTyped DEF Inv, LoopInv, BridgeTyped
<1>3. backoff' \in Nat
  BY <1>2, DispatcherConstants DEF BridgeTyped
<1>4. \A q \in GivenBack(JobRow(s), backoff') : Ended(JobRow(s), q)
  BY <1>1, <1>3, AwaitedRow, GivenBackEnds
<1>5. QED
  BY <1>1, <1>2, <1>4, EndsGood

LEMMA LastResortGood ==
  ASSUME Inv, NEW s \in Slots, LastResort(s)
  PROVE  Good
<1>1. /\ slots[s] # Idle /\ Serving
      /\ Ends(s, FailedAttempt(JobRow(s), TRUE) \cup {JobRow(s)})
      /\ MarkBridgeDown \/ MarkBridgeUp \/ UNCHANGED bridge
  BY DEF LastResort
<1>2. BridgeTyped
  BY <1>1, BridgeStillTyped, BridgeUpTyped, BridgeDownTyped DEF Inv, LoopInv, BridgeTyped
<1>3. Ended(JobRow(s), JobRow(s))
  BY <1>1, AwaitedRow DEF Ended
<1>4. \A q \in FailedAttempt(JobRow(s), TRUE) \cup {JobRow(s)} : Ended(JobRow(s), q)
  BY <1>1, <1>3, AwaitedRow, FailedEnds
<1>5. QED
  BY <1>1, <1>2, <1>4, EndsGood

LEMMA HeadersGood ==
  ASSUME Inv, NEW s \in Slots, Headers(s)
  PROVE  Good
<1>1. /\ slots[s] # Idle /\ Serving /\ MarkBridgeUp
      /\ slots' = [slots EXCEPT ![s].phase = "reading"]
      /\ UNCHANGED <<jobs, awaited, process, registry, restarts, probing>>
  BY InIsAwaited DEF Headers, process_vars
<1>2. BridgeTyped
  BY <1>1, BridgeUpTyped DEF Inv, LoopInv, BridgeTyped
<1>3. slots \in [Slots -> Dispatch] /\ slots[s] \in Dispatch
  BY DEF Inv, LoopInv, LoopTypeOK
<1>4. /\ slots' \in [Slots -> Dispatch] /\ slots'[s].phase = "reading"
      /\ slots'[s].job = slots[s].job /\ slots'[s].attempt = slots[s].attempt
      /\ \A t \in Slots \ {s} : slots'[t] = slots[t]
  BY <1>1, <1>3 DEF Dispatch
<1>5. slots'[s] # Idle
  BY <1>4, IdleSlot
<1>6. InFlight' = InFlight
  BY <1>1, <1>4, <1>5 DEF InFlight, Slots
<1>7. LoopTypeOK'
  BY <1>1, <1>2, <1>4 DEF Inv, LoopInv, LoopTypeOK, BridgeTyped, Slots
<1>8. JobIds' = JobIds /\ TableMoves
  BY <1>1, NoRowMoves DEF Inv, JobIds
<1>9. \A t \in InFlight : slots'[t].job = slots[t].job /\ slots'[t].attempt = slots[t].attempt
  BY <1>4 DEF InFlight
<1>10. DispatchOwnsRow'
  BY <1>1, <1>6, <1>8, <1>9, OwnersKeep DEF Inv, LoopInv
<1>11. QED
  BY <1>1, <1>6, <1>7, <1>8, <1>10 DEF Inv, LoopInv, ProbeRunsAlone, Severed, DrainCovers, Good

LEMMA ProbeGood ==
  ASSUME Inv, ProbeStarts \/ ProbeReaches \/ ProbeFails
  PROVE  Good
<1>1. /\ UNCHANGED <<jobs, slots, awaited, process, registry, restarts>>
      /\ probing' \in BOOLEAN /\ (probing' => InFlight = {})
  BY DEF ProbeStarts, ProbeReaches, ProbeFails, ProbeEnds, process_vars
<1>2. (UNCHANGED bridge \/ MarkBridgeUp \/ MarkBridgeDown)
  BY DEF ProbeStarts, ProbeReaches, ProbeFails, ProbeEnds, bridge
<1>3. BridgeTyped
  BY <1>2, BridgeStillTyped, BridgeUpTyped, BridgeDownTyped DEF Inv, LoopInv, BridgeTyped
<1>4. InFlight' = InFlight /\ JobIds' = JobIds
  BY <1>1 DEF InFlight, Slots, JobIds
<1>5. LoopTypeOK'
  BY <1>1, <1>3 DEF Inv, LoopInv, LoopTypeOK, BridgeTyped, Slots
<1>6. DispatchOwnsRow'
  BY <1>1, <1>4, OwnersKeep DEF Inv, LoopInv
<1>7. TableMoves
  BY <1>1, NoRowMoves DEF Inv
<1>8. QED
  BY <1>1, <1>4, <1>5, <1>6, <1>7 DEF Inv, LoopInv, ProbeRunsAlone, Severed, DrainCovers, Good

LEMMA CountedTyped ==
  ASSUME Inv, Counted \/ UNCHANGED restarts
  PROVE  restarts' \in 0..MaxRestarts
BY DispatcherConstants DEF Inv, LoopInv, LoopTypeOK, Counted

LEMMA SigtermGood ==
  ASSUME Inv, Sigterm
  PROVE  Good
<1>1. /\ process = "up" /\ process' = "draining" /\ awaited' = InFlight
      /\ UNCHANGED <<jobs, registry, slots, failures, backoff, probing>>
  BY DEF Sigterm
<1>2. restarts' \in 0..MaxRestarts
  BY CountedTyped DEF Sigterm
<1>3. InFlight' = InFlight /\ JobIds' = JobIds /\ InFlight \subseteq Slots
  BY <1>1 DEF InFlight, Slots, JobIds
<1>4. LoopTypeOK'
  BY <1>1, <1>2, <1>3 DEF Inv, LoopInv, LoopTypeOK, Slots
<1>5. DispatchOwnsRow'
  BY <1>1, <1>3, OwnersKeep DEF Inv, LoopInv
<1>6. TableMoves
  BY <1>1, NoRowMoves DEF Inv
<1>7. QED
  BY <1>1, <1>3, <1>4, <1>5, <1>6 DEF Inv, LoopInv, ProbeRunsAlone, Severed, DrainCovers, Good

LEMMA StopsGood ==
  ASSUME Inv, DrainEnds \/ GraceExpires \/ Crash
  PROVE  Good
<1>1. Stops /\ restarts' \in 0..MaxRestarts
  BY CountedTyped DEF DrainEnds, GraceExpires, Crash
<1>2. /\ process' = "down" /\ awaited' = {} /\ registry' = {} /\ failures' = 0 /\ backoff' = 0
      /\ probing' = FALSE /\ slots' = [s \in Slots |-> Idle] /\ UNCHANGED jobs
  BY <1>1 DEF Stops
<1>3. Idle \in Dispatch
  BY DEF Idle, Dispatch
<1>4. LoopTypeOK'
  <2>1. slots' \in [Slots -> Dispatch] /\ awaited' \subseteq Slots /\ Slots' = Slots
    BY <1>2, <1>3 DEF Slots
  <2>2. registry' \in {{}} \cup Registries
    BY <1>2, Zenon
  <2>3. failures' \in 0..MaxExponent /\ backoff' \in 0..BridgeCap
    BY <1>2, DispatcherConstants
  <2>4. QED
    BY <1>1, <1>2, <2>1, <2>2, <2>3 DEF LoopTypeOK
<1>5. InFlight' = {}
  BY <1>2 DEF InFlight, Slots
<1>6. DispatchOwnsRow'
  BY <1>5 DEF DispatchOwnsRow
<1>7. TableMoves
  BY <1>2, NoRowMoves DEF Inv
<1>8. QED
  BY <1>2, <1>4, <1>5, <1>6, <1>7 DEF LoopInv, ProbeRunsAlone, Severed, DrainCovers, Good

LEMMA BootGood ==
  ASSUME Inv, NEW r \in Registries, Boot(r)
  PROVE  Good
<1>1. /\ process = "down" /\ process' = "up" /\ registry' = r /\ BootSweep
      /\ UNCHANGED <<slots, awaited, failures, backoff, probing, restarts>>
  BY DEF Boot
<1>2. InFlight' = {}
  BY <1>1 DEF Inv, LoopInv, Severed, InFlight, Slots
<1>3. LoopTypeOK'
  BY <1>1 DEF Inv, LoopInv, LoopTypeOK, Slots
<1>4. DispatchOwnsRow'
  BY <1>2 DEF DispatchOwnsRow
<1>5. TableMoves
  BY <1>1, SweepMoves DEF Inv
<1>6. QED
  BY <1>1, <1>2, <1>3, <1>4, <1>5 DEF LoopInv, ProbeRunsAlone, Severed, DrainCovers, Good

LEMMA TickGood ==
  ASSUME Inv, Tick
  PROVE  Good
<1>1. /\ backoff' = Less(backoff) /\ jobs' = [i \in JobIds |-> [jobs[i] EXCEPT !.not_before = Less(@)]]
      /\ UNCHANGED <<process, registry, slots, awaited, failures, probing, restarts>>
  BY DEF Tick, process_vars
<1>2. /\ TableMoves /\ Len(jobs') = Len(jobs)
      /\ \A i \in JobIds : jobs'[i].state = jobs[i].state /\ jobs'[i].attempts = jobs[i].attempts
  BY <1>1, TickMoves DEF Inv
<1>3. BridgeTyped
  BY <1>1, DispatcherConstants DEF Inv, LoopInv, LoopTypeOK, BridgeTyped, Less
<1>4. JobIds' = JobIds
  BY <1>2 DEF JobIds
<1>5. QED
  BY <1>1, <1>2, <1>3, <1>4, LoopStays DEF Inv, Good

LEMMA TableInvNext ==
  ASSUME TableInv, TableMoves
  PROVE  TableInv'
<1>1. TableTypeOK'
  BY DEF TableMoves
<1>2. ASSUME NEW i \in JobIds' PROVE WithinBudget(jobs[i])'
  <2>1. CASE i \in JobIds
    BY <2>1 DEF TableMoves, Moves
  <2>2. CASE i \notin JobIds
    <3>1. PICK e \in Envelopes : jobs'[i] = Enqueued(e)
      BY <1>2, <2>2 DEF TableMoves
    <3>2. WithinBudget(Enqueued(e))
      BY QueueConstants DEF WithinBudget, Enqueued
    <3>3. QED
      BY <3>1, <3>2
  <2>3. QED
    BY <2>1, <2>2
<1>3. QED
  BY <1>1, <1>2 DEF TableInv, AttemptsWithinBudget

LEMMA StillGood ==
  ASSUME Inv, UNCHANGED vars
  PROVE  Good
<1>1. TableMoves
  BY NoRowMoves DEF Inv, vars
<1>2. BridgeTyped
  BY BridgeSame DEF Inv, vars
<1>3. QED
  BY <1>1, <1>2, LoopStays DEF Inv, vars, Good, JobIds

LEMMA NextGood ==
  ASSUME Inv, [Next]_vars
  PROVE  Good
<1>1. ASSUME NEW s \in Slots, Answer(s) PROVE Good
  BY <1>1, AnswerGood, HeadersGood DEF Answer
<1>2. QED
  BY <1>1, StillGood, EnqueueGood, CancelGood, ClaimGood, AnswerGood, ConnectionFailsGood,
     LastResortGood, ProbeGood, SigtermGood, StopsGood, BootGood, TickGood DEF Next

LEMMA InvInit == Init => Inv
<1> SUFFICES ASSUME Init PROVE Inv
  OBVIOUS
<1>2. Idle \in Dispatch
  BY DEF Idle, Dispatch
<1>3. LoopTypeOK
  <2>1. slots \in [Slots -> Dispatch] /\ awaited \subseteq Slots
    BY <1>2 DEF Init
  <2>2. registry \in {{}} \cup Registries
    BY Zenon DEF Init
  <2>3. failures \in 0..MaxExponent /\ backoff \in 0..BridgeCap /\ restarts \in 0..MaxRestarts
    BY DispatcherConstants DEF Init
  <2>4. QED
    BY <2>1, <2>2, <2>3 DEF Init, LoopTypeOK
<1>4. InFlight = {}
  BY DEF Init, InFlight
<1>5. TableInv
  <2>1. jobs = <<>> /\ Len(jobs) = 0 /\ jobs \in Seq(Row)
    BY DEF Init
  <2>2. \A i \in JobIds : WithinBudget(jobs[i])
    BY <2>1 DEF JobIds
  <2>3. QED
    BY <2>1, <2>2, QueueConstants DEF TableInv, TableTypeOK, AttemptsWithinBudget
<1>6. QED
  BY <1>3, <1>4, <1>5 DEF Init, Inv, LoopInv, DispatchOwnsRow, ProbeRunsAlone, Severed, DrainCovers

LEMMA InvNext == Inv /\ [Next]_vars => Inv'
BY NextGood, TableInvNext DEF Good, Inv

(* The inductive invariant: table and loop are typed, each awaited         *)
(* dispatch owns the row it claimed, and nothing is in flight when down.   *)
THEOREM SpecInv == Spec => []Inv
BY InvInit, InvNext, PTL DEF Spec

-----------------------------------------------------------------------------
(* NoOvertaking is inductive over the moves of the table: a row that waits *)
(* untouched was waiting untouched before, and no later row of the same or *)
(* less urgency is next while it does.                                     *)
LEMMA OrderKept ==
  ASSUME TableInv, NoOvertaking, TableMoves
  PROVE  NoOvertaking'
<1> SUFFICES ASSUME NEW i \in JobIds', NEW j \in JobIds', i < j,
                    jobs'[i].envelope.priority <= jobs'[j].envelope.priority,
                    jobs'[i].state = "queued", Untouched(jobs'[i])
             PROVE  Untouched(jobs'[j])
  BY DEF NoOvertaking
<1>1. Len(jobs) \in Nat /\ Len(jobs') \in Nat /\ Len(jobs') <= Len(jobs) + 1
  BY DEF TableMoves, TableInv, TableTypeOK
<1>2. i \in JobIds
  BY <1>1 DEF JobIds
<1>3. CASE j \notin JobIds
  <2>1. PICK e \in Envelopes : jobs'[j] = Enqueued(e)
    BY <1>3 DEF TableMoves
  <2>2. QED
    BY <2>1 DEF Enqueued, Untouched
<1>4. CASE j \in JobIds
  <2>1. /\ Moves(jobs[i], jobs'[i]) /\ Moves(jobs[j], jobs'[j])
        /\ jobs[j].state = "queued" /\ jobs'[j].state = "running" => IsNext(j)
    BY <1>2, <1>4 DEF TableMoves
  <2>2. /\ jobs[i] \in Row /\ jobs[j] \in Row /\ WithinBudget(jobs[i]) /\ WithinBudget(jobs[j])
    BY <1>2, <1>4, TableRows
  <2>3. ~(jobs[i].state = "running" /\ Ended(jobs[i], jobs'[i]))
    BY DEF Ended, Untouched, Null
  <2>4. jobs[i].state = "queued" /\ Untouched(jobs[i])
    BY <2>1, <2>3 DEF Moves, Untouched
  <2>5. jobs[i].envelope.priority <= jobs[j].envelope.priority
    BY <2>1 DEF Moves
  <2>6. Untouched(jobs[j])
    BY <1>2, <1>4, <2>4, <2>5 DEF NoOvertaking
  <2>7. ~IsNext(j)
    <3>1. SUFFICES ASSUME IsNext(j) PROVE FALSE
      OBVIOUS
    <3>2. Due(i)
      BY <2>4 DEF Due, Untouched, Null
    <3>3. Before(j, i)
      BY <1>2, <3>1, <3>2 DEF IsNext, JobIds
    <3>4. jobs[i].envelope.priority \in Nat /\ jobs[j].envelope.priority \in Nat
      BY <2>2, RowFields, QueueConstants
    <3>5. QED
      BY <1>2, <1>4, <2>5, <3>3, <3>4 DEF Before, JobIds
  <2>8. jobs[j].state # "running"
    BY <2>2, <2>6 DEF WithinBudget, Untouched
  <2>9. \/ jobs'[j].attempts = jobs[j].attempts /\ (jobs'[j].not_before = Null <=> jobs[j].not_before = Null)
        \/ jobs'[j].attempts = jobs[j].attempts /\ jobs'[j].not_before = jobs[j].not_before
    BY <2>1, <2>7, <2>8 DEF Moves
  <2>10. QED
    BY <2>6, <2>9 DEF Untouched
<1>5. QED
  BY <1>3, <1>4

(* max_attempts bounds the tries of every job, whatever fails. *)
THEOREM BudgetHolds == Spec => []AttemptsWithinBudget
<1>1. Inv => AttemptsWithinBudget
  BY DEF Inv, TableInv
<1>2. QED
  BY <1>1, SpecInv, PTL

(* The queue, the loop and the bridge keep their types. *)
THEOREM Typed == Spec => []TypeOK
<1>1. Inv => TypeOK
  BY DEF Inv, TableInv, TableTypeOK, LoopInv, LoopTypeOK, TypeOK
<1>2. QED
  BY <1>1, SpecInv, PTL

(* Every awaited dispatch owns its row, in the attempt it was started for. *)
THEOREM OwnersHold == Spec => []DispatchOwnsRow
<1>1. Inv => DispatchOwnsRow
  BY DEF Inv, LoopInv
<1>2. QED
  BY <1>1, SpecInv, PTL

(* No dispatch and no probe are in flight together. *)
THEOREM ProbesAreAlone == Spec => []ProbeRunsAlone
<1>1. Inv => ProbeRunsAlone
  BY DEF Inv, LoopInv
<1>2. QED
  BY <1>1, SpecInv, PTL

(* No job is overtaken by one of the same or less urgency. *)
THEOREM OrderHolds == Spec => []NoOvertaking
<1>1. Init => NoOvertaking
  BY DEF Init, NoOvertaking, JobIds
<1>2. Inv /\ NoOvertaking /\ [Next]_vars => NoOvertaking'
  BY NextGood, OrderKept DEF Inv, Good
<1>3. QED
  BY <1>1, <1>2, SpecInv, PTL DEF Spec

(* A drain that ends before the grace period does severs no dispatch. *)
THEOREM DrainSeversNothing == Spec => CleanExitSeversNothing
<1>1. Inv => (DrainEnds => InFlight = {})
  BY DEF Inv, LoopInv, DrainCovers, DrainEnds
<1>2. Inv /\ [Next]_vars => [DrainEnds => InFlight = {}]_vars
  BY <1>1
<1>3. QED
  BY <1>2, SpecInv, PTL DEF Spec, CleanExitSeversNothing

-----------------------------------------------------------------------------
(* Each move of a row is a step of its promise.                            *)
LEMMA Phases ==
  ASSUME NEW r \in Row
  PROVE  /\ r.state = "queued" => PhaseOf(r) = "waiting" /\ OutcomeOf(r) = "none"
         /\ r.state = "running" => PhaseOf(r) = "trying" /\ OutcomeOf(r) = "none"
         /\ r.state \in {"succeeded", "canceled"} => PhaseOf(r) = "done" /\ OutcomeOf(r) = r.state
         /\ r.state = "failed" => PhaseOf(r) = "done" /\ OutcomeOf(r) = r.error
BY DEF PhaseOf, OutcomeOf

LEMMA RowKeepsPromise ==
  ASSUME TableInv, TableMoves, NEW i \in 1..MaxJobs, i \in JobIds
  PROVE  Promise(i)!Next \/ UNCHANGED Promise(i)!promise
<1> DEFINE r == jobs[i]
           q == jobs'[i]
<1>1. i \in JobIds' /\ Moves(r, q) /\ r \in Row /\ WithinBudget(r)
  <2>1. Len(jobs) \in Nat /\ Len(jobs') \in Nat /\ Len(jobs) <= Len(jobs')
    BY DEF TableMoves, TableInv, TableTypeOK
  <2>2. QED
    BY <2>1, TableRows DEF TableMoves, JobIds
<1>2. Job(i) = r /\ Job(i)' = q
  BY <1>1 DEF Job
<1>3. PhaseOf(Job(i))' = PhaseOf(q) /\ OutcomeOf(Job(i))' = OutcomeOf(q)
  BY <1>2 DEF PhaseOf, OutcomeOf
<1>4. /\ q \in Row /\ WithinBudget(q) /\ q.max_attempts = r.max_attempts
      /\ q.attempts \in Nat /\ r.attempts \in Nat /\ r.max_attempts \in Nat
      /\ r.state \in JobStates
  BY <1>1, RowFields DEF Moves
<1> HIDE DEF r, q
<1>5. CASE q.state = r.state /\ q.attempts = r.attempts /\ q.error = r.error
  <2>1. PhaseOf(q) = PhaseOf(r) /\ OutcomeOf(q) = OutcomeOf(r)
    BY <1>5 DEF PhaseOf, OutcomeOf
  <2>2. QED
    BY <1>2, <1>3, <1>4, <1>5, <2>1 DEF Promise!promise
<1>6. CASE r.state = "queued" /\ q.state = "canceled" /\ q.attempts = r.attempts
  <2>1. /\ PhaseOf(r) = "waiting" /\ PhaseOf(q) = "done" /\ OutcomeOf(q) = "canceled"
    BY <1>1, <1>4, <1>6, Phases
  <2>2. Promise(i)!End("canceled")
    BY <1>2, <1>3, <1>4, <1>6, <2>1 DEF Promise!End
  <2>3. QED
    BY <2>2 DEF Promise!Next
<1>7. CASE r.state = "queued" /\ q.state = "running" /\ q.attempts = r.attempts + 1
  <2>1. /\ PhaseOf(r) = "waiting" /\ PhaseOf(q) = "trying"
        /\ OutcomeOf(r) = "none" /\ OutcomeOf(q) = "none"
    BY <1>1, <1>4, <1>7, Phases
  <2>2. r.attempts < r.max_attempts
    BY <1>1, <1>7 DEF WithinBudget
  <2>3. Promise(i)!Try
    BY <1>2, <1>3, <1>4, <1>7, <2>1, <2>2 DEF Promise!Try
  <2>4. QED
    BY <2>3 DEF Promise!Next
<1>8. CASE r.state = "running" /\ Ended(r, q)
  <2>1. PhaseOf(r) = "trying" /\ OutcomeOf(r) = "none"
    BY <1>1, <1>8, Phases
  <2>2. CASE q = r
    BY <1>2, <1>3, <2>2 DEF Promise!promise
  <2>3. CASE q.state = "queued" /\ q.attempts = r.attempts - 1
    <3>1. PhaseOf(q) = "waiting" /\ OutcomeOf(q) = "none"
      BY <1>4, <2>3, Phases
    <3>2. Promise(i)!GiveBack
      BY <1>2, <1>3, <1>4, <2>1, <2>3, <3>1 DEF Promise!GiveBack
    <3>3. QED
      BY <3>2 DEF Promise!Next
  <2>4. CASE q.state = "queued" /\ q.attempts = r.attempts
    <3>1. PhaseOf(q) = "waiting" /\ OutcomeOf(q) = "none"
      BY <1>4, <2>4, Phases
    <3>2. r.attempts < r.max_attempts
      BY <1>4, <2>4 DEF WithinBudget
    <3>3. Promise(i)!Retry
      BY <1>2, <1>3, <1>4, <2>1, <2>4, <3>1, <3>2 DEF Promise!Retry
    <3>4. QED
      BY <3>3 DEF Promise!Next
  <2>5. CASE q.state = "succeeded" /\ q.attempts = r.attempts
    <3>1. PhaseOf(q) = "done" /\ OutcomeOf(q) = "succeeded"
      BY <1>4, <2>5, Phases
    <3>2. Promise(i)!End("succeeded")
      BY <1>2, <1>3, <1>4, <2>1, <2>5, <3>1 DEF Promise!End
    <3>3. QED
      BY <3>2 DEF Promise!Next
  <2>6. CASE q.state = "failed" /\ q.error = "terminal" /\ q.attempts = r.attempts
    <3>1. PhaseOf(q) = "done" /\ OutcomeOf(q) = "terminal"
      BY <1>4, <2>6, Phases
    <3>2. Promise(i)!End("terminal")
      BY <1>2, <1>3, <1>4, <2>1, <2>6, <3>1 DEF Promise!End
    <3>3. QED
      BY <3>2 DEF Promise!Next
  <2>7. CASE /\ q.state = "failed" /\ q.error = "retries_exhausted"
             /\ q.attempts = r.attempts /\ q.attempts = q.max_attempts
    <3>1. PhaseOf(q) = "done" /\ OutcomeOf(q) = "retries_exhausted"
      BY <1>4, <2>7, Phases
    <3>2. Promise(i)!End("retries_exhausted")
      BY <1>2, <1>3, <1>4, <2>1, <2>7, <3>1 DEF Promise!End
    <3>3. QED
      BY <3>2 DEF Promise!Next
  <2>8. QED
    BY <1>8, <2>2, <2>3, <2>4, <2>5, <2>6, <2>7 DEF Ended
<1>9. QED
  BY <1>1, <1>5, <1>6, <1>7, <1>8 DEF Moves

LEMMA NewRowKeepsPromise ==
  ASSUME TableInv, TableMoves, NEW i \in 1..MaxJobs, i \notin JobIds, i \in JobIds'
  PROVE  Promise(i)!Next
<1>1. PICK e \in Envelopes : jobs'[i] = Enqueued(e)
  BY DEF TableMoves
<1>2. Job(i) = NoJob /\ Job(i)' = Enqueued(e)
  BY <1>1 DEF Job
<1>3. /\ PhaseOf(Job(i)) = "none" /\ OutcomeOf(Job(i)) = "none"
      /\ Job(i).attempts = 0
  BY <1>2 DEF PhaseOf, OutcomeOf, NoJob
<1>4. /\ PhaseOf(Job(i))' = "waiting" /\ OutcomeOf(Job(i))' = "none"
      /\ Job(i)'.attempts = 0 /\ Job(i)'.max_attempts \in Nat \ {0}
  BY <1>2, QueueConstants DEF PhaseOf, OutcomeOf, Enqueued
<1>5. Promise(i)!Accept
  BY <1>3, <1>4 DEF Promise!Accept
<1>6. QED
  BY <1>5 DEF Promise!Next

LEMMA MovesKeepPromise ==
  ASSUME TableInv, TableMoves, NEW i \in 1..MaxJobs
  PROVE  Promise(i)!Next \/ UNCHANGED Promise(i)!promise
<1>1. CASE i \notin JobIds /\ i \notin JobIds'
  BY <1>1 DEF Job, Promise!promise
<1>2. QED
  BY <1>1, RowKeepsPromise, NewRowKeepsPromise

(* Every job keeps its promise, whatever the loop, n8n, the disk, SIGTERM, *)
(* crashes and boots do.                                                   *)
THEOREM JobsKeepPromise == Spec => EveryJobKeepsPromise
<1>1. Init => \A i \in 1..MaxJobs : Promise(i)!Init
  <2>1. SUFFICES ASSUME Init, NEW i \in 1..MaxJobs PROVE Promise(i)!Init
    OBVIOUS
  <2>2. Job(i) = NoJob
    BY <2>1 DEF Init, Job, JobIds
  <2>3. QED
    BY <2>2 DEF Promise!Init, NoJob, PhaseOf, OutcomeOf
<1>2. Inv /\ [Next]_vars =>
        [\A i \in 1..MaxJobs : Promise(i)!Next \/ UNCHANGED Promise(i)!promise]_vars
  BY NextGood, MovesKeepPromise DEF Good, Inv
<1>3. QED
  BY <1>1, <1>2, SpecInv, PTL DEF Spec, EveryJobKeepsPromise

-----------------------------------------------------------------------------
(* What a dispatch that ends leaves of its row.                            *)
Ending(s, q) ==
  \/ \E retryable \in BOOLEAN : q \in FailedAttempt(JobRow(s), retryable)
  \/ q \in Succeeded(JobRow(s))
  \/ \E wait \in 0..BridgeCap : q \in GivenBack(JobRow(s), wait)
  \/ LastResort(s) /\ q = JobRow(s)

EndsWith(s, q) ==
  /\ Ending(s, q)
  /\ jobs'[slots[s].job] = q
  /\ Len(jobs') = Len(jobs) /\ \A i \in JobIds \ {slots[s].job} : jobs'[i] = jobs[i]
  /\ s \in InFlight /\ InFlight' = InFlight \ {s}
  /\ \A t \in InFlight' : slots'[t] = slots[t]
  /\ UNCHANGED process

LEMMA EndingIsAnEnd ==
  ASSUME Inv, NEW s \in Slots, slots[s] # Idle, NEW q, Ending(s, q)
  PROVE  Ended(JobRow(s), q)
<1>1. JobRow(s) \in Row /\ WithinBudget(JobRow(s)) /\ JobRow(s).state = "running"
  BY AwaitedRow
<1>2. \A w \in 0..BridgeCap : w \in Nat
  BY DispatcherConstants
<1>3. QED
  BY <1>1, <1>2, FailedEnds, SucceededEnds, GivenBackEnds DEF Ending, Ended

LEMMA EndsWrite ==
  ASSUME Inv, NEW s \in Slots, slots[s] # Idle, NEW rows, Ends(s, rows),
         \A q \in rows : Ending(s, q)
  PROVE  \E q : EndsWith(s, q)
<1> DEFINE i == slots[s].job
<1>1. PICK q \in rows : jobs' = [jobs EXCEPT ![i] = q]
  BY DEF Ends
<1>2. Ending(s, q) /\ Ended(JobRow(s), q)
  BY <1>1, EndingIsAnEnd
<1>3. s \in InFlight /\ i \in JobIds /\ jobs[i].state = "running"
  BY DEF InFlight, Inv, LoopInv, DispatchOwnsRow, JobRow
<1>4. Len(jobs') = Len(jobs) /\ \A k \in JobIds \ {i} : jobs'[k] = jobs[k]
  BY <1>1, <1>2, <1>3, EndMoves DEF Inv, JobRow
<1>5. jobs'[i] = q
  BY <1>1, <1>3 DEF Inv, TableInv, TableTypeOK, JobIds
<1>6. /\ slots \in [Slots -> Dispatch] /\ slots' = [slots EXCEPT ![s] = Idle]
      /\ UNCHANGED process
  BY DEF Inv, LoopInv, LoopTypeOK, Ends, process_vars
<1>7. InFlight' = InFlight \ {s} /\ \A t \in InFlight' : slots'[t] = slots[t]
  BY <1>6 DEF InFlight, Slots
<1>8. QED
  BY <1>2, <1>3, <1>4, <1>5, <1>6, <1>7 DEF EndsWith

EndsDispatch(s) ==
  \/ FailRemoved(s) \/ TimesOut(s) \/ HttpError(s) \/ BadReport(s) \/ ContractBroken(s)
  \/ Succeeds(s) \/ ConnectionFails(s) \/ LastResort(s)

LEMMA DispatchEnds ==
  ASSUME Inv, NEW s \in Slots, EndsDispatch(s)
  PROVE  \E q : EndsWith(s, q)
<1>1. CASE TimesOut(s) \/ HttpError(s) \/ BadReport(s) \/ ContractBroken(s)
  <2>1. slots[s] # Idle /\ \E retryable \in BOOLEAN : Ends(s, FailedAttempt(JobRow(s), retryable))
    BY <1>1, InIsAwaited DEF TimesOut, HttpError, BadReport, ContractBroken
  <2>2. QED
    BY <2>1, EndsWrite DEF Ending
<1>2. CASE FailRemoved(s)
  <2>1. slots[s] # Idle /\ Ends(s, FailedTerminal(JobRow(s)))
    BY <1>2, InIsAwaited DEF FailRemoved
  <2>2. JobRow(s).state = "running"
    BY <2>1, AwaitedRow
  <2>3. FailedTerminal(JobRow(s)) = FailedAttempt(JobRow(s), FALSE)
    BY <2>2 DEF FailedAttempt, IfRunning
  <2>4. QED
    BY <2>1, <2>3, EndsWrite DEF Ending
<1>3. CASE Succeeds(s)
  <2>1. slots[s] # Idle /\ Ends(s, Succeeded(JobRow(s)))
    BY <1>3, InIsAwaited DEF Succeeds
  <2>2. QED
    BY <2>1, EndsWrite DEF Ending
<1>4. CASE ConnectionFails(s)
  <2>1. slots[s] # Idle /\ MarkBridgeDown /\ Ends(s, GivenBack(JobRow(s), backoff'))
    BY <1>4, InIsAwaited DEF ConnectionFails
  <2>2. backoff' \in 0..BridgeCap
    BY <2>1, BridgeDownTyped DEF Inv, LoopInv
  <2>3. QED
    BY <2>1, <2>2, EndsWrite DEF Ending
<1>5. CASE LastResort(s)
  <2>1. slots[s] # Idle /\ Ends(s, FailedAttempt(JobRow(s), TRUE) \cup {JobRow(s)})
    BY <1>5 DEF LastResort
  <2>2. \A q \in FailedAttempt(JobRow(s), TRUE) \cup {JobRow(s)} : Ending(s, q)
    BY <1>5 DEF Ending
  <2>3. QED
    BY <2>1, <2>2, EndsWrite
<1>6. QED
  BY <1>1, <1>2, <1>3, <1>4, <1>5 DEF EndsDispatch

(* And what a step does when no dispatch ends.                             *)
LEMMA OtherSteps ==
  ASSUME [Next]_vars, \A s \in Slots : ~EndsDispatch(s)
  PROVE  \/ \E e \in Envelopes : EnqueueTool(e)
         \/ \E i \in JobIds : CancelTool(i) \/ \E s \in Slots : Claim(i, s)
         \/ \E s \in Slots : Headers(s)
         \/ ProbeStarts \/ ProbeReaches \/ ProbeFails \/ Sigterm
         \/ DrainEnds \/ GraceExpires \/ Crash
         \/ \E r \in Registries : Boot(r)
         \/ Tick \/ UNCHANGED vars
BY DEF Next, Answer, EndsDispatch

-----------------------------------------------------------------------------
(* An idempotency key names one job for ever: the lookup and the insert    *)
(* share a transaction, and no later write, end or boot changes a row's    *)
(* envelope (queue.ts:52-83).                                               *)
KeysNameOneJob ==
  \A i \in JobIds : \A j \in JobIds \ {i} :
    jobs[i].envelope.key = jobs[j].envelope.key => jobs[i].envelope.key = NoKey

LEMMA NewRow == \A e : Enqueued(e).envelope = e /\ Enqueued(e).state = "queued"
BY DEF Enqueued

LEMMA KeysKept ==
  ASSUME TableInv, KeysNameOneJob, TableMoves
  PROVE  KeysNameOneJob'
<1>1. /\ Len(jobs) \in Nat /\ Len(jobs') \in Nat
      /\ Len(jobs) <= Len(jobs') /\ Len(jobs') <= Len(jobs) + 1
  BY DEF TableMoves, TableInv, TableTypeOK
<1>2. JobIds \subseteq JobIds' /\ JobIds' \subseteq JobIds \cup {Len(jobs')}
  BY <1>1 DEF JobIds
<1>3. \A i \in JobIds : jobs'[i].envelope = jobs[i].envelope
  BY DEF TableMoves, Moves
<1>4. \A j \in JobIds' \ JobIds : \E e \in Envelopes : KeyIsFree(e) /\ jobs'[j].envelope = e
  BY NewRow DEF TableMoves
<1>5. \A j \in JobIds' \ JobIds, i \in JobIds :
        jobs'[i].envelope.key = jobs'[j].envelope.key => jobs'[j].envelope.key = NoKey
  BY <1>3, <1>4 DEF KeyIsFree
<1>6. ASSUME NEW i \in JobIds', NEW j \in JobIds' \ {i},
             jobs'[i].envelope.key = jobs'[j].envelope.key
      PROVE  jobs'[i].envelope.key = NoKey
  <2>1. CASE i \in JobIds /\ j \in JobIds
    BY <1>3, <1>6, <2>1 DEF KeysNameOneJob
  <2>2. CASE ~(i \in JobIds /\ j \in JobIds)
    BY <1>2, <1>5, <1>6, <2>2
  <2>3. QED
    BY <2>1, <2>2
<1>7. QED
  BY <1>6 DEF KeysNameOneJob

(* No two jobs share an idempotency key, however calls, ends and boots     *)
(* interleave.                                                             *)
THEOREM KeysAreForever == Spec => []KeysNameOneJob
<1>1. Init => KeysNameOneJob
  BY DEF Init, KeysNameOneJob, JobIds
<1>2. Inv /\ KeysNameOneJob /\ [Next]_vars => KeysNameOneJob'
  BY NextGood, KeysKept DEF Inv, Good
<1>3. QED
  BY <1>1, <1>2, SpecInv, PTL DEF Spec

-----------------------------------------------------------------------------
(* No row is stranded: every running row has a dispatch that will write    *)
(* its end.  The one exception the code knows is a dispatch whose last     *)
(* write throws and whose catch throws as well (dispatcher.ts:159-167).     *)
Awaited(i) == \E s \in InFlight : slots[s].job = i
Accounted == \A i \in JobIds : jobs[i].state = "running" => Awaited(i)

(* The safety half of EveryJobEnds: no row of a serving process is running *)
(* with nobody left to end it.                                             *)
NoRowIsStranded == Serving => Accounted

(* The disk takes at least the catch's write.                              *)
CatchWrites == \A s \in Slots : LastResort(s) => jobs'[slots[s].job] # JobRow(s)

(* A step that moves no row into running and lets no dispatch go.          *)
LEMMA AccountedStays ==
  ASSUME Accounted,
         \A i \in JobIds' : jobs'[i].state = "running" =>
           i \in JobIds /\ jobs[i].state = "running",
         InFlight \subseteq InFlight', \A s \in InFlight : slots'[s].job = slots[s].job
  PROVE  Accounted'
BY DEF Accounted, Awaited

LEMMA EndAccounted ==
  ASSUME Inv, Accounted, CatchWrites, NEW s \in Slots, NEW q, EndsWith(s, q)
  PROVE  Accounted'
<1> DEFINE i == slots[s].job
<1>1. /\ i \in JobIds /\ jobs[i].state = "running" /\ JobRow(s) = jobs[i]
  BY DEF EndsWith, Inv, LoopInv, DispatchOwnsRow, JobRow
<1>2. q # jobs[i] => q.state # "running"
  <2>1. q \in FailedAttempt(jobs[i], TRUE) \/ q \in FailedAttempt(jobs[i], FALSE) =>
          q.state # "running"
    <3>1. jobs[i] \in Row
      BY <1>1, TableRows DEF Inv
    <3>2. QED
      BY <1>1, <3>1 DEF FailedAttempt, FailedTerminal, IfRunning, Requeued, Exhausted, Row
  <2>2. \A w : q \in Succeeded(jobs[i]) \cup GivenBack(jobs[i], w) => q.state # "running"
    <3>1. jobs[i] \in Row
      BY <1>1, TableRows DEF Inv
    <3>2. QED
      BY <1>1, <3>1 DEF Succeeded, GivenBack, IfRunning, Row
  <2>3. QED
    BY <1>1, <2>1, <2>2 DEF EndsWith, Ending
<1>3. q # jobs[i]
  <2>1. CASE LastResort(s)
    BY <1>1, <2>1 DEF CatchWrites, EndsWith
  <2>2. CASE ~LastResort(s)
    <3>1. jobs[i] \in Row /\ WithinBudget(jobs[i])
      BY <1>1, TableRows DEF Inv
    <3>2. \A b \in BOOLEAN : jobs[i] \notin FailedAttempt(jobs[i], b)
      BY <1>1, <3>1 DEF FailedAttempt, FailedTerminal, IfRunning, Requeued, Exhausted, Row
    <3>3. \A w : jobs[i] \notin Succeeded(jobs[i]) \cup GivenBack(jobs[i], w)
      BY <1>1, <3>1 DEF Succeeded, GivenBack, IfRunning, Row
    <3>4. QED
      BY <1>1, <2>2, <3>2, <3>3 DEF EndsWith, Ending
  <2>3. QED
    BY <2>1, <2>2
<1>4. JobIds' = JobIds /\ jobs'[i].state # "running"
  BY <1>2, <1>3 DEF EndsWith, JobIds
<1>5. ASSUME NEW k \in JobIds', jobs'[k].state = "running" PROVE Awaited(k)'
  <2>1. k \in JobIds /\ k # i /\ jobs[k].state = "running"
    BY <1>4, <1>5 DEF EndsWith
  <2>2. PICK t \in InFlight : slots[t].job = k
    BY <2>1 DEF Accounted, Awaited
  <2>3. t \in InFlight' /\ slots'[t].job = k
    BY <2>1, <2>2 DEF EndsWith
  <2>4. QED
    BY <2>3 DEF Awaited
<1>6. QED
  BY <1>5 DEF Accounted

Stopping == DrainEnds \/ GraceExpires \/ Crash

(* Only the end of the process lets a dispatch go whose row still runs, and *)
(* a boot sweeps whatever it finds.                                        *)
LEMMA StepAccounts ==
  ASSUME Inv, CatchWrites, [Next]_vars, ~Stopping,
         Accounted \/ \E r \in Registries : Boot(r)
  PROVE  Accounted'
<1>1. TableMoves /\ TableInv
  BY NextGood DEF Good, Inv
<1>2. CASE \E r \in Registries : Boot(r)
  <2>1. BootSweep
    BY <1>2 DEF Boot
  <2>2. PICK swept \in [JobIds -> UNION {SweptRow(jobs[i]) : i \in JobIds}] :
          (\A i \in JobIds : swept[i] \in SweptRow(jobs[i])) /\ jobs' = swept
    BY <2>1 DEF BootSweep
  <2>3. JobIds' = JobIds
    <3>1. Len(jobs') \in Nat /\ Len(jobs) \in Nat /\ DOMAIN jobs' = 1..Len(jobs')
      BY <1>1 DEF TableMoves, TableInv, TableTypeOK
    <3>2. DOMAIN jobs' = JobIds
      BY <2>2
    <3>3. QED
      BY <3>1, <3>2 DEF JobIds
  <2>4. ASSUME NEW i \in JobIds PROVE jobs'[i].state # "running"
    <3>1. jobs[i] \in Row /\ jobs'[i] \in SweptRow(jobs[i])
      BY <1>1, <2>2, TableRows
    <3>2. QED
      BY <3>1 DEF SweptRow, FailedAttempt, FailedTerminal, IfRunning, Requeued, Exhausted, Row
  <2>5. QED
    BY <2>3, <2>4 DEF Accounted
<1>3. CASE Accounted /\ \E s \in Slots : EndsDispatch(s)
  BY <1>3, DispatchEnds, EndAccounted
<1>4. CASE Accounted /\ \E e \in Envelopes : EnqueueTool(e)
  <2>1. \A i \in JobIds' : jobs'[i].state = "running" => i \in JobIds /\ jobs[i].state = "running"
    <3>1. PICK e \in Envelopes : Enqueue(e)
      BY <1>4 DEF EnqueueTool
    <3>2. \A i \in JobIds : jobs'[i] = jobs[i]
      BY <1>1, <3>1, EnqueueMoves
    <3>3. \A i \in JobIds' \ JobIds : jobs'[i].state = "queued"
      BY <1>1, NewRow DEF TableMoves
    <3>4. QED
      BY <3>2, <3>3, "queued" # "running"
  <2>2. QED
    BY <1>4, <2>1, AccountedStays DEF EnqueueTool, InFlight, Slots
<1>5. CASE Accounted /\ \E i \in JobIds : CancelTool(i)
  <2>1. PICK i \in JobIds : Cancel(i) /\ UNCHANGED slots
    BY <1>5 DEF CancelTool
  <2>2. Len(jobs') = Len(jobs) /\ \A k \in JobIds \ {i} : jobs'[k] = jobs[k]
    BY <1>1, <2>1, CancelMoves
  <2>3. jobs'[i].state = "canceled"
    <3>1. jobs[i] \in Row /\ jobs' = [jobs EXCEPT ![i] = Canceled(jobs[i])] /\ i \in DOMAIN jobs
      BY <1>1, <2>1, TableRows DEF Cancel, TableInv, TableTypeOK, JobIds
    <3>2. QED
      BY <3>1 DEF Canceled, Row
  <2>4. \A k \in JobIds' : jobs'[k].state = "running" => k \in JobIds /\ jobs[k].state = "running"
    BY <2>2, <2>3 DEF JobIds
  <2>5. QED
    BY <1>5, <2>1, <2>4, AccountedStays DEF InFlight, Slots
<1>6. CASE Accounted /\ \E i \in JobIds, s \in Slots : Claim(i, s)
  <2>1. PICK i \in JobIds, s \in Slots : Claim(i, s)
    BY <1>6
  <2> DEFINE p == [job |-> i, attempt |-> jobs'[i].attempts, phase |-> FirstPhase(i)]
  <2>2. /\ slots[s] = Idle /\ ClaimNext(i) /\ slots' = [slots EXCEPT ![s] = p]
        /\ p.job = i /\ p.phase # "idle"
    BY <2>1 DEF Claim, FirstPhase
  <2>3. p # Idle
    BY <2>2 DEF Idle
  <2> HIDE DEF p
  <2>4. Len(jobs') = Len(jobs) /\ \A k \in JobIds \ {i} : jobs'[k] = jobs[k]
    BY <1>1, <2>2, ClaimMoves
  <2>5. slots'[s] = p /\ \A t \in Slots \ {s} : slots'[t] = slots[t]
    BY <2>2 DEF Inv, LoopInv, LoopTypeOK
  <2>6. InFlight' = InFlight \cup {s} /\ \A t \in InFlight : slots'[t] = slots[t]
    BY <2>2, <2>3, <2>5 DEF InFlight, Slots
  <2>7. ASSUME NEW k \in JobIds', jobs'[k].state = "running" PROVE Awaited(k)'
    <3>1. CASE k = i
      BY <2>2, <2>5, <2>6, <3>1 DEF Awaited
    <3>2. CASE k # i
      <4>1. k \in JobIds /\ jobs[k].state = "running"
        BY <2>4, <2>7, <3>2 DEF JobIds
      <4>2. PICK t \in InFlight : slots[t].job = k
        BY <1>6, <4>1 DEF Accounted, Awaited
      <4>3. QED
        BY <2>6, <4>2 DEF Awaited
    <3>3. QED
      BY <3>1, <3>2
  <2>8. QED
    BY <2>7 DEF Accounted
<1>7. CASE Accounted /\ \E s \in Slots : Headers(s)
  <2>1. PICK s \in Slots : Headers(s)
    BY <1>7
  <2>2. /\ slots \in [Slots -> Dispatch] /\ slots[s].phase = "posting"
        /\ slots' = [slots EXCEPT ![s].phase = "reading"] /\ UNCHANGED jobs
    BY <2>1 DEF Headers, In, Inv, LoopInv, LoopTypeOK
  <2>3. \A t \in Slots : slots'[t].job = slots[t].job
    BY <2>2 DEF Dispatch
  <2>4. InFlight \subseteq InFlight'
    <3>1. slots'[s].phase = "reading" /\ \A t \in Slots \ {s} : slots'[t] = slots[t]
      BY <2>2 DEF Dispatch
    <3>2. slots'[s] # Idle
      BY <3>1 DEF Idle
    <3>3. QED
      BY <3>1, <3>2 DEF InFlight, Slots
  <2>5. QED
    BY <1>7, <2>2, <2>3, <2>4, AccountedStays DEF JobIds, InFlight
<1>8. CASE Accounted /\ (ProbeStarts \/ ProbeReaches \/ ProbeFails \/ Sigterm \/ UNCHANGED vars)
  <2>1. UNCHANGED <<jobs, slots>>
    BY <1>8 DEF ProbeStarts, ProbeReaches, ProbeFails, ProbeEnds, Sigterm, vars
  <2>2. QED
    BY <1>8, <2>1, AccountedStays DEF JobIds, InFlight, Slots
<1>9. CASE Accounted /\ Tick
  <2>1. UNCHANGED slots /\ Len(jobs') = Len(jobs) /\ \A i \in JobIds : jobs'[i].state = jobs[i].state
    BY <1>1, <1>9, TickMoves DEF Tick
  <2>2. QED
    BY <1>9, <2>1, AccountedStays DEF JobIds, InFlight, Slots
<1>10. QED
  BY <1>2, <1>3, <1>4, <1>5, <1>6, <1>7, <1>8, <1>9, OtherSteps DEF Stopping

LEMMA StoppingStops == ASSUME Stopping PROVE process' = "down" /\ UNCHANGED jobs
BY DEF Stopping, DrainEnds, GraceExpires, Crash, Stops

LEMMA ServingStays ==
  ASSUME Inv, [Next]_vars, Serving'
  PROVE  Serving \/ \E r \in Registries : Boot(r)
<1>1. CASE \E s \in Slots : EndsDispatch(s)
  BY <1>1, DispatchEnds DEF EndsWith, Serving
<1>2. CASE \A s \in Slots : ~EndsDispatch(s)
  BY <1>2, OtherSteps, StoppingStops DEF Stopping, EnqueueTool, CancelTool, Claim, Headers,
     ProbeStarts, ProbeReaches, ProbeFails, ProbeEnds, Sigterm, Tick, vars, Serving, process_vars
<1>3. QED
  BY <1>1, <1>2

LEMMA StrandedNext ==
  ASSUME Inv, NoRowIsStranded, CatchWrites, [Next]_vars
  PROVE  NoRowIsStranded'
<1>1. SUFFICES ASSUME Serving' PROVE Accounted'
  BY DEF NoRowIsStranded
<1>2. ~Stopping
  BY <1>1, StoppingStops DEF Serving
<1>3. QED
  BY <1>1, <1>2, ServingStays, StepAccounts DEF NoRowIsStranded

(* While the disk takes at least the catch's write, every running row of a *)
(* serving process has a dispatch that will end it, whatever n8n answers,  *)
(* and across SIGTERM, crash and boot.                                     *)
THEOREM OnlyTheDiskStrandsJobs == Spec /\ [][CatchWrites]_vars => []NoRowIsStranded
<1>1. Init => NoRowIsStranded
  BY DEF Init, NoRowIsStranded, Serving
<1>2. Inv /\ NoRowIsStranded /\ [Next]_vars /\ [CatchWrites]_vars => NoRowIsStranded'
  <2>1. UNCHANGED vars => CatchWrites \/ (NoRowIsStranded => NoRowIsStranded')
    BY DEF vars, NoRowIsStranded, Serving, Accounted, Awaited, InFlight, JobIds, Slots
  <2>2. QED
    BY <2>1, StrandedNext
<1>3. QED
  BY <1>1, <1>2, SpecInv, PTL DEF Spec

(* DISPATCH_CONCURRENCY bounds the rows that are running, not only the     *)
(* calls in flight: the running gauge of a serving process never exceeds   *)
(* it, boots included.                                                     *)
RunningRows == {i \in JobIds : jobs[i].state = "running"}
RunningWithinConcurrency == Serving => Cardinality(RunningRows) <= Concurrency

LEMMA AccountedIsBounded ==
  ASSUME Inv, Accounted
  PROVE  Cardinality(RunningRows) <= Concurrency
<1> DEFINE f == [i \in RunningRows |-> CHOOSE s \in InFlight : slots[s].job = i]
<1>1. \A i \in RunningRows : f[i] \in InFlight /\ slots[f[i]].job = i
  BY DEF RunningRows, Accounted, Awaited
<1>2. f \in Injection(RunningRows, Slots)
  <2>1. f \in [RunningRows -> Slots]
    BY <1>1 DEF InFlight
  <2> HIDE DEF f
  <2>2. \A i \in RunningRows, j \in RunningRows : f[i] = f[j] => i = j
    BY <1>1
  <2>3. QED
    BY <2>1, <2>2 DEF Injection, IsInjective
<1> HIDE DEF f
<1>3. IsFiniteSet(Slots) /\ Cardinality(Slots) = Concurrency
  BY FS_Interval, DispatcherConstants DEF Slots
<1>4. QED
  BY <1>2, <1>3, FS_Injection

(* While the disk takes the catch's write, no more rows run than the       *)
(* dispatcher has slots.                                                   *)
THEOREM RowsRunWithinConcurrency == Spec /\ [][CatchWrites]_vars => []RunningWithinConcurrency
<1>1. Inv /\ NoRowIsStranded => RunningWithinConcurrency
  BY AccountedIsBounded DEF NoRowIsStranded, RunningWithinConcurrency
<1>2. QED
  BY <1>1, SpecInv, OnlyTheDiskStrandsJobs, PTL

-----------------------------------------------------------------------------
(* "A deploy must not consume an attempt" (dispatcher.ts:122-131): when    *)
(* every drain ended within the grace period and nothing crashed, the next *)
(* boot finds nothing to sweep and leaves every row as it was.             *)
BootsTakeNothing == [][\A r \in Registries : Boot(r) => UNCHANGED jobs]_vars

CleanStops == ~Crash /\ ~GraceExpires

LEMMA CleanAccounts ==
  ASSUME Inv, Accounted, CatchWrites, CleanStops, [Next]_vars
  PROVE  Accounted'
<1>1. CASE DrainEnds
  <2>1. InFlight = {} /\ UNCHANGED jobs
    BY <1>1, StoppingStops DEF Inv, LoopInv, DrainCovers, DrainEnds, Stopping
  <2>2. QED
    BY <2>1 DEF Accounted, Awaited, JobIds
<1>2. CASE ~DrainEnds
  BY <1>2, StepAccounts DEF Stopping, CleanStops
<1>3. QED
  BY <1>1, <1>2

LEMMA NothingToSweep ==
  ASSUME Inv, Accounted, NEW r \in Registries, Boot(r)
  PROVE  UNCHANGED jobs
<1>1. InFlight = {} /\ BootSweep
  BY DEF Boot, Inv, LoopInv, Severed
<1>2. \A i \in JobIds : jobs[i].state # "running"
  BY <1>1 DEF Accounted, Awaited
<1>3. PICK swept \in [JobIds -> UNION {SweptRow(jobs[i]) : i \in JobIds}] :
        (\A i \in JobIds : swept[i] \in SweptRow(jobs[i])) /\ jobs' = swept
  BY <1>1 DEF BootSweep
<1>4. \A i \in JobIds : jobs'[i] = jobs[i]
  BY <1>2, <1>3 DEF SweptRow, FailedAttempt, IfRunning
<1>5. jobs' = [i \in JobIds |-> jobs'[i]] /\ jobs = [i \in JobIds |-> jobs[i]]
  BY <1>3 DEF Inv, TableInv, TableTypeOK, JobIds
<1>6. QED
  BY <1>4, <1>5

(* Deploys that drain cost no job an attempt, a delay or its end.          *)
THEOREM CleanDeploysTakeNothing ==
  Spec /\ [][CatchWrites]_vars /\ [][CleanStops]_vars => BootsTakeNothing
<1>1. Init => Accounted
  BY DEF Init, Accounted, JobIds
<1>2. Inv /\ Accounted /\ [Next]_vars /\ [CatchWrites]_vars /\ [CleanStops]_vars => Accounted'
  <2>1. UNCHANGED vars => (Accounted => Accounted')
    BY DEF vars, Accounted, Awaited, InFlight, JobIds, Slots
  <2>2. QED
    BY <2>1, CleanAccounts
<1>3. Inv /\ Accounted => [\A r \in Registries : Boot(r) => UNCHANGED jobs]_vars
  BY NothingToSweep
<1>4. QED
  BY <1>1, <1>2, <1>3, SpecInv, PTL DEF Spec, BootsTakeNothing

-----------------------------------------------------------------------------
(* What OutageEnds rests on: the gauge is at 0 only in a process that has  *)
(* a registry, so something is left that dispatches or probes; a process   *)
(* without one has neither a dispatch nor a probe to mark the bridge.      *)
OutagesAreWatched ==
  /\ ~BridgeUp => Serving /\ registry # {}
  /\ registry = {} => InFlight = {} /\ ~probing
  /\ process = "down" => registry = {}

LEMMA WatchedNext ==
  ASSUME Inv, OutagesAreWatched, [Next]_vars
  PROVE  OutagesAreWatched'
<1>1. CASE \E s \in Slots : EndsDispatch(s)
  <2>1. PICK s \in Slots : EndsDispatch(s)
    BY <1>1
  <2>2. s \in InFlight /\ UNCHANGED process
    BY <2>1, DispatchEnds DEF EndsWith
  <2>3. UNCHANGED registry
    BY <2>1 DEF EndsDispatch, FailRemoved, TimesOut, HttpError, BadReport, ContractBroken,
       Succeeds, ConnectionFails, LastResort, Ends, process_vars
  <2>4. registry # {} /\ Serving
    BY <2>2 DEF OutagesAreWatched, Inv, LoopInv, LoopTypeOK, Severed, Serving
  <2>5. QED
    BY <2>2, <2>3, <2>4 DEF OutagesAreWatched, Serving
<1>2. CASE Stopping
  <2>1. /\ process' = "down" /\ registry' = {} /\ failures' = 0 /\ ~probing'
        /\ slots' = [s \in Slots |-> Idle]
    BY <1>2 DEF Stopping, DrainEnds, GraceExpires, Crash, Stops
  <2>2. InFlight' = {}
    BY <2>1 DEF InFlight, Slots
  <2>3. QED
    BY <2>1, <2>2 DEF OutagesAreWatched, BridgeUp
<1>3. CASE \E r \in Registries : Boot(r)
  <2>1. /\ process = "down" /\ process' = "up" /\ UNCHANGED <<failures, slots, probing>>
    BY <1>3 DEF Boot
  <2>2. failures = 0 /\ InFlight = {} /\ ~probing
    BY <2>1 DEF OutagesAreWatched, BridgeUp, Serving
  <2>3. InFlight' = {}
    BY <2>1, <2>2 DEF InFlight, Slots
  <2>4. QED
    BY <2>1, <2>2, <2>3 DEF OutagesAreWatched, BridgeUp
<1>4. CASE \E i \in JobIds, s \in Slots : Claim(i, s)
  <2>1. /\ process = "up" /\ registry # {} /\ UNCHANGED <<process, registry, failures>>
    BY <1>4 DEF Claim, MayClaim, Dispatching
  <2>2. QED
    BY <2>1 DEF OutagesAreWatched, Serving
<1>5. CASE \E s \in Slots : Headers(s)
  <2>1. PICK s \in Slots : Headers(s)
    BY <1>5
  <2>2. s \in InFlight /\ Serving /\ UNCHANGED <<process, registry>>
    BY <2>1, InIsAwaited DEF Headers, InFlight, process_vars
  <2>3. QED
    BY <2>2 DEF OutagesAreWatched, Serving
<1>6. CASE ProbeStarts \/ ProbeReaches \/ ProbeFails
  <2>1. Serving /\ registry # {} /\ UNCHANGED <<process, registry>>
    BY <1>6 DEF ProbeStarts, ProbeReaches, ProbeFails, ProbeEnds, Dispatching, Serving,
       process_vars, OutagesAreWatched
  <2>2. QED
    BY <2>1 DEF OutagesAreWatched, Serving
<1>7. CASE Sigterm
  <2>1. process = "up" /\ process' = "draining" /\ UNCHANGED <<registry, slots, failures, probing>>
    BY <1>7 DEF Sigterm
  <2>2. InFlight' = InFlight
    BY <2>1 DEF InFlight, Slots
  <2>3. QED
    BY <2>1, <2>2 DEF OutagesAreWatched, BridgeUp, Serving
<1>8. CASE \/ \E e \in Envelopes : EnqueueTool(e)
           \/ \E i \in JobIds : CancelTool(i)
           \/ Tick \/ UNCHANGED vars
  <2>1. UNCHANGED <<process, registry, slots, failures, probing>>
    BY <1>8 DEF EnqueueTool, CancelTool, Tick, vars, process_vars
  <2>2. InFlight' = InFlight
    BY <2>1 DEF InFlight, Slots
  <2>3. QED
    BY <2>1, <2>2 DEF OutagesAreWatched, BridgeUp, Serving
<1>9. QED
  BY <1>1, <1>2, <1>3, <1>4, <1>5, <1>6, <1>7, <1>8, OtherSteps DEF Stopping

(* An outage is never left behind by a process, nor met by one that has    *)
(* nothing with which to notice its end.                                   *)
THEOREM OutagesHaveAWatcher == Spec => []OutagesAreWatched
<1>1. Init => OutagesAreWatched
  BY DEF Init, OutagesAreWatched, BridgeUp, InFlight
<1>2. QED
  BY <1>1, WatchedNext, SpecInv, PTL DEF Spec

-----------------------------------------------------------------------------
(* No wait is out of reach: however many attempts failed or calls found    *)
(* the bridge down, a row is due after at most the longer of the two caps  *)
(* (queue.ts:126-130, dispatcher.ts:369-378: the doubled delay is capped   *)
(* before it is stored).                                                   *)
InReach(r) == r.not_before <= RetryCap + Jitter \/ r.not_before <= BridgeCap
WaitsAreInReach == \A i \in JobIds : InReach(jobs[i])

LEMMA RetryInReach ==
  ASSUME NEW r \in Row, InReach(r), NEW retryable \in BOOLEAN, NEW q \in FailedAttempt(r, retryable)
  PROVE  InReach(q)
<1>1. CASE q \in Requeued(r)
  <2>1. PICK w \in Waits(r.attempts) : q = [r EXCEPT !.state = "queued", !.not_before = w]
    BY <1>1 DEF Requeued
  <2>2. w \in 0..(RetryCap + Jitter) /\ q.not_before = w
    BY <2>1 DEF Waits, Row
  <2>3. QED
    BY <2>2, QueueConstants DEF InReach
<1>2. CASE q \notin Requeued(r)
  BY <1>2 DEF FailedAttempt, FailedTerminal, IfRunning, Exhausted, InReach, Row
<1>3. QED
  BY <1>1, <1>2

LEMMA EndInReach ==
  ASSUME Inv, WaitsAreInReach, NEW s \in Slots, NEW q, EndsWith(s, q)
  PROVE  WaitsAreInReach'
<1> DEFINE r == JobRow(s)
<1>1. slots[s].job \in JobIds /\ r \in Row /\ InReach(r)
  BY TableRows DEF EndsWith, Inv, LoopInv, DispatchOwnsRow, JobRow, WaitsAreInReach
<1>2. Ending(s, q)
  BY DEF EndsWith
<1>3. InReach(q)
  <2>1. ASSUME NEW w \in 0..BridgeCap, q \in GivenBack(r, w) PROVE InReach(q)
    <3>1. \/ q = r
          \/ q = [r EXCEPT !.state = "queued", !.attempts = @ - 1, !.not_before = w]
      BY <2>1 DEF GivenBack, IfRunning
    <3>2. q = r \/ q.not_before = w
      BY <1>1, <3>1 DEF Row
    <3>3. QED
      BY <1>1, <3>2, DispatcherConstants DEF InReach
  <2>2. q \in Succeeded(r) => InReach(q)
    BY <1>1 DEF Succeeded, IfRunning, InReach, Row
  <2>3. \A b \in BOOLEAN : q \in FailedAttempt(r, b) => InReach(q)
    BY <1>1, RetryInReach
  <2> HIDE DEF r
  <2>4. QED
    BY <1>1, <1>2, <2>1, <2>2, <2>3 DEF Ending, r
<1>4. JobIds' = JobIds
  BY DEF EndsWith, JobIds
<1>5. QED
  BY <1>3, <1>4 DEF EndsWith, WaitsAreInReach

LEMMA ReachNext ==
  ASSUME Inv, WaitsAreInReach, [Next]_vars
  PROVE  WaitsAreInReach'
<1>1. TableMoves /\ TableInv
  BY NextGood DEF Good, Inv
<1>2. CASE \E s \in Slots : EndsDispatch(s)
  BY <1>2, DispatchEnds, EndInReach
<1>3. CASE \E e \in Envelopes : EnqueueTool(e)
  <2>1. PICK e \in Envelopes : Enqueue(e)
    BY <1>3 DEF EnqueueTool
  <2>2. \A i \in JobIds : jobs'[i] = jobs[i]
    BY <1>1, <2>1, EnqueueMoves
  <2>3. \A f : InReach(Enqueued(f))
    BY QueueConstants DEF InReach, Enqueued, Null
  <2>4. \A i \in JobIds' \ JobIds : InReach(jobs'[i])
    BY <1>1, <2>3 DEF TableMoves
  <2>5. QED
    BY <2>2, <2>4 DEF WaitsAreInReach
<1>4. ASSUME NEW i \in JobIds, NEW q, jobs' = [jobs EXCEPT ![i] = q], q.not_before = jobs[i].not_before
      PROVE  WaitsAreInReach'
  <2>1. InReach(q)
    BY <1>4 DEF WaitsAreInReach, InReach
  <2>2. /\ jobs'[i] = q /\ \A k \in JobIds \ {i} : jobs'[k] = jobs[k]
        /\ DOMAIN jobs' = JobIds
    BY <1>1, <1>4 DEF TableInv, TableTypeOK, JobIds
  <2>3. JobIds' = JobIds
    BY <1>1, <2>2 DEF TableMoves, TableInv, TableTypeOK, JobIds
  <2>4. QED
    BY <2>1, <2>2, <2>3 DEF WaitsAreInReach
<1>5. CASE \E i \in JobIds : CancelTool(i)
  <2>1. PICK i \in JobIds : Cancel(i)
    BY <1>5 DEF CancelTool
  <2>2. jobs[i] \in Row /\ jobs' = [jobs EXCEPT ![i] = Canceled(jobs[i])]
    BY <1>1, <2>1, TableRows DEF Cancel, TableInv, TableTypeOK, JobIds
  <2>3. Canceled(jobs[i]).not_before = jobs[i].not_before
    BY <2>2 DEF Canceled, Row
  <2>4. QED
    BY <1>4, <2>2, <2>3
<1>6. CASE \E i \in JobIds, s \in Slots : Claim(i, s)
  <2>1. PICK i \in JobIds : ClaimNext(i)
    BY <1>6 DEF Claim
  <2>2. jobs[i] \in Row /\ jobs' = [jobs EXCEPT ![i] = Claimed(jobs[i])]
    BY <1>1, <2>1, TableRows DEF ClaimNext, TableInv, TableTypeOK, JobIds
  <2>3. Claimed(jobs[i]).not_before = jobs[i].not_before
    BY <2>2 DEF Claimed, Row
  <2>4. QED
    BY <1>4, <2>2, <2>3
<1>7. CASE \E r \in Registries : Boot(r)
  <2>1. PICK swept \in [JobIds -> UNION {SweptRow(jobs[i]) : i \in JobIds}] :
          (\A i \in JobIds : swept[i] \in SweptRow(jobs[i])) /\ jobs' = swept
    BY <1>7 DEF Boot, BootSweep
  <2>2. \A i \in JobIds : InReach(jobs'[i])
    BY <1>1, <2>1, TableRows, RetryInReach DEF SweptRow, WaitsAreInReach
  <2>3. DOMAIN jobs' = JobIds
    BY <2>1
  <2>4. JobIds' = JobIds
    BY <1>1, <2>3 DEF TableMoves, TableInv, TableTypeOK, JobIds
  <2>5. QED
    BY <2>2, <2>4 DEF WaitsAreInReach
<1>8. CASE Tick
  <2>1. jobs' = [i \in JobIds |-> [jobs[i] EXCEPT !.not_before = Less(@)]]
    BY <1>8 DEF Tick
  <2>2. \A i \in JobIds : InReach(jobs'[i])
    <3>1. SUFFICES ASSUME NEW i \in JobIds PROVE InReach(jobs'[i])
      OBVIOUS
    <3>2. jobs[i] \in Row /\ InReach(jobs[i]) /\ jobs[i].not_before \in Int
      BY <1>1, TableRows, RowFields DEF WaitsAreInReach
    <3>3. jobs'[i].not_before = Less(jobs[i].not_before)
      BY <2>1, <3>2 DEF Row
    <3>4. QED
      BY <3>2, <3>3, QueueConstants, DispatcherConstants DEF InReach, Less
  <2>3. JobIds' = JobIds
    BY <1>1, <2>1, TickMoves DEF JobIds
  <2>4. QED
    BY <2>2, <2>3 DEF WaitsAreInReach
<1>9. CASE UNCHANGED jobs
  BY <1>9 DEF WaitsAreInReach, JobIds
<1>10. QED
  BY <1>2, <1>3, <1>5, <1>6, <1>7, <1>8, <1>9, OtherSteps, StoppingStops
  DEF Stopping, Headers, ProbeStarts, ProbeReaches, ProbeFails, ProbeEnds, Sigterm, vars

(* Every waiting row is due after at most the longer of the two caps.      *)
THEOREM EveryWaitEnds == Spec => []WaitsAreInReach
<1>1. Init => WaitsAreInReach
  BY DEF Init, WaitsAreInReach, JobIds
<1>2. QED
  BY <1>1, ReachNext, SpecInv, PTL DEF Spec
=============================================================================
