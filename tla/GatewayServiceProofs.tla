------------------------ MODULE GatewayServiceProofs ------------------------
(***************************************************************************)
(* Proofs about GatewayService: for every number of tasks, every order of  *)
(* their steps, of the provider's, of failed writes, shutdowns, crashes    *)
(* and restarts, money given back was never spent; the service is a user   *)
(* of the ledger that its promises cover, and every row it opens is closed *)
(* by the coroutine that owns it or by the next boot.                      *)
(***************************************************************************)
EXTENDS GatewayService, LedgerRefinementProofs

Ended == {"answered", "stranded", "gone"}

(* What one task keeps true.  A released row belongs to a coroutine that   *)
(* is over, and a task that may still call the provider has not yet been   *)
(* generated for: without these two the safety properties are not          *)
(* inductive.                                                              *)
TaskInv(t) ==
  /\ sent[t] + billed[t] <= 1
  /\ task[t].pc \in {"new", "prepared"} => sent[t] + billed[t] = 0
  /\ task[t].pc = "finishing" /\ task[t].outcome = "released" => sent[t] + billed[t] = 0
  /\ task[t].retryable =>
       sent[t] + billed[t] = 0 /\ task[t].pc \in Ended \cup {"finishing"}
  /\ task[t].pc = "new" <=> task[t].row = NoRow
  /\ task[t].pc \in {"new", "prepared"} => task[t].attempt <= 1
  /\ t \in marks => task[t].row # NoRow
  /\ task[t].row # NoRow /\ RowOf(t).state = "released" =>
       sent[t] + billed[t] = 0 /\ task[t].pc \in Ended

ServiceInv == TypeOK /\ ServiceTypeOK /\ \A t \in Tasks : TaskInv(t)

-----------------------------------------------------------------------------
(* What the ledger's steps do to the table, as far as the tasks can tell.  *)

(* The table only grows, and no row outside R becomes released. *)
ReleasesOnly(R) ==
  /\ Len(requests') \in Nat /\ Len(requests) <= Len(requests')
  /\ \A i \in 1..Len(requests) :
       requests'[i].state = "released" => requests[i].state = "released" \/ i \in R

LEMMA ClosingReleases ==
  ASSUME TypeOK, NEW i \in 1..Len(requests), NEW state \in States, NEW amounts,
         CloseRow(i, state, amounts)
  PROVE  ReleasesOnly(IF state = "released" THEN {i} ELSE {}) /\ Len(requests') = Len(requests)
<1>1. requests \in Seq(Row) /\ requests[i] \in Row
  BY DEF TypeOK
<1>2. Closed(requests[i], state, amounts).state = state
  BY <1>1 DEF Closed, Row
<1>3. requests' = [requests EXCEPT ![i] = Closed(requests[i], state, amounts)]
  BY DEF CloseRow
<1>4. Len(requests') = Len(requests) /\ Len(requests) \in Nat
  BY <1>1, <1>3
<1>5. \A k \in 1..Len(requests) :
        requests'[k] = IF k = i THEN Closed(requests[i], state, amounts) ELSE requests[k]
  BY <1>1, <1>3
<1>6. QED
  BY <1>2, <1>4, <1>5 DEF ReleasesOnly

LEMMA SettleReleases ==
  ASSUME TypeOK, NEW i \in 1..Len(requests), NEW amounts, Settle(i, amounts)
  PROVE  ReleasesOnly({}) /\ Len(requests') = Len(requests)
<1>1. CloseRow(i, "settled", amounts) /\ "settled" \in States
  BY DEF Settle, States, ChargedStates
<1>2. QED
  BY <1>1, ClosingReleases, "settled" # "released"

LEMMA FinishReleases ==
  ASSUME TypeOK, NEW i \in 1..Len(requests),
         NEW outcome \in {"released", "timeout", "aborted"}, Finish(i, outcome)
  PROVE  ReleasesOnly(IF outcome = "released" THEN {i} ELSE {}) /\ Len(requests') = Len(requests)
<1> DEFINE final == FinalState(requests[i], outcome)
           amounts == IF final = "released" THEN [b \in Bases |-> 0] ELSE requests[i].inp.worst
<1>1. CloseRow(i, final, amounts)
  BY DEF Finish
<1>2. final \in States /\ (final = "released" => outcome = "released")
  BY DEF FinalState, States, ChargedStates
<1> HIDE DEF final, amounts
<1>3. ReleasesOnly(IF final = "released" THEN {i} ELSE {}) /\ Len(requests') = Len(requests)
  BY <1>1, <1>2, ClosingReleases
<1>4. QED
  BY <1>2, <1>3 DEF ReleasesOnly

LEMMA StillReleases ==
  ASSUME TypeOK, UNCHANGED requests
  PROVE  ReleasesOnly({})
BY DEF TypeOK, ReleasesOnly

LEMMA MarkReleases ==
  ASSUME TypeOK, NEW i \in 1..Len(requests), MarkUpstreamStarted(i)
  PROVE  ReleasesOnly({})
<1>1. requests \in Seq(Row) /\ requests[i] \in Row
  BY DEF TypeOK
<1>2. requests' = [requests EXCEPT ![i] = [requests[i] EXCEPT !.upstream_started = TRUE]]
  BY <1>1 DEF MarkUpstreamStarted
<1>3. [requests[i] EXCEPT !.upstream_started = TRUE].state = requests[i].state
  BY <1>1 DEF Row
<1>4. QED
  BY <1>1, <1>2, <1>3 DEF ReleasesOnly

LEMMA BootReleases ==
  ASSUME TypeOK, Boot
  PROVE  ReleasesOnly({})
<1>1. requests \in Seq(Row) /\ \A i \in 1..Len(requests) : requests[i] \in Row
  BY DEF TypeOK
<1>2. requests' = [i \in 1..Len(requests) |-> Swept(requests[i])]
  BY DEF Boot, Sweep
<1>3. \A row \in Row : Swept(row).state = "released" => row.state = "released"
  BY DEF Swept, Closed, Row
<1>4. Len(requests') = Len(requests) /\ Len(requests) \in Nat
  BY <1>1, <1>2
<1>5. QED
  BY <1>1, <1>2, <1>3, <1>4 DEF ReleasesOnly

(* A write of a worker thread, or nothing when the row is closed. *)
LEMMA WrittenMark ==
  ASSUME TypeOK, NEW i \in 1..Len(requests), Written(MarkUpstreamStarted(i), i)
  PROVE  ReleasesOnly({}) /\ [Next]_vars /\ Len(requests') = Len(requests)
<1>1. CASE StillReserved(i)
  BY <1>1, MarkReleases DEF Written, Next, MarkUpstreamStarted
<1>2. CASE ~StillReserved(i)
  BY <1>2, StillReleases DEF Written, vars
<1>3. QED
  BY <1>1, <1>2
LEMMA WrittenSettle ==
  ASSUME TypeOK, NEW i \in 1..Len(requests), NEW amounts \in Actuals, Written(Settle(i, amounts), i)
  PROVE  ReleasesOnly({}) /\ [Next]_vars /\ Len(requests') = Len(requests)
<1>1. CASE StillReserved(i)
  <2>1. Settle(i, amounts)
    BY <1>1 DEF Written
  <2>2. Next
    BY <2>1 DEF Next
  <2>3. QED
    BY <2>1, <2>2, SettleReleases
<1>2. CASE ~StillReserved(i)
  BY <1>2, StillReleases DEF Written, vars
<1>3. QED
  BY <1>1, <1>2

LEMMA WrittenFinish ==
  ASSUME TypeOK, NEW i \in 1..Len(requests),
         NEW outcome \in {"released", "timeout", "aborted"}, Written(Finish(i, outcome), i)
  PROVE  /\ ReleasesOnly(IF outcome = "released" THEN {i} ELSE {})
         /\ [Next]_vars /\ Len(requests') = Len(requests)
<1>1. CASE StillReserved(i)
  <2>1. Finish(i, outcome)
    BY <1>1 DEF Written
  <2>2. Next
    BY <2>1 DEF Next
  <2>3. QED
    BY <2>1, <2>2, FinishReleases
<1>2. CASE ~StillReserved(i)
  <2>1. UNCHANGED vars /\ UNCHANGED requests
    BY <1>2 DEF Written, vars
  <2>2. QED
    BY <2>1, StillReleases DEF ReleasesOnly
<1>3. QED
  BY <1>1, <1>2

LEMMA FailedWrite ==
  ASSUME TypeOK, WriteFails
  PROVE  ReleasesOnly({}) /\ [Next]_vars /\ Len(requests') = Len(requests)
<1>1. UNCHANGED requests
  BY DEF WriteFails, stored
<1>2. QED
  BY <1>1, StillReleases DEF Next

LEMMA NoWrite ==
  ASSUME TypeOK, UNCHANGED vars
  PROVE  ReleasesOnly({}) /\ [Next]_vars /\ Len(requests') = Len(requests)
<1>1. UNCHANGED requests
  BY DEF vars
<1>2. QED
  BY <1>1, StillReleases

LEMMA ReserveReleases ==
  ASSUME TypeOK, NEW inp \in Inputs, Reserve(inp)
  PROVE  /\ ReleasesOnly({}) /\ [Next]_vars
         /\ Len(requests') = Len(requests) + 1
         /\ requests'[Len(requests) + 1].state = "reserved"
<1>1. NewRow(inp) \in Row /\ requests' = Append(requests, NewRow(inp)) /\ requests \in Seq(Row)
  BY NewRowType, ConstantsAssumption DEF Reserve, TypeOK
<1>2. NewRow(inp).state = "reserved"
  BY DEF NewRow
<1>3. QED
  BY <1>1, <1>2 DEF ReleasesOnly, Next

-----------------------------------------------------------------------------
(* A task whose own state a step leaves alone. *)
LEMMA OthersStay ==
  ASSUME TypeOK, ServiceTypeOK, NEW t \in Tasks, TaskInv(t),
         task'[t] = task[t], sent'[t] + billed'[t] = sent[t] + billed[t],
         t \in marks' => t \in marks \/ task[t].row # NoRow,
         NEW R, ReleasesOnly(R), task[t].row \notin R
  PROVE  TaskInv(t)'
<1>1. task[t].row \in 0..Len(requests)
  BY DEF ServiceTypeOK, TaskRecord
<1>2. task[t].row # NoRow => (RowOf(t)'.state = "released" => RowOf(t).state = "released")
  BY <1>1 DEF ReleasesOnly, RowOf, NoRow, TypeOK
<1>3. QED
  BY <1>2 DEF TaskInv

LEMMA LiveRow ==
  ASSUME ServiceInv, NEW t \in Tasks, task[t].pc \notin Ended, task[t].row # NoRow,
         ReleasesOnly({}), task'[t].row = task[t].row
  PROVE  RowOf(t)'.state # "released"
<1>1. task[t].row \in 1..Len(requests)
  BY DEF ServiceInv, ServiceTypeOK, TaskRecord, NoRow, TypeOK
<1>2. RowOf(t).state # "released"
  BY DEF ServiceInv, TaskInv
<1>3. QED
  BY <1>1, <1>2 DEF ReleasesOnly, RowOf

(* A step of one task, described by the record it leaves the task in. *)
StepOf(t, rec, R) ==
  /\ task' = [task EXCEPT ![t] = rec]
  /\ rec \in TaskRecord(Len(requests)) /\ rec.row = task[t].row /\ rec.row # NoRow
  /\ sent' \in [Tasks -> 0..2] /\ billed' \in [Tasks -> 0..2]
  /\ \A u \in Tasks \ {t} : sent'[u] = sent[u] /\ billed'[u] = billed[u]
  /\ marks' \subseteq marks \cup {t} /\ stopping' \in BOOLEAN
  /\ ReleasesOnly(R) /\ R \subseteq {task[t].row}
  /\ [Next]_vars /\ Len(requests') = Len(requests)

LEMMA OneTaskSteps ==
  ASSUME ServiceInv, NEW t \in Tasks, NEW rec, NEW R, StepOf(t, rec, R), TaskInv(t)'
  PROVE  ServiceInv'
<1>1. TypeOK'
  BY NextTypeOK DEF ServiceInv, StepOf
<1>2. task'[t] = rec /\ \A u \in Tasks \ {t} : task'[u] = task[u]
  BY DEF ServiceInv, ServiceTypeOK, StepOf
<1>3. task' \in [Tasks -> TaskRecord(Len(requests'))]
  BY DEF ServiceInv, ServiceTypeOK, StepOf
<1>4. \A u \in Tasks : task'[u].row = task[u].row
  BY <1>2 DEF StepOf
<1>5. ServiceTypeOK'
  BY <1>3, <1>4 DEF ServiceInv, ServiceTypeOK, StepOf
<1>6. ASSUME NEW u \in Tasks \ {t} PROVE TaskInv(u)'
  <2>1. task[u].row \notin R
    BY DEF ServiceInv, ServiceTypeOK, StepOf
  <2>2. TypeOK /\ ServiceTypeOK /\ TaskInv(u)
    BY DEF ServiceInv
  <2>3. sent'[u] + billed'[u] = sent[u] + billed[u]
    BY DEF StepOf
  <2>4. u \in marks' => u \in marks
    BY DEF StepOf
  <2>5. ReleasesOnly(R)
    BY DEF StepOf
  <2>6. QED
    BY <1>2, <2>1, <2>2, <2>3, <2>4, <2>5, OthersStay
<1>7. QED
  BY <1>1, <1>5, <1>6 DEF ServiceInv

(* What _fail or the retry leaves the task in. *)
LEMMA FailsLeaves ==
  ASSUME ServiceInv, NEW t \in Tasks, task[t].pc \in {"calling", "marking", "streaming"},
         NEW failure, NEW soon, Fails(t, failure, soon)
  PROVE  \E rec \in TaskRecord(Len(requests)) :
           /\ task' = [task EXCEPT ![t] = rec] /\ rec.row = task[t].row
           /\ rec.pc \in {"prepared", "finishing"}
           /\ rec.pc = "prepared" =>
                /\ failure.before_generation /\ failure.kind \in {"network", "rate_limited"}
                /\ rec.attempt <= 1
           /\ rec.pc = "finishing" /\ rec.outcome = "released" =>
                failure.before_generation /\ failure.kind \in Refusals
           /\ rec.retryable => rec.pc = "finishing" /\ rec.outcome = "released"
<1>1. task[t] \in TaskRecord(Len(requests)) /\ ~task[t].retryable
  BY DEF ServiceInv, ServiceTypeOK, TaskInv, Ended, TaskRecord
<1> DEFINE outcome == OutcomeOf(failure, task[t].started)
           again == outcome = "released" /\ failure.kind \in RetryableReleasedKinds
<1>2. outcome \in {"released", "timeout", "aborted"}
      /\ (outcome = "released" => failure.before_generation /\ failure.kind \in Refusals)
  BY DEF OutcomeOf, ProvesNoGeneration
<1>3. CASE MayRetry(t) /\ RetryOnce(failure, soon)
  <2> DEFINE rec == [task[t] EXCEPT !.pc = "prepared"]
  <2>1. rec \in TaskRecord(Len(requests)) /\ rec.row = task[t].row /\ rec.pc = "prepared"
        /\ rec.attempt <= 1 /\ ~rec.retryable
    BY <1>1, <1>3 DEF TaskRecord, Places, MayRetry
  <2>2. task' = [task EXCEPT ![t] = rec]
    BY <1>3 DEF Fails, Goto, ServiceInv, ServiceTypeOK
  <2>3. failure.before_generation /\ failure.kind \in {"network", "rate_limited"}
    BY <1>3 DEF RetryOnce, RetriedKind
  <2> HIDE DEF rec
  <2>4. QED
    BY <2>1, <2>2, <2>3
<1>4. CASE ~(MayRetry(t) /\ RetryOnce(failure, soon))
  <2> DEFINE rec == [task[t] EXCEPT !.pc = "finishing", !.outcome = outcome, !.retryable = again]
  <2>1. task' = [task EXCEPT ![t] = rec]
    BY <1>4 DEF Fails, ServiceInv, ServiceTypeOK
  <2> HIDE DEF outcome
  <2>2. rec \in TaskRecord(Len(requests)) /\ rec.row = task[t].row /\ rec.pc = "finishing"
        /\ rec.outcome = outcome /\ rec.retryable = again
    BY <1>1, <1>2 DEF TaskRecord, Places
  <2> HIDE DEF rec
  <2>3. QED
    BY <1>2, <2>1, <2>2
<1>5. QED
  BY <1>3, <1>4

-----------------------------------------------------------------------------
(* The steps of one task, one lemma for each kind of write under it.       *)

(* The task only goes from one place to another. *)
LEMMA MovedTo ==
  ASSUME ServiceInv, NEW t \in Tasks, NEW place \in Places, Goto(t, place)
  PROVE  \E rec \in TaskRecord(Len(requests)) :
           /\ task' = [task EXCEPT ![t] = rec] /\ rec.row = task[t].row /\ rec.pc = place
           /\ rec.outcome = task[t].outcome /\ rec.retryable = task[t].retryable
           /\ rec.attempt = task[t].attempt /\ rec.started = task[t].started
<1> DEFINE rec == [task[t] EXCEPT !.pc = place]
<1>1. task[t] \in TaskRecord(Len(requests))
  BY DEF ServiceInv, ServiceTypeOK
<1>2. rec \in TaskRecord(Len(requests)) /\ rec.pc = place /\ rec.row = task[t].row
      /\ rec.outcome = task[t].outcome /\ rec.retryable = task[t].retryable
      /\ rec.attempt = task[t].attempt /\ rec.started = task[t].started
  BY <1>1 DEF TaskRecord
<1>3. task' = [task EXCEPT ![t] = rec]
  BY DEF Goto, ServiceInv, ServiceTypeOK
<1> HIDE DEF rec
<1>4. QED
  BY <1>2, <1>3

(* A step that releases nothing keeps a task that is not over, if the      *)
(* record it leaves it in is right about the provider's count.             *)
LEMMA LiveStep ==
  ASSUME ServiceInv, NEW t \in Tasks, task[t].pc \notin Ended \cup {"new"}, NEW rec,
         StepOf(t, rec, {}), rec.pc # "new",
         sent'[t] + billed'[t] <= 1,
         rec.pc = "prepared" => sent'[t] + billed'[t] = 0 /\ rec.attempt <= 1,
         rec.pc = "finishing" /\ rec.outcome = "released" => sent'[t] + billed'[t] = 0,
         rec.retryable => sent'[t] + billed'[t] = 0 /\ rec.pc \in Ended \cup {"finishing"}
  PROVE  ServiceInv'
<1>1. task'[t] = rec
  BY DEF StepOf, ServiceInv, ServiceTypeOK
<1>2. task[t].row # NoRow
  BY DEF ServiceInv, TaskInv
<1>3. RowOf(t)'.state # "released"
  BY <1>1, <1>2, LiveRow DEF StepOf
<1>4. TaskInv(t)'
  BY <1>1, <1>2, <1>3 DEF TaskInv, StepOf
<1>5. QED
  BY <1>4, OneTaskSteps

LEMMA RowInTable ==
  ASSUME ServiceInv, NEW t \in Tasks, task[t].row # NoRow
  PROVE  task[t].row \in 1..Len(requests)
BY DEF ServiceInv, ServiceTypeOK, TaskRecord, NoRow, TypeOK

CallRecord(r, k) == [r EXCEPT !.pc = "calling", !.attempt = k]
OpenRecord(r, place, k) == [r EXCEPT !.pc = place, !.row = k]

LEMMA Called ==
  ASSUME NEW n, NEW r \in TaskRecord(n), NEW k \in 0..2
  PROVE  /\ CallRecord(r, k) \in TaskRecord(n) /\ CallRecord(r, k).row = r.row
         /\ CallRecord(r, k).pc = "calling" /\ CallRecord(r, k).retryable = r.retryable
BY DEF CallRecord, TaskRecord, Places

LEMMA Opened ==
  ASSUME NEW n \in Nat, NEW m \in Nat, NEW r \in TaskRecord(m), NEW place \in Places, NEW k \in 0..n
  PROVE  /\ OpenRecord(r, place, k) \in TaskRecord(n) /\ OpenRecord(r, place, k).row = k
         /\ OpenRecord(r, place, k).pc = place /\ OpenRecord(r, place, k).retryable = r.retryable
         /\ OpenRecord(r, place, k).attempt = r.attempt
BY DEF OpenRecord, TaskRecord

LEMMA KeepsSend == ASSUME ServiceInv, NEW t \in Tasks, Send(t) PROVE ServiceInv'
<1>1. task[t] \in TaskRecord(Len(requests)) /\ task[t].pc = "prepared"
      /\ task[t].row # NoRow /\ task[t].attempt <= 1 /\ ~task[t].retryable
      /\ sent[t] + billed[t] = 0 /\ sent[t] \in 0..2 /\ billed[t] \in 0..2
  BY DEF Send, At, ServiceInv, ServiceTypeOK, TaskInv, Ended
<1>0. task[t].attempt + 1 \in 0..2
  BY <1>1 DEF TaskRecord
<1> DEFINE rec == CallRecord(task[t], task[t].attempt + 1)
<1>2. rec \in TaskRecord(Len(requests)) /\ rec.row = task[t].row /\ rec.pc = "calling"
      /\ rec.retryable = task[t].retryable
  BY <1>0, <1>1, Called
<1>3. task' = [task EXCEPT ![t] = rec]
  BY DEF Send, CallRecord, ServiceInv, ServiceTypeOK
<1> HIDE DEF rec
<1>4. sent' \in [Tasks -> 0..2] /\ billed' \in [Tasks -> 0..2]
      /\ sent'[t] + billed'[t] = 1
      /\ \A u \in Tasks \ {t} : sent'[u] = sent[u] /\ billed'[u] = billed[u]
  BY <1>1 DEF Send, ServiceInv, ServiceTypeOK
<1>5. ReleasesOnly({}) /\ [Next]_vars /\ Len(requests') = Len(requests)
  BY NoWrite DEF Send, ServiceInv
<1>6. marks' \subseteq marks \cup {t} /\ stopping' \in BOOLEAN
  BY DEF Send, ServiceInv, ServiceTypeOK
<1>7. StepOf(t, rec, {})
  BY <1>1, <1>2, <1>3, <1>4, <1>5, <1>6 DEF StepOf
<1>8. QED
  BY <1>1, <1>2, <1>4, <1>7, LiveStep DEF Ended

LEMMA KeepsRefused ==
  ASSUME ServiceInv, NEW t \in Tasks, NEW kind \in Refusals, NEW soon \in BOOLEAN,
         Refused(t, kind, soon)
  PROVE  ServiceInv'
<1>1. task[t].pc = "calling" /\ task[t].row # NoRow
      /\ sent[t] + billed[t] <= 1 /\ sent[t] \in 0..2 /\ billed[t] \in 0..2 /\ sent[t] > 0
  BY DEF Refused, At, ServiceInv, ServiceTypeOK, TaskInv
<1>2. Fails(t, Failure(kind, TRUE), soon)
  BY DEF Refused
<1>3. PICK rec \in TaskRecord(Len(requests)) :
        /\ task' = [task EXCEPT ![t] = rec] /\ rec.row = task[t].row
        /\ rec.pc \in {"prepared", "finishing"}
        /\ rec.pc = "prepared" => rec.attempt <= 1
        /\ rec.retryable => rec.pc = "finishing"
  BY <1>1, <1>2, FailsLeaves
<1>4. sent' \in [Tasks -> 0..2] /\ billed' \in [Tasks -> 0..2]
      /\ sent'[t] + billed'[t] = 0
      /\ \A u \in Tasks \ {t} : sent'[u] = sent[u] /\ billed'[u] = billed[u]
  <2>1. sent \in [Tasks -> 0..2] /\ billed \in [Tasks -> 0..2] /\ billed' = billed
        /\ sent' = [sent EXCEPT ![t] = sent[t] - 1]
    BY DEF Refused, ServiceInv, ServiceTypeOK
  <2>2. sent[t] = 1 /\ billed[t] = 0
    BY <1>1
  <2>3. sent' = [sent EXCEPT ![t] = 0]
    BY <2>1, <2>2
  <2>4. QED
    BY <2>1, <2>2, <2>3
<1>5. ReleasesOnly({}) /\ [Next]_vars /\ Len(requests') = Len(requests)
  BY NoWrite DEF Refused, ServiceInv
<1>6. marks' \subseteq marks \cup {t} /\ stopping' \in BOOLEAN
  BY DEF Refused, ServiceInv, ServiceTypeOK
<1>7. StepOf(t, rec, {})
  BY <1>1, <1>3, <1>4, <1>5, <1>6 DEF StepOf
<1>8. QED
  BY <1>1, <1>3, <1>4, <1>7, LiveStep DEF Ended

(* An outcome that proves nothing neither retries nor releases. *)
LEMMA KeepsUnproved ==
  ASSUME ServiceInv, NEW t \in Tasks, task[t].pc \in {"calling", "marking", "streaming"},
         NEW failure, ~failure.before_generation \/ failure.kind = "timeout",
         Fails(t, failure, FALSE), UNCHANGED <<sent, billed, marks, stopping>>,
         ReleasesOnly({}), [Next]_vars, Len(requests') = Len(requests)
  PROVE  ServiceInv'
<1>1. task[t].row # NoRow /\ sent[t] + billed[t] <= 1
  BY DEF ServiceInv, TaskInv
<1>2. PICK rec \in TaskRecord(Len(requests)) :
        /\ task' = [task EXCEPT ![t] = rec] /\ rec.row = task[t].row
        /\ rec.pc = "finishing" /\ rec.outcome # "released" /\ ~rec.retryable
  BY FailsLeaves DEF Refusals
<1>3. StepOf(t, rec, {})
  BY <1>1, <1>2 DEF StepOf, ServiceInv, ServiceTypeOK
<1>4. QED
  BY <1>1, <1>2, <1>3, LiveStep DEF Ended

LEMMA KeepsBreaks ==
  ASSUME ServiceInv, NEW t \in Tasks, NEW kind \in {"network", "timeout", "bad_response"},
         Breaks(t, kind)
  PROVE  ServiceInv'
<1> DEFINE failure == Failure(kind, kind = "timeout" /\ ~task[t].started)
<1>1. ~failure.before_generation \/ failure.kind = "timeout"
  BY DEF Failure
<1>2. Fails(t, failure, FALSE) /\ task[t].pc \in {"calling", "marking", "streaming"}
      /\ UNCHANGED <<sent, billed, marks, stopping>>
  BY DEF Breaks, At
<1>3. ReleasesOnly({}) /\ [Next]_vars /\ Len(requests') = Len(requests)
  BY NoWrite DEF Breaks, ServiceInv
<1> HIDE DEF failure
<1>4. QED
  BY <1>1, <1>2, <1>3, KeepsUnproved

LEMMA KeepsMarkFails == ASSUME ServiceInv, NEW t \in Tasks, MarkFails(t) PROVE ServiceInv'
<1> DEFINE failure == Failure("bad_response", FALSE)
<1>1. ~failure.before_generation
  BY DEF Failure
<1>2. Fails(t, failure, FALSE) /\ task[t].pc \in {"calling", "marking", "streaming"}
      /\ UNCHANGED <<sent, billed, marks, stopping>>
  BY DEF MarkFails, At
<1>3. ReleasesOnly({}) /\ [Next]_vars /\ Len(requests') = Len(requests)
  BY FailedWrite DEF MarkFails, ServiceInv
<1> HIDE DEF failure
<1>4. QED
  BY <1>1, <1>2, <1>3, KeepsUnproved

(* A live task goes from place to place, the provider's count unchanged.   *)
LEMMA LiveMove ==
  ASSUME ServiceInv, NEW t \in Tasks, task[t].pc \in {"prepared", "calling", "marking", "streaming", "settling"},
         NEW place \in {"streaming", "settling"} \cup Ended, Goto(t, place),
         UNCHANGED <<sent, billed, stopping>>, marks' \subseteq marks \cup {t},
         ReleasesOnly({}), [Next]_vars, Len(requests') = Len(requests)
  PROVE  ServiceInv'
<1>1. task[t].row # NoRow /\ sent[t] + billed[t] <= 1 /\ ~task[t].retryable
  BY DEF ServiceInv, TaskInv, Ended
<1>2. place \in Places
  BY DEF Places, Ended
<1>3. PICK rec \in TaskRecord(Len(requests)) :
        /\ task' = [task EXCEPT ![t] = rec] /\ rec.row = task[t].row /\ rec.pc = place
        /\ ~rec.retryable
  BY <1>1, <1>2, MovedTo
<1>4. StepOf(t, rec, {})
  BY <1>1, <1>3 DEF StepOf, ServiceInv, ServiceTypeOK
<1>5. QED
  BY <1>1, <1>3, <1>4, LiveStep DEF Ended

LEMMA KeepsMessageStart == ASSUME ServiceInv, NEW t \in Tasks, MessageStart(t) PROVE ServiceInv'
<1>1. task[t] \in TaskRecord(Len(requests)) /\ task[t].pc = "calling"
      /\ task[t].row # NoRow /\ ~task[t].retryable /\ sent[t] + billed[t] <= 1
  BY DEF MessageStart, At, ServiceInv, ServiceTypeOK, TaskInv, Ended
<1> DEFINE rec == [task[t] EXCEPT !.pc = "marking", !.started = TRUE]
<1>2. rec \in TaskRecord(Len(requests)) /\ rec.row = task[t].row /\ rec.pc = "marking"
      /\ rec.retryable = task[t].retryable
  BY <1>1 DEF TaskRecord, Places
<1>3. task' = [task EXCEPT ![t] = rec]
  BY DEF MessageStart, ServiceInv, ServiceTypeOK
<1> HIDE DEF rec
<1>4. ReleasesOnly({}) /\ [Next]_vars /\ Len(requests') = Len(requests)
  BY NoWrite DEF MessageStart, ServiceInv
<1>5. UNCHANGED <<sent, billed, marks, stopping>>
  BY DEF MessageStart
<1>6. StepOf(t, rec, {})
  BY <1>1, <1>2, <1>3, <1>4, <1>5 DEF StepOf, ServiceInv, ServiceTypeOK
<1>7. QED
  BY <1>1, <1>2, <1>5, <1>6, LiveStep DEF Ended

LEMMA KeepsMarked == ASSUME ServiceInv, NEW t \in Tasks, Marked(t) PROVE ServiceInv'
<1>1. task[t].pc = "marking" /\ Goto(t, "streaming") /\ UNCHANGED <<sent, billed, marks, stopping>>
      /\ Written(MarkUpstreamStarted(task[t].row), task[t].row)
  BY DEF Marked, At
<1>2. task[t].row \in 1..Len(requests)
  BY <1>1, RowInTable DEF ServiceInv, TaskInv
<1>3. ReleasesOnly({}) /\ [Next]_vars /\ Len(requests') = Len(requests)
  BY <1>1, <1>2, WrittenMark DEF ServiceInv
<1>4. QED
  BY <1>1, <1>3, LiveMove

LEMMA KeepsCompletes == ASSUME ServiceInv, NEW t \in Tasks, Completes(t) PROVE ServiceInv'
<1>1. task[t].pc = "streaming" /\ Goto(t, "settling") /\ UNCHANGED <<sent, billed, marks, stopping>>
  BY DEF Completes, At
<1>2. ReleasesOnly({}) /\ [Next]_vars /\ Len(requests') = Len(requests)
  BY NoWrite DEF Completes, ServiceInv
<1>3. QED
  BY <1>1, <1>2, LiveMove

LEMMA KeepsTimesOut == ASSUME ServiceInv, NEW t \in Tasks, TimesOut(t) PROVE ServiceInv'
<1>1. task[t] \in TaskRecord(Len(requests)) /\ task[t].pc \in {"calling", "marking", "streaming"}
      /\ task[t].row # NoRow /\ ~task[t].retryable /\ sent[t] + billed[t] <= 1
  BY DEF TimesOut, At, TimeoutCovers, ServiceInv, ServiceTypeOK, TaskInv, Ended
<1> DEFINE rec == [task[t] EXCEPT !.pc = "finishing", !.outcome = "timeout"]
<1>2. rec \in TaskRecord(Len(requests)) /\ rec.row = task[t].row /\ rec.pc = "finishing"
      /\ rec.retryable = task[t].retryable /\ rec.outcome # "released"
  BY <1>1 DEF TaskRecord, Places
<1>3. task' = [task EXCEPT ![t] = rec]
  BY DEF TimesOut, ServiceInv, ServiceTypeOK
<1> HIDE DEF rec
<1>4. ReleasesOnly({}) /\ [Next]_vars /\ Len(requests') = Len(requests)
  BY NoWrite DEF TimesOut, ServiceInv
<1>5. UNCHANGED <<sent, billed, stopping>> /\ marks' \subseteq marks \cup {t}
  BY DEF TimesOut, Outlived
<1>6. StepOf(t, rec, {})
  BY <1>1, <1>2, <1>3, <1>4, <1>5 DEF StepOf, ServiceInv, ServiceTypeOK
<1>7. QED
  BY <1>1, <1>2, <1>5, <1>6, LiveStep DEF Ended

LEMMA KeepsSettled ==
  ASSUME ServiceInv, NEW t \in Tasks, NEW amounts \in Actuals, Settled(t, amounts)
  PROVE  ServiceInv'
<1>1. task[t].pc = "settling" /\ Goto(t, "answered") /\ UNCHANGED <<sent, billed, marks, stopping>>
      /\ Written(Settle(task[t].row, amounts), task[t].row)
  BY DEF Settled, At
<1>2. task[t].row \in 1..Len(requests)
  BY <1>1, RowInTable DEF ServiceInv, TaskInv
<1>3. ReleasesOnly({}) /\ [Next]_vars /\ Len(requests') = Len(requests)
  BY <1>1, <1>2, WrittenSettle DEF ServiceInv
<1>4. QED
  BY <1>1, <1>3, LiveMove DEF Ended

LEMMA KeepsSettleFails == ASSUME ServiceInv, NEW t \in Tasks, SettleFails(t) PROVE ServiceInv'
<1>1. task[t].pc = "settling" /\ Goto(t, "stranded") /\ UNCHANGED <<sent, billed, marks, stopping>>
  BY DEF SettleFails, At
<1>2. ReleasesOnly({}) /\ [Next]_vars /\ Len(requests') = Len(requests)
  BY FailedWrite DEF SettleFails, ServiceInv
<1>3. QED
  BY <1>1, <1>2, LiveMove DEF Ended

LEMMA KeepsCancelled == ASSUME ServiceInv, NEW t \in Tasks, Cancelled(t) PROVE ServiceInv'
<1>1. task[t].pc \in {"prepared", "calling", "marking", "streaming"}
      /\ UNCHANGED <<sent, billed, stopping>> /\ marks' \subseteq marks \cup {t}
  BY DEF Cancelled, At, Outlived
<1>2. CASE Written(Finish(task[t].row, "aborted"), task[t].row) /\ Goto(t, "gone")
  <2>1. task[t].row \in 1..Len(requests)
    BY <1>1, RowInTable DEF ServiceInv, TaskInv
  <2>2. ReleasesOnly({}) /\ [Next]_vars /\ Len(requests') = Len(requests)
    BY <1>2, <2>1, WrittenFinish, "aborted" # "released" DEF ServiceInv
  <2>3. QED
    BY <1>1, <1>2, <2>2, LiveMove DEF Ended
<1>3. CASE WriteFails /\ Goto(t, "stranded")
  <2>1. ReleasesOnly({}) /\ [Next]_vars /\ Len(requests') = Len(requests)
    BY <1>3, FailedWrite DEF ServiceInv
  <2>2. QED
    BY <1>1, <1>3, <2>1, LiveMove DEF Ended
<1>4. QED
  BY <1>2, <1>3 DEF Cancelled

LEMMA KeepsNeverStarted == ASSUME ServiceInv, NEW t \in Tasks, NeverStarted(t) PROVE ServiceInv'
<1>1. task[t].pc = "prepared" /\ Goto(t, "stranded") /\ UNCHANGED <<sent, billed, marks, stopping>>
  BY DEF NeverStarted, At
<1>2. ReleasesOnly({}) /\ [Next]_vars /\ Len(requests') = Len(requests)
  BY NoWrite DEF NeverStarted, ServiceInv
<1>3. QED
  BY <1>1, <1>2, LiveMove DEF Ended

(* The one step that gives money back. *)
LEMMA KeepsFinished == ASSUME ServiceInv, NEW t \in Tasks, Finished(t) PROVE ServiceInv'
<1>1. task[t].pc = "finishing" /\ UNCHANGED <<sent, billed, marks, stopping>>
  BY DEF Finished, At
<1>2. task[t].row # NoRow /\ sent[t] + billed[t] <= 1
      /\ (task[t].retryable => sent[t] + billed[t] = 0)
      /\ (task[t].outcome = "released" => sent[t] + billed[t] = 0)
      /\ task[t].outcome \in {"released", "timeout", "aborted"}
  BY <1>1 DEF ServiceInv, ServiceTypeOK, TaskInv, TaskRecord
<1>3. CASE Written(Finish(task[t].row, task[t].outcome), task[t].row) /\ Goto(t, "answered")
  <2> DEFINE R == IF task[t].outcome = "released" THEN {task[t].row} ELSE {}
  <2>1. task[t].row \in 1..Len(requests)
    BY <1>2, RowInTable
  <2>2. ReleasesOnly(R) /\ [Next]_vars /\ Len(requests') = Len(requests)
    BY <1>2, <1>3, <2>1, WrittenFinish DEF ServiceInv
  <2>3. PICK rec \in TaskRecord(Len(requests)) :
          /\ task' = [task EXCEPT ![t] = rec] /\ rec.row = task[t].row /\ rec.pc = "answered"
          /\ rec.retryable = task[t].retryable
    BY <1>3, MovedTo DEF Places
  <2>4. StepOf(t, rec, R)
    BY <1>1, <1>2, <2>2, <2>3 DEF StepOf, ServiceInv, ServiceTypeOK
  <2>5. task'[t] = rec
    BY <2>3 DEF ServiceInv, ServiceTypeOK
  <2>6. RowOf(t)'.state = "released" => sent[t] + billed[t] = 0
    <3>1. CASE task[t].outcome = "released"
      BY <1>2, <3>1
    <3>2. CASE task[t].outcome # "released"
      <4>1. ReleasesOnly({})
        BY <2>2, <3>2
      <4>2. QED
        BY <1>1, <1>2, <2>3, <2>5, <4>1, LiveRow DEF Ended
    <3>3. QED
      BY <3>1, <3>2
  <2>7. TaskInv(t)'
    BY <1>1, <1>2, <2>3, <2>5, <2>6 DEF TaskInv, Ended
  <2> HIDE DEF R
  <2>8. QED
    BY <2>4, <2>7, OneTaskSteps
<1>4. CASE WriteFails /\ Goto(t, "stranded")
  <2>1. ReleasesOnly({}) /\ [Next]_vars /\ Len(requests') = Len(requests)
    BY <1>4, FailedWrite DEF ServiceInv
  <2>2. PICK rec \in TaskRecord(Len(requests)) :
          /\ task' = [task EXCEPT ![t] = rec] /\ rec.row = task[t].row /\ rec.pc = "stranded"
          /\ rec.retryable = task[t].retryable
    BY <1>4, MovedTo DEF Places
  <2>3. StepOf(t, rec, {})
    BY <1>1, <1>2, <2>1, <2>2 DEF StepOf, ServiceInv, ServiceTypeOK
  <2>4. QED
    BY <1>1, <1>2, <2>2, <2>3, LiveStep DEF Ended
<1>5. QED
  BY <1>3, <1>4 DEF Finished

-----------------------------------------------------------------------------
(* Steps that open a row, and steps that leave every coroutine where it is. *)
LEMMA Admitted ==
  ASSUME ServiceInv, NEW t \in Tasks, NEW inp \in Inputs, task[t].pc = "new", Reserve(inp),
         NEW place \in {"prepared", "stranded"},
         task' = [task EXCEPT ![t].pc = place, ![t].row = Len(requests) + 1],
         UNCHANGED <<sent, billed, marks, stopping>>
  PROVE  ServiceInv'
<1>1. /\ ReleasesOnly({}) /\ [Next]_vars /\ Len(requests') = Len(requests) + 1
      /\ requests'[Len(requests) + 1].state = "reserved" /\ Len(requests) \in Nat
  BY ReserveReleases DEF ServiceInv, TypeOK
<1>2. TypeOK'
  BY <1>1, NextTypeOK DEF ServiceInv
<1> DEFINE rec == OpenRecord(task[t], place, Len(requests) + 1)
<1>3. task[t] \in TaskRecord(Len(requests)) /\ task[t].row = NoRow /\ ~task[t].retryable
      /\ sent[t] + billed[t] = 0
  BY DEF ServiceInv, ServiceTypeOK, TaskInv, Ended
<1>4. rec \in TaskRecord(Len(requests')) /\ rec.pc = place /\ rec.row = Len(requests) + 1
      /\ ~rec.retryable /\ rec.attempt = task[t].attempt
  <2> DEFINE n == Len(requests')
             m == Len(requests)
             k == Len(requests) + 1
             opened == OpenRecord(task[t], place, k)
  <2>1. n \in Nat /\ m \in Nat /\ k \in 0..n /\ place \in Places /\ task[t] \in TaskRecord(m)
    BY <1>1, <1>3 DEF Places
  <2> HIDE DEF n, m, k
  <2>2. /\ opened \in TaskRecord(n) /\ opened.pc = place /\ opened.row = k
        /\ opened.retryable = task[t].retryable /\ opened.attempt = task[t].attempt
    BY <2>1, Opened
  <2>3. QED
    BY <1>3, <2>2 DEF n, k
<1>5. task' = [task EXCEPT ![t] = rec]
  BY DEF OpenRecord, ServiceInv, ServiceTypeOK
<1> HIDE DEF rec
<1>6. \A u \in Tasks : task[u] \in TaskRecord(Len(requests')) /\ task[u].row \in 0..Len(requests)
  BY <1>1 DEF ServiceInv, ServiceTypeOK, TaskRecord
<1>7. task'[t] = rec /\ \A u \in Tasks \ {t} : task'[u] = task[u]
  BY <1>5 DEF ServiceInv, ServiceTypeOK
<1>8. task' \in [Tasks -> TaskRecord(Len(requests'))]
  BY <1>4, <1>5, <1>6 DEF ServiceInv, ServiceTypeOK
<1>9. \A u, w \in Tasks : u # w /\ task'[u].row = task'[w].row => task'[u].row = NoRow
  BY <1>1, <1>4, <1>6, <1>7 DEF ServiceInv, ServiceTypeOK
<1>10. ServiceTypeOK'
  BY <1>8, <1>9 DEF ServiceInv, ServiceTypeOK
<1>11. ASSUME NEW u \in Tasks \ {t} PROVE TaskInv(u)'
  <2>1. TypeOK /\ ServiceTypeOK /\ TaskInv(u)
    BY DEF ServiceInv
  <2>2. QED
    BY <1>1, <1>7, <2>1, OthersStay
<1>12. task[t].attempt <= 1
  BY DEF ServiceInv, TaskInv
<1>13. TaskInv(t)'
  BY <1>1, <1>3, <1>4, <1>7, <1>12 DEF TaskInv, RowOf, NoRow, Ended
<1>14. QED
  BY <1>2, <1>10, <1>11, <1>13 DEF ServiceInv

LEMMA AllStay ==
  ASSUME ServiceInv, task' = task, marks' \subseteq marks, stopping' \in BOOLEAN,
         sent' \in [Tasks -> 0..2], billed' \in [Tasks -> 0..2],
         \A t \in Tasks : sent'[t] + billed'[t] = sent[t] + billed[t],
         ReleasesOnly({}), [Next]_vars
  PROVE  ServiceInv'
<1>1. TypeOK'
  BY NextTypeOK DEF ServiceInv
<1>2. \A t \in Tasks : task[t] \in TaskRecord(Len(requests'))
  BY DEF ServiceInv, ServiceTypeOK, TaskRecord, ReleasesOnly, TypeOK
<1>3. ServiceTypeOK'
  BY <1>2 DEF ServiceInv, ServiceTypeOK
<1>4. ASSUME NEW t \in Tasks PROVE TaskInv(t)'
  <2>1. TypeOK /\ ServiceTypeOK /\ TaskInv(t)
    BY DEF ServiceInv
  <2>2. QED
    BY <2>1, OthersStay
<1>5. QED
  BY <1>1, <1>3, <1>4 DEF ServiceInv

LEMMA KeepsLateMark == ASSUME ServiceInv, NEW t \in Tasks, LateMark(t) PROVE ServiceInv'
<1>1. task' = task /\ UNCHANGED <<sent, billed, stopping>> /\ marks' \subseteq marks /\ t \in marks
  BY DEF LateMark
<1>2. task[t].row \in 1..Len(requests)
  BY <1>1, RowInTable DEF ServiceInv, TaskInv
<1>3. ReleasesOnly({}) /\ [Next]_vars
  BY <1>2, WrittenMark, FailedWrite DEF LateMark, ServiceInv
<1>4. QED
  BY <1>1, <1>3, AllStay DEF ServiceInv, ServiceTypeOK

LEMMA KeepsGenerates == ASSUME ServiceInv, NEW t \in Tasks, Generates(t) PROVE ServiceInv'
<1>1. sent[t] \in 0..2 /\ billed[t] \in 0..2 /\ sent[t] + billed[t] <= 1 /\ sent[t] > 0
  BY DEF Generates, ServiceInv, ServiceTypeOK, TaskInv
<1>2. sent' \in [Tasks -> 0..2] /\ billed' \in [Tasks -> 0..2]
      /\ \A u \in Tasks : sent'[u] + billed'[u] = sent[u] + billed[u]
  BY <1>1 DEF Generates, ServiceInv, ServiceTypeOK
<1>3. ReleasesOnly({}) /\ [Next]_vars
  BY NoWrite DEF Generates, ServiceInv
<1>4. QED
  BY <1>2, <1>3, AllStay DEF Generates, ServiceInv, ServiceTypeOK

LEMMA KeepsRestart == ASSUME ServiceInv, Restart PROVE ServiceInv'
<1>1. ReleasesOnly({}) /\ [Next]_vars
  BY BootReleases DEF Restart, ServiceInv, Next
<1>2. QED
  BY <1>1, AllStay DEF Restart, service, ServiceInv, ServiceTypeOK

LEMMA KeepsStop == ASSUME ServiceInv, Stop \/ UNCHANGED allVars PROVE ServiceInv'
<1>1. UNCHANGED vars /\ UNCHANGED <<task, sent, billed, marks>> /\ stopping' \in BOOLEAN
  BY DEF Stop, allVars, service, ServiceInv, ServiceTypeOK
<1>2. ReleasesOnly({}) /\ [Next]_vars
  BY <1>1, NoWrite DEF ServiceInv
<1>3. QED
  BY <1>1, <1>2, AllStay DEF ServiceInv, ServiceTypeOK

LEMMA KeepsProcessDies == ASSUME ServiceInv, ProcessDies PROVE ServiceInv'
<1>1. ReleasesOnly({}) /\ [Next]_vars /\ UNCHANGED requests
  BY StillReleases DEF ProcessDies, Crash, ServiceInv, Next
<1>2. TypeOK'
  BY <1>1, NextTypeOK DEF ServiceInv
<1> DEFINE Over(t) == [task[t] EXCEPT !.pc = "gone"]
<1>3. ASSUME NEW t \in Tasks
      PROVE  /\ task[t] \in TaskRecord(Len(requests))
             /\ Over(t) \in TaskRecord(Len(requests)) /\ Over(t).pc = "gone"
             /\ Over(t).row = task[t].row /\ Over(t).retryable = task[t].retryable
  <2>1. task[t] \in TaskRecord(Len(requests))
    BY DEF ServiceInv, ServiceTypeOK
  <2>2. QED
    BY <2>1 DEF TaskRecord, Places
<1>4. \A t \in Tasks : task'[t] = IF task[t].pc \in {"new", "answered", "stranded"}
                                  THEN task[t] ELSE Over(t)
  BY DEF ProcessDies
<1>5. task' \in [Tasks -> TaskRecord(Len(requests))]
  BY <1>3 DEF ProcessDies
<1> HIDE DEF Over
<1>6. \A t \in Tasks : task'[t].row = task[t].row
  BY <1>3, <1>4
<1>7. UNCHANGED <<sent, billed>> /\ marks' = {} /\ stopping' = FALSE
  BY DEF ProcessDies
<1>8. ServiceTypeOK'
  BY <1>1, <1>5, <1>6, <1>7 DEF ServiceInv, ServiceTypeOK
<1>9. ASSUME NEW t \in Tasks PROVE TaskInv(t)'
  <2>1. TaskInv(t)
    BY DEF ServiceInv
  <2>2. RowOf(t)' = RowOf(t)
    BY <1>1, <1>6 DEF RowOf
  <2>3. CASE task[t].pc \in {"new", "answered", "stranded"}
    BY <1>4, <1>7, <2>1, <2>2, <2>3 DEF TaskInv
  <2>4. CASE task[t].pc \notin {"new", "answered", "stranded"}
    BY <1>3, <1>4, <1>7, <2>1, <2>2, <2>4 DEF TaskInv, Ended
  <2>5. QED
    BY <2>3, <2>4
<1>10. QED
  BY <1>2, <1>8, <1>9 DEF ServiceInv

-----------------------------------------------------------------------------
(* The clock, the latch and its reset touch no row and no coroutine.       *)
Around ==
  \/ \E now \in Times : ClockSteps(now)
  \/ \E inp \in Inputs, now \in Times : CeilingRefuses(inp, now)
  \/ \E lane \in Lanes : BrakeResets(lane)

LEMMA AroundKeepsRows == ASSUME Around PROVE UNCHANGED <<requests, mode, service>>
BY DEF Around, ClockSteps, CeilingRefuses, BrakeResets, SetClock, TripBrake, ResetBrake, stored

LEMMA AroundStepsLedger == ASSUME Around PROVE Next
BY DEF Around, ClockSteps, CeilingRefuses, BrakeResets, Next

LEMMA KeepsAround == ASSUME ServiceInv, Around PROVE ServiceInv'
<1>1. UNCHANGED <<requests, task, sent, billed, marks, stopping>>
  BY AroundKeepsRows DEF service
<1>2. TypeOK'
  BY AroundStepsLedger, NextTypeOK DEF ServiceInv
<1>3. ServiceTypeOK'
  BY <1>1 DEF ServiceInv, ServiceTypeOK
<1>4. \A t \in Tasks : TaskInv(t)'
  BY <1>1 DEF ServiceInv, TaskInv, RowOf
<1>5. QED
  BY <1>2, <1>3, <1>4 DEF ServiceInv

-----------------------------------------------------------------------------
LEMMA InitServiceInv == ServiceInit => ServiceInv
<1> SUFFICES ASSUME ServiceInit PROVE ServiceInv
  OBVIOUS
<1>1. TypeOK
  BY InitTypeOK DEF ServiceInit
<1>2. Fresh \in TaskRecord(Len(requests)) /\ requests = <<>>
  BY DEF Fresh, TaskRecord, Places, NoRow, ServiceInit, Init
<1>3. ServiceTypeOK
  <2>1. task \in [Tasks -> TaskRecord(Len(requests))]
    BY <1>2 DEF ServiceInit
  <2>2. \A t \in Tasks : task[t].row = NoRow
    BY DEF ServiceInit, Fresh
  <2>3. sent \in [Tasks -> 0..2] /\ billed \in [Tasks -> 0..2]
        /\ marks \subseteq Tasks /\ stopping \in BOOLEAN
    <3>1. /\ sent = [t \in Tasks |-> 0] /\ billed = [t \in Tasks |-> 0]
          /\ marks = {} /\ stopping = FALSE
      BY DEF ServiceInit
    <3>2. [t \in Tasks |-> 0] \in [Tasks -> 0..2]
      OBVIOUS
    <3>3. {} \subseteq Tasks
      OBVIOUS
    <3>4. QED
      BY <3>1, <3>2, <3>3
  <2>4. QED
    BY <2>1, <2>2, <2>3 DEF ServiceTypeOK
<1>4. \A t \in Tasks : TaskInv(t)
  BY <1>2 DEF ServiceInit, TaskInv, Fresh, NoRow
<1>5. QED
  BY <1>1, <1>3, <1>4 DEF ServiceInv

LEMMA NextServiceInv == ServiceInv /\ [ServiceNext]_allVars => ServiceInv'
<1> SUFFICES ASSUME ServiceInv, [ServiceNext]_allVars PROVE ServiceInv'
  OBVIOUS
<1>1. ASSUME NEW t \in Tasks, NEW inp \in Inputs, Admit(t, inp) \/ AdmitAbandoned(t, inp)
      PROVE  ServiceInv'
  BY <1>1, Admitted DEF Admit, AdmitAbandoned, At
<1>2. QED
  BY <1>1, KeepsSend, KeepsRefused, KeepsBreaks, KeepsMessageStart, KeepsMarked, KeepsMarkFails,
     KeepsCompletes, KeepsTimesOut, KeepsFinished, KeepsSettleFails, KeepsLateMark, KeepsSettled,
     KeepsStop, KeepsCancelled, KeepsNeverStarted, KeepsProcessDies, KeepsRestart, KeepsGenerates, KeepsAround
     DEF ServiceNext, Around

LEMMA ServiceAlwaysInv == ServiceSpec => []ServiceInv
<1>1. QED
  BY InitServiceInv, NextServiceInv, PTL DEF ServiceSpec

(* The tasks and the provider's counts always have their types, and no two *)
(* tasks ever own one row.                                                 *)
THEOREM ServiceTypeCorrect == ServiceSpec => []ServiceTypeOK
<1>1. ServiceInv => ServiceTypeOK
  BY DEF ServiceInv
<1>2. QED
  BY <1>1, ServiceAlwaysInv, PTL

(* A row the gateway gave back was not and will not be generated for.      *)
THEOREM FreeIsUngenerated == ServiceSpec => []FreeMeansUngenerated
<1>1. ServiceInv => FreeMeansUngenerated
  BY DEF ServiceInv, FreeMeansUngenerated, TaskInv, ServiceTypeOK
<1>2. QED
  BY <1>1, ServiceAlwaysInv, PTL

(* At most one generation is ever bought under one reservation. *)
THEOREM OneGeneration == ServiceSpec => []OneGenerationPerRow
<1>1. ServiceInv => OneGenerationPerRow
  BY DEF ServiceInv, OneGenerationPerRow, TaskInv
<1>2. QED
  BY <1>1, ServiceAlwaysInv, PTL

(* An answer that invites a retry follows no spend. *)
THEOREM RetriesAreFree == ServiceSpec => []RetryNeverDoublesSpend
<1>1. ServiceInv => RetryNeverDoublesSpend
  BY DEF ServiceInv, RetryNeverDoublesSpend, TaskInv
<1>2. QED
  BY <1>1, ServiceAlwaysInv, PTL

-----------------------------------------------------------------------------
(* The service implements the ledger: whatever the coroutines, the worker  *)
(* threads and the provider do, the database sees the ledger's own steps   *)
(* or nothing.                                                             *)

LEMMA TaskStepsLedger ==
  ASSUME ServiceInv, NEW t \in Tasks, task[t].row # NoRow,
         \/ Marked(t) \/ LateMark(t) \/ Finished(t) \/ Cancelled(t)
         \/ \E amounts \in Actuals : Settled(t, amounts)
  PROVE  [Next]_vars
<1>1. TypeOK /\ task[t].row \in 1..Len(requests)
  BY RowInTable DEF ServiceInv
<1>2. task[t].outcome \in {"released", "timeout", "aborted"}
  BY DEF ServiceInv, ServiceTypeOK, TaskRecord
<1>3. ASSUME WriteFails PROVE [Next]_vars
  BY <1>1, <1>3, FailedWrite
<1>4. ASSUME Written(MarkUpstreamStarted(task[t].row), task[t].row) PROVE [Next]_vars
  BY <1>1, <1>4, WrittenMark
<1>5. ASSUME NEW outcome \in {"released", "timeout", "aborted"},
             Written(Finish(task[t].row, outcome), task[t].row)
      PROVE  [Next]_vars
  BY <1>1, <1>5, WrittenFinish
<1>6. CASE Marked(t) \/ LateMark(t)
  BY <1>3, <1>4, <1>6 DEF Marked, LateMark
<1>7. CASE Finished(t) \/ Cancelled(t)
  BY <1>2, <1>3, <1>5, <1>7 DEF Finished, Cancelled
<1>8. ASSUME NEW amounts \in Actuals, Settled(t, amounts) PROVE [Next]_vars
  BY <1>1, <1>8, WrittenSettle DEF Settled
<1>9. QED
  BY <1>6, <1>7, <1>8

LEMMA ServiceStepsLedger == ServiceInv /\ [ServiceNext]_allVars => [Next]_vars
<1> SUFFICES ASSUME ServiceInv, [ServiceNext]_allVars PROVE [Next]_vars
  OBVIOUS
<1>1. ASSUME NEW t \in Tasks, NEW inp \in Inputs, Admit(t, inp) \/ AdmitAbandoned(t, inp)
      PROVE  [Next]_vars
  BY <1>1 DEF Admit, AdmitAbandoned, Next
<1>2. ASSUME NEW t \in Tasks,
             \/ Marked(t) \/ LateMark(t) \/ Finished(t) \/ Cancelled(t)
             \/ \E amounts \in Actuals : Settled(t, amounts)
      PROVE  [Next]_vars
  <2>1. task[t].row # NoRow
    BY <1>2 DEF Marked, LateMark, Finished, Cancelled, Settled, At, ServiceInv, TaskInv
  <2>2. QED
    BY <1>2, <2>1, TaskStepsLedger
<1>3. ASSUME NEW t \in Tasks, MarkFails(t) \/ SettleFails(t) PROVE [Next]_vars
  BY <1>3 DEF MarkFails, SettleFails, Next
<1>4. ASSUME NEW t \in Tasks,
             \/ Send(t) \/ MessageStart(t) \/ Completes(t) \/ TimesOut(t) \/ NeverStarted(t)
             \/ Generates(t)
             \/ \E kind \in Refusals, soon \in BOOLEAN : Refused(t, kind, soon)
             \/ \E kind \in {"network", "timeout", "bad_response"} : Breaks(t, kind)
      PROVE  UNCHANGED vars
  BY <1>4 DEF Send, MessageStart, Completes, TimesOut, NeverStarted, Generates, Refused, Breaks
<1>5. CASE Stop \/ UNCHANGED allVars
  BY <1>5 DEF Stop, allVars
<1>6. CASE ProcessDies \/ Restart
  BY <1>6 DEF ProcessDies, Restart, Next
<1>7. CASE Around
  BY <1>7, AroundStepsLedger
<1>8. QED
  BY <1>1, <1>2, <1>3, <1>4, <1>5, <1>6, <1>7 DEF ServiceNext, Around

(* Every behaviour of the service is a behaviour of the ledger: none of    *)
(* its steps reaches the tables but through a method of the ledger.        *)
THEOREM ServiceImplementsLedger == ServiceSpec => Spec
<1>1. ServiceInit => Init
  BY DEF ServiceInit
<1>2. QED
  BY <1>1, ServiceStepsLedger, ServiceAlwaysInv, PTL DEF ServiceSpec, Spec

(* So every promise of the ledger is one of the running service, under any *)
(* clock and with the lane latched and reset at any time: the caps hold,   *)
(* the counters are the sums of the rows, closed rows are final, started   *)
(* generations are never free, spent periods stay closed, a job keeps its  *)
(* cap, and a latched lane stops.                                          *)
THEOREM ServiceKeepsLedgerPromises ==
  ServiceSpec =>
    /\ []CapsHold /\ []TotalsMatchRows /\ []NoFreeGeneration
    /\ []PeriodsNeverReopen /\ []GateAgrees /\ []PinIsStable
    /\ TerminalRowsFinal /\ NoOrphanAtListen /\ LatchStopsLane
BY ServiceImplementsLedger, CapsAlwaysHold, TotalsAlwaysMatchRows, NothingStartedIsFree,
   SpentPeriodsStayClosed, GateAlwaysAgrees, JobCapsNeverDrift, ClosedRowsAreFinal,
   ListenerFindsNoOrphan, LatchedLanesStop, PTL

(* And every account with a fixed cap, seen through the rows the service   *)
(* left in the database, is an abstract budget: one admission at a time,   *)
(* closed once, recovered by a restart at what it held.                    *)
THEOREM ServiceKeepsBudgets == ServiceSpec => EveryAccountIsABudget
BY ServiceImplementsLedger, LedgerImplementsBudgets, PTL

(* The books of the running service: its jobs are budgets under the one    *)
(* cap their first request pinned, its counters stay natural, its spend is *)
(* never taken back, its boots find no mismatch and strand nothing.        *)
THEOREM ServiceKeepsTheBooks ==
  ServiceSpec =>
    /\ EveryJobIsABudget /\ PinsStay /\ []PinsComeFromRows
    /\ []CountersStayNatural /\ SpendOnlyGrows
    /\ RecomputeFindsNothing /\ RestartChargesWhatWasHeld
BY ServiceImplementsLedger, JobsAreBudgets, PinsAreForever, RefusalsPinNothing,
   NoCounterGoesNegative, SpendIsNeverTakenBack, NoBootIsBlocked, RestartsStrandNothing, PTL

-----------------------------------------------------------------------------
(* Whose an open row is.  A coroutine that still runs finds its row open,  *)
(* so nobody closes it behind its back; one that has answered has closed   *)
(* it itself, and says "retry" only of a row it has given back.            *)
Live == {"prepared", "calling", "marking", "streaming", "finishing", "settling"}

OwnerInv(t) ==
  /\ task[t].pc \in Live => mode = "ready" /\ RowOf(t).state = "reserved"
  /\ task[t].pc = "answered" =>
       /\ RowOf(t).state \in {"settled", "released", "timeout", "aborted"}
       /\ task[t].retryable => RowOf(t).state = "released"
  /\ mode = "ready" /\ task[t].pc = "gone" => RowOf(t).state # "reserved"
  /\ task[t].row # NoRow /\ RowOf(t).upstream_started => task[t].started
  /\ task[t].pc = "marking" \/ t \in marks => task[t].started
  /\ task[t].retryable /\ task[t].pc = "finishing" =>
       task[t].outcome = "released" /\ ~task[t].started

OwnersInv ==
  /\ ServiceInv
  /\ \A t \in Tasks : OwnerInv(t)
  /\ \A i \in 1..Len(requests) : \E t \in Tasks : task[t].row = i

(* A row keeps whether its generation was seen to start, unless it is the  *)
(* task's own, and its state.                                              *)
LEMMA OwnerStays ==
  ASSUME ServiceInv, NEW t \in Tasks, OwnerInv(t), task'[t] = task[t],
         task[t].row # NoRow => requests'[task[t].row] = requests[task[t].row],
         t \in marks' => t \in marks, mode' = mode
  PROVE  OwnerInv(t)'
<1>1. task[t].row # NoRow => RowOf(t)' = RowOf(t)
  BY DEF RowOf
<1>2. task[t].row = NoRow => task[t].pc = "new"
  BY DEF ServiceInv, TaskInv
<1>3. QED
  BY <1>1, <1>2 DEF OwnerInv, Live

(* What a step of one task may touch: its own row, its own record, its own *)
(* outstanding mark.                                                       *)
OwnStep(t) ==
  /\ mode' = mode /\ Len(requests') = Len(requests)
  /\ \A i \in 1..Len(requests) : i # task[t].row => requests'[i] = requests[i]
  /\ \A u \in Tasks \ {t} : task'[u] = task[u]
  /\ marks' \subseteq marks \cup {t}
  /\ task'[t].row = task[t].row

LEMMA OwnStepKeeps ==
  ASSUME OwnersInv, ServiceInv', NEW t \in Tasks, OwnStep(t), OwnerInv(t)'
  PROVE  OwnersInv'
<1>1. ASSUME NEW u \in Tasks \ {t} PROVE OwnerInv(u)'
  <2>1. ServiceInv /\ OwnerInv(u) /\ task'[u] = task[u] /\ mode' = mode
        /\ (u \in marks' => u \in marks)
    BY DEF OwnersInv, OwnStep
  <2>2. task[u].row # NoRow => task[u].row # task[t].row
    BY DEF OwnersInv, ServiceInv, ServiceTypeOK
  <2>3. task[u].row # NoRow => task[u].row \in 1..Len(requests)
    BY <2>1, RowInTable
  <2>4. task[u].row # NoRow => requests'[task[u].row] = requests[task[u].row]
    BY <2>2, <2>3 DEF OwnStep
  <2>5. QED
    BY <2>1, <2>4, OwnerStays
<1>2. \A u \in Tasks : task'[u].row = task[u].row
  BY DEF OwnStep
<1>3. \A i \in 1..Len(requests') : \E u \in Tasks : task'[u].row = i
  BY <1>2 DEF OwnersInv, OwnStep
<1>4. QED
  BY <1>1, <1>3 DEF OwnersInv

(* A step that leaves the ledger alone, or that only fails to write. *)
LEMMA UnwrittenKeeps ==
  ASSUME OwnersInv, ServiceInv', NEW t \in Tasks, task[t].pc \in Live,
         UNCHANGED <<requests, mode>>, marks' \subseteq marks \cup {t},
         NEW rec, task' = [task EXCEPT ![t] = rec],
         rec.row = task[t].row, rec.pc \in Live \cup {"stranded"},
         task[t].started => rec.started,
         rec.pc = "marking" \/ t \in marks' => rec.started,
         rec.retryable /\ rec.pc = "finishing" => rec.outcome = "released" /\ ~rec.started
  PROVE  OwnersInv'
<1>1. task'[t] = rec /\ \A u \in Tasks \ {t} : task'[u] = task[u]
  BY DEF OwnersInv, ServiceInv, ServiceTypeOK
<1>2. OwnStep(t)
  BY <1>1 DEF OwnStep
<1>3. OwnerInv(t) /\ task[t].row # NoRow
  BY DEF OwnersInv, ServiceInv, TaskInv, Live
<1>4. RowOf(t)' = RowOf(t)
  BY <1>1 DEF RowOf
<1>5. OwnerInv(t)'
  BY <1>1, <1>3, <1>4 DEF OwnerInv, Live
<1>6. QED
  BY <1>2, <1>5, OwnStepKeeps

(* Where a failure leaves a coroutine: an outcome that invites a retry was *)
(* reached before the generation was seen to start.                        *)
LEMMA FailsOwner ==
  ASSUME OwnersInv, ServiceInv', NEW t \in Tasks, task[t].pc \in {"calling", "marking", "streaming"},
         NEW failure, NEW soon, Fails(t, failure, soon),
         UNCHANGED <<requests, mode, marks>>
  PROVE  OwnersInv'
<1>1. task[t] \in TaskRecord(Len(requests)) /\ task[t].pc \in Live /\ ~task[t].retryable
  BY DEF OwnersInv, ServiceInv, ServiceTypeOK, TaskInv, Ended, Live
<1>2. t \in marks => task[t].started
  BY DEF OwnersInv, OwnerInv
<1>3. CASE Goto(t, "prepared")
  <2> DEFINE rec == [task[t] EXCEPT !.pc = "prepared"]
  <2>1. task' = [task EXCEPT ![t] = rec]
    BY <1>3 DEF Goto, OwnersInv, ServiceInv, ServiceTypeOK
  <2>2. rec.pc = "prepared" /\ rec.row = task[t].row /\ rec.started = task[t].started
        /\ rec.retryable = task[t].retryable
    BY <1>1 DEF TaskRecord
  <2> HIDE DEF rec
  <2>3. QED
    BY <1>1, <1>2, <2>1, <2>2, UnwrittenKeeps DEF Live
<1> DEFINE outcome == OutcomeOf(failure, task[t].started)
           again == outcome = "released" /\ failure.kind \in RetryableReleasedKinds
<1>4. CASE task' = [task EXCEPT ![t].pc = "finishing", ![t].outcome = outcome, ![t].retryable = again]
  <2> DEFINE rec == [task[t] EXCEPT !.pc = "finishing", !.outcome = outcome, !.retryable = again]
  <2>1. task' = [task EXCEPT ![t] = rec]
    BY <1>4 DEF OwnersInv, ServiceInv, ServiceTypeOK
  <2>2. outcome = "released" => ~task[t].started
    BY DEF OutcomeOf
  <2> HIDE DEF outcome
  <2>3. /\ rec.pc = "finishing" /\ rec.row = task[t].row /\ rec.started = task[t].started
        /\ rec.outcome = outcome /\ rec.retryable = again
    BY <1>1 DEF TaskRecord
  <2> HIDE DEF rec
  <2>4. QED
    BY <1>1, <1>2, <2>1, <2>2, <2>3, UnwrittenKeeps DEF Live
<1>5. QED
  BY <1>3, <1>4 DEF Fails

LEMMA OwnedSend == ASSUME OwnersInv, ServiceInv', NEW t \in Tasks, Send(t) PROVE OwnersInv'
<1>1. task[t] \in TaskRecord(Len(requests)) /\ task[t].pc = "prepared" /\ ~task[t].retryable
      /\ (t \in marks => task[t].started)
  BY DEF Send, At, OwnersInv, OwnerInv, ServiceInv, ServiceTypeOK, TaskInv, Ended
<1> DEFINE rec == CallRecord(task[t], task[t].attempt + 1)
<1>2. rec.row = task[t].row /\ rec.pc = "calling" /\ rec.started = task[t].started
      /\ rec.retryable = task[t].retryable
  BY <1>1 DEF CallRecord, TaskRecord
<1>3. task' = [task EXCEPT ![t] = rec]
  BY DEF Send, CallRecord, OwnersInv, ServiceInv, ServiceTypeOK
<1> HIDE DEF rec
<1>4. UNCHANGED <<requests, mode, marks>>
  BY DEF Send, vars
<1>5. QED
  BY <1>1, <1>2, <1>3, <1>4, UnwrittenKeeps DEF Live

LEMMA OwnedFailure ==
  ASSUME OwnersInv, ServiceInv', NEW t \in Tasks,
         \/ \E kind \in Refusals, soon \in BOOLEAN : Refused(t, kind, soon)
         \/ \E kind \in {"network", "timeout", "bad_response"} : Breaks(t, kind)
         \/ MarkFails(t)
  PROVE  OwnersInv'
<1>1. task[t].pc \in {"calling", "marking", "streaming"} /\ UNCHANGED marks
  BY DEF Refused, Breaks, MarkFails, At
<1>2. UNCHANGED <<requests, mode>>
  BY DEF Refused, Breaks, MarkFails, WriteFails, stored, vars
<1>3. \E failure, soon : Fails(t, failure, soon)
  BY DEF Refused, Breaks, MarkFails
<1>4. QED
  BY <1>1, <1>2, <1>3, FailsOwner

(* A step that only moves the coroutine, with nothing written. *)
LEMMA OwnedMove ==
  ASSUME OwnersInv, ServiceInv', NEW t \in Tasks, task[t].pc \in Live,
         NEW place \in {"streaming", "settling", "stranded"}, Goto(t, place),
         UNCHANGED <<requests, mode>>, marks' \subseteq Outlived(t)
  PROVE  OwnersInv'
<1>1. task[t] \in TaskRecord(Len(requests)) /\ marks' \subseteq marks \cup {t}
      /\ (t \in marks' => task[t].started)
  BY DEF OwnersInv, OwnerInv, ServiceInv, ServiceTypeOK, Outlived
<1> DEFINE rec == [task[t] EXCEPT !.pc = place]
<1>2. rec.row = task[t].row /\ rec.pc = place /\ rec.started = task[t].started
  BY <1>1 DEF TaskRecord
<1>3. task' = [task EXCEPT ![t] = rec]
  BY DEF Goto, OwnersInv, ServiceInv, ServiceTypeOK
<1> HIDE DEF rec
<1>4. QED
  BY <1>1, <1>2, <1>3, UnwrittenKeeps DEF Live

LEMMA OwnedMoves ==
  ASSUME OwnersInv, ServiceInv', NEW t \in Tasks,
         \/ Completes(t) \/ SettleFails(t) \/ NeverStarted(t)
         \/ Finished(t) /\ WriteFails /\ Goto(t, "stranded")
         \/ Cancelled(t) /\ WriteFails /\ Goto(t, "stranded")
  PROVE  OwnersInv'
<1>1. task[t].pc \in Live
  BY DEF Completes, SettleFails, NeverStarted, Finished, Cancelled, At, Live
<1>2. UNCHANGED <<requests, mode>>
  BY DEF Completes, SettleFails, NeverStarted, WriteFails, stored, vars
<1>3. \E place \in {"streaming", "settling", "stranded"} : Goto(t, place)
  BY DEF Completes, SettleFails, NeverStarted
<1>4. marks' \subseteq Outlived(t)
  BY DEF Completes, SettleFails, NeverStarted, Finished, Cancelled, Outlived
<1>5. QED
  BY <1>1, <1>2, <1>3, <1>4, OwnedMove

LEMMA OwnedMessageStart ==
  ASSUME OwnersInv, ServiceInv', NEW t \in Tasks, MessageStart(t)
  PROVE  OwnersInv'
<1>1. task[t] \in TaskRecord(Len(requests)) /\ task[t].pc = "calling" /\ ~task[t].retryable
  BY DEF MessageStart, At, OwnersInv, ServiceInv, ServiceTypeOK, TaskInv, Ended
<1> DEFINE rec == [task[t] EXCEPT !.pc = "marking", !.started = TRUE]
<1>2. rec.row = task[t].row /\ rec.pc = "marking" /\ rec.started
  BY <1>1 DEF TaskRecord
<1>3. task' = [task EXCEPT ![t] = rec]
  BY DEF MessageStart, OwnersInv, ServiceInv, ServiceTypeOK
<1> HIDE DEF rec
<1>4. UNCHANGED <<requests, mode, marks>>
  BY DEF MessageStart, vars
<1>5. QED
  BY <1>1, <1>2, <1>3, <1>4, UnwrittenKeeps DEF Live

LEMMA OwnedTimesOut ==
  ASSUME OwnersInv, ServiceInv', NEW t \in Tasks, TimesOut(t)
  PROVE  OwnersInv'
<1>1. task[t] \in TaskRecord(Len(requests)) /\ task[t].pc \in {"calling", "marking", "streaming"}
      /\ ~task[t].retryable
  BY DEF TimesOut, At, TimeoutCovers, OwnersInv, ServiceInv, ServiceTypeOK, TaskInv, Ended
<1> DEFINE rec == [task[t] EXCEPT !.pc = "finishing", !.outcome = "timeout"]
<1>2. rec.row = task[t].row /\ rec.pc = "finishing" /\ rec.started = task[t].started
      /\ ~rec.retryable
  BY <1>1 DEF TaskRecord
<1>3. task' = [task EXCEPT ![t] = rec]
  BY DEF TimesOut, OwnersInv, ServiceInv, ServiceTypeOK
<1> HIDE DEF rec
<1>4. UNCHANGED <<requests, mode>> /\ marks' = Outlived(t)
  BY DEF TimesOut, vars
<1>5. marks' \subseteq marks \cup {t} /\ (t \in marks' => task[t].started)
  BY <1>4 DEF Outlived, OwnersInv, OwnerInv
<1>6. QED
  BY <1>1, <1>2, <1>3, <1>4, <1>5, UnwrittenKeeps DEF Live

-----------------------------------------------------------------------------
(* The steps that write a row. *)

LEMMA MarkedRow ==
  ASSUME TypeOK, NEW i \in 1..Len(requests), Written(MarkUpstreamStarted(i), i)
  PROVE  /\ Len(requests') = Len(requests) /\ mode' = mode
         /\ \A k \in 1..Len(requests) : k # i => requests'[k] = requests[k]
         /\ requests'[i].state = requests[i].state
         /\ requests[i].upstream_started => requests'[i].upstream_started
<1>1. requests \in Seq(Row) /\ requests[i] \in Row
  BY DEF TypeOK
<1>2. CASE MarkUpstreamStarted(i)
  <2> DEFINE new == [requests[i] EXCEPT !.upstream_started = TRUE]
  <2>1. requests' = [requests EXCEPT ![i] = new] /\ mode' = mode
    BY <1>1, <1>2 DEF MarkUpstreamStarted
  <2>2. new.state = requests[i].state /\ new.upstream_started
    BY <1>1 DEF Row
  <2> HIDE DEF new
  <2>3. QED
    BY <1>1, <2>1, <2>2
<1>3. CASE UNCHANGED vars
  BY <1>3 DEF vars
<1>4. QED
  BY <1>2, <1>3 DEF Written

LEMMA ClosedRow ==
  ASSUME TypeOK, NEW i \in 1..Len(requests), NEW state, NEW amounts, CloseRow(i, state, amounts)
  PROVE  /\ Len(requests') = Len(requests) /\ mode' = mode
         /\ \A k \in 1..Len(requests) : k # i => requests'[k] = requests[k]
         /\ requests'[i].state = state
         /\ requests'[i].upstream_started = requests[i].upstream_started
<1>1. requests \in Seq(Row) /\ requests[i] \in Row
  BY DEF TypeOK
<1>2. requests' = [requests EXCEPT ![i] = Closed(requests[i], state, amounts)] /\ mode' = mode
  BY DEF CloseRow
<1>3. Closed(requests[i], state, amounts).state = state
      /\ Closed(requests[i], state, amounts).upstream_started = requests[i].upstream_started
  BY <1>1 DEF Closed, Row
<1>4. QED
  BY <1>1, <1>2, <1>3

LEMMA OwnedMarked == ASSUME OwnersInv, ServiceInv', NEW t \in Tasks, Marked(t) PROVE OwnersInv'
<1>1. /\ task[t] \in TaskRecord(Len(requests)) /\ task[t].pc = "marking" /\ ~task[t].retryable
      /\ Goto(t, "streaming") /\ UNCHANGED marks
      /\ Written(MarkUpstreamStarted(task[t].row), task[t].row)
  BY DEF Marked, At, OwnersInv, ServiceInv, ServiceTypeOK, TaskInv, Ended
<1>2. task[t].row \in 1..Len(requests) /\ TypeOK
  BY <1>1, RowInTable DEF OwnersInv, ServiceInv, TaskInv
<1>3. /\ Len(requests') = Len(requests) /\ mode' = mode
      /\ \A k \in 1..Len(requests) : k # task[t].row => requests'[k] = requests[k]
      /\ requests'[task[t].row].state = requests[task[t].row].state
  BY <1>1, <1>2, MarkedRow
<1>4. /\ task'[t].pc = "streaming" /\ task'[t].row = task[t].row
      /\ task'[t].started = task[t].started
      /\ \A u \in Tasks \ {t} : task'[u] = task[u]
  BY <1>1 DEF Goto, OwnersInv, ServiceInv, ServiceTypeOK, TaskRecord
<1>5. OwnStep(t)
  BY <1>1, <1>3, <1>4 DEF OwnStep
<1>6. task[t].started /\ mode = "ready" /\ RowOf(t).state = "reserved"
  BY <1>1 DEF OwnersInv, OwnerInv, Live
<1>7. OwnerInv(t)'
  BY <1>3, <1>4, <1>6 DEF OwnerInv, RowOf, Live
<1>8. QED
  BY <1>5, <1>7, OwnStepKeeps

LEMMA OwnedLateMark == ASSUME OwnersInv, ServiceInv', NEW t \in Tasks, LateMark(t) PROVE OwnersInv'
<1>1. t \in marks /\ marks' = marks \ {t} /\ task' = task
  BY DEF LateMark
<1>2. task[t].row \in 1..Len(requests) /\ TypeOK /\ task[t].row # NoRow
  BY <1>1, RowInTable DEF OwnersInv, ServiceInv, TaskInv
<1>3. CASE Written(MarkUpstreamStarted(task[t].row), task[t].row)
  <2>1. /\ Len(requests') = Len(requests) /\ mode' = mode
        /\ \A k \in 1..Len(requests) : k # task[t].row => requests'[k] = requests[k]
        /\ requests'[task[t].row].state = requests[task[t].row].state
    BY <1>2, <1>3, MarkedRow
  <2>2. OwnStep(t)
    BY <1>1, <2>1 DEF OwnStep
  <2>3. task[t].started
    BY <1>1 DEF OwnersInv, OwnerInv
  <2>4. OwnerInv(t)
    BY DEF OwnersInv
  <2>5. OwnerInv(t)'
    BY <1>1, <2>1, <2>3, <2>4 DEF OwnerInv, RowOf
  <2>6. QED
    BY <2>2, <2>5, OwnStepKeeps
<1>4. CASE WriteFails
  <2>1. requests' = requests /\ mode' = mode
    BY <1>4 DEF WriteFails, stored
  <2>2. OwnStep(t)
    BY <1>1, <2>1 DEF OwnStep
  <2>3. OwnerInv(t)
    BY DEF OwnersInv
  <2>4. OwnerInv(t)'
    BY <1>1, <2>1, <2>3 DEF OwnerInv, RowOf
  <2>5. QED
    BY <2>2, <2>4, OwnStepKeeps
<1>5. QED
  BY <1>3, <1>4 DEF LateMark

(* The task closes its row and is over. *)
LEMMA OwnedClosing ==
  ASSUME OwnersInv, ServiceInv', NEW t \in Tasks, task[t].pc \in Live,
         NEW state, NEW amounts, CloseRow(task[t].row, state, amounts),
         NEW place \in {"answered", "gone"}, Goto(t, place), marks' \subseteq Outlived(t),
         state \in {"settled", "released", "timeout", "aborted"},
         place = "answered" /\ task[t].retryable => state = "released"
  PROVE  OwnersInv'
<1>1. task[t] \in TaskRecord(Len(requests)) /\ marks' \subseteq marks \cup {t}
      /\ (t \in marks' => task[t].started)
  BY DEF OwnersInv, OwnerInv, ServiceInv, ServiceTypeOK, Outlived
<1>2. task[t].row \in 1..Len(requests) /\ TypeOK /\ task[t].row # NoRow
  BY RowInTable DEF OwnersInv, ServiceInv, TaskInv, Live
<1>3. /\ Len(requests') = Len(requests) /\ mode' = mode
      /\ \A k \in 1..Len(requests) : k # task[t].row => requests'[k] = requests[k]
      /\ requests'[task[t].row].state = state
      /\ requests'[task[t].row].upstream_started = requests[task[t].row].upstream_started
  BY <1>2, ClosedRow
<1>4. /\ task'[t].pc = place /\ task'[t].row = task[t].row
      /\ task'[t].started = task[t].started /\ task'[t].retryable = task[t].retryable
      /\ \A u \in Tasks \ {t} : task'[u] = task[u]
  BY <1>1 DEF Goto, OwnersInv, ServiceInv, ServiceTypeOK, TaskRecord
<1>5. OwnStep(t)
  BY <1>1, <1>3, <1>4 DEF OwnStep
<1>6. OwnerInv(t)
  BY DEF OwnersInv
<1>7. OwnerInv(t)'
  BY <1>1, <1>2, <1>3, <1>4, <1>6 DEF OwnerInv, RowOf, Live
<1>8. QED
  BY <1>5, <1>7, OwnStepKeeps

LEMMA OwnedSettled ==
  ASSUME OwnersInv, ServiceInv', NEW t \in Tasks, NEW amounts \in Actuals, Settled(t, amounts)
  PROVE  OwnersInv'
<1>1. task[t].pc = "settling" /\ Goto(t, "answered") /\ UNCHANGED marks
      /\ Written(Settle(task[t].row, amounts), task[t].row)
  BY DEF Settled, At
<1>2. StillReserved(task[t].row) /\ ~task[t].retryable
  BY <1>1 DEF StillReserved, OwnersInv, OwnerInv, RowOf, ServiceInv, TaskInv, Ended, Live
<1>3. CloseRow(task[t].row, "settled", amounts)
  BY <1>1, <1>2 DEF Written, Settle
<1>4. QED
  BY <1>1, <1>2, <1>3, OwnedClosing DEF Live, Outlived

(* A row whose generation was not seen to start closes as it was asked. *)
LEMMA OwnedFinish ==
  ASSUME OwnersInv, ServiceInv', NEW t \in Tasks, task[t].pc \in Live,
         NEW outcome \in {"released", "timeout", "aborted"},
         Written(Finish(task[t].row, outcome), task[t].row),
         NEW place \in {"answered", "gone"}, Goto(t, place), marks' \subseteq Outlived(t),
         place = "answered" => task[t].pc = "finishing" /\ outcome = task[t].outcome
  PROVE  OwnersInv'
<1>1. StillReserved(task[t].row) /\ task[t].row # NoRow /\ OwnerInv(t)
  BY DEF StillReserved, OwnersInv, OwnerInv, RowOf, ServiceInv, TaskInv, Live
<1> DEFINE final == FinalState(requests[task[t].row], outcome)
           amounts == IF final = "released" THEN [b \in Bases |-> 0]
                      ELSE requests[task[t].row].inp.worst
<1>2. CloseRow(task[t].row, final, amounts)
  BY <1>1 DEF Written, Finish
<1>3. final \in {"settled", "released", "timeout", "aborted"}
  BY DEF FinalState
<1>4. place = "answered" /\ task[t].retryable => final = "released"
  <2> SUFFICES ASSUME place = "answered", task[t].retryable PROVE final = "released"
    OBVIOUS
  <2>1. outcome = "released" /\ ~task[t].started
    BY <1>1 DEF OwnerInv
  <2>2. ~requests[task[t].row].upstream_started
    BY <1>1, <2>1 DEF OwnerInv, RowOf
  <2>3. QED
    BY <2>1, <2>2 DEF FinalState
<1> HIDE DEF final, amounts
<1>5. QED
  BY <1>2, <1>3, <1>4, OwnedClosing

LEMMA OwnedFinished == ASSUME OwnersInv, ServiceInv', NEW t \in Tasks, Finished(t) PROVE OwnersInv'
<1>1. task[t].pc = "finishing" /\ UNCHANGED marks
      /\ task[t].outcome \in {"released", "timeout", "aborted"}
  BY DEF Finished, At, OwnersInv, ServiceInv, ServiceTypeOK, TaskRecord
<1>2. CASE Written(Finish(task[t].row, task[t].outcome), task[t].row) /\ Goto(t, "answered")
  BY <1>1, <1>2, OwnedFinish DEF Live, Outlived
<1>3. CASE WriteFails /\ Goto(t, "stranded")
  BY <1>3, OwnedMoves
<1>4. QED
  BY <1>2, <1>3 DEF Finished

LEMMA OwnedCancelled == ASSUME OwnersInv, ServiceInv', NEW t \in Tasks, Cancelled(t) PROVE OwnersInv'
<1>1. task[t].pc \in Live /\ marks' = Outlived(t)
  BY DEF Cancelled, At, Live
<1>2. CASE Written(Finish(task[t].row, "aborted"), task[t].row) /\ Goto(t, "gone")
  BY <1>1, <1>2, OwnedFinish, "gone" # "answered"
<1>3. CASE WriteFails /\ Goto(t, "stranded")
  BY <1>3, OwnedMoves
<1>4. QED
  BY <1>2, <1>3 DEF Cancelled

LEMMA OwnedAdmit ==
  ASSUME OwnersInv, ServiceInv', NEW t \in Tasks, NEW inp \in Inputs, task[t].pc = "new",
         Reserve(inp), NEW place \in {"prepared", "stranded"},
         task' = [task EXCEPT ![t].pc = place, ![t].row = Len(requests) + 1],
         UNCHANGED marks
  PROVE  OwnersInv'
<1>1. /\ mode = "ready" /\ mode' = "ready"
      /\ requests' = Append(requests, NewRow(inp)) /\ requests \in Seq(Row)
  BY DEF Reserve, OwnersInv, ServiceInv, TypeOK
<1>2. /\ Len(requests') = Len(requests) + 1 /\ Len(requests) \in Nat
      /\ \A i \in 1..Len(requests) : requests'[i] = requests[i]
      /\ requests'[Len(requests) + 1] = NewRow(inp)
  BY <1>1
<1>3. NewRow(inp).state = "reserved" /\ NewRow(inp).upstream_started = FALSE
  BY DEF NewRow
<1>4. task[t] \in TaskRecord(Len(requests)) /\ ~task[t].retryable /\ task[t].row = NoRow
      /\ t \notin marks
  BY DEF OwnersInv, ServiceInv, ServiceTypeOK, TaskInv, Ended
<1>5. /\ task'[t].pc = place /\ task'[t].row = Len(requests) + 1
      /\ task'[t].retryable = task[t].retryable
      /\ \A u \in Tasks \ {t} : task'[u] = task[u]
  BY <1>4 DEF OwnersInv, ServiceInv, ServiceTypeOK, TaskRecord
<1>6. OwnerInv(t)'
  BY <1>1, <1>2, <1>3, <1>4, <1>5 DEF OwnerInv, RowOf, Live
<1>7. ASSUME NEW u \in Tasks \ {t} PROVE OwnerInv(u)'
  <2>1. ServiceInv /\ OwnerInv(u) /\ task'[u] = task[u]
    BY <1>5 DEF OwnersInv
  <2>2. task[u].row # NoRow => task[u].row \in 1..Len(requests)
    BY <2>1, RowInTable
  <2>3. task[u].row # NoRow => requests'[task[u].row] = requests[task[u].row]
    BY <1>2, <2>2
  <2>4. QED
    BY <1>1, <2>1, <2>3, OwnerStays
<1>8. ASSUME NEW i \in 1..Len(requests') PROVE \E u \in Tasks : task'[u].row = i
  <2>1. CASE i = Len(requests) + 1
    BY <1>5, <2>1
  <2>2. CASE i # Len(requests) + 1
    <3>1. i \in 1..Len(requests)
      BY <1>2, <2>2
    <3>2. PICK u \in Tasks : task[u].row = i
      BY <3>1 DEF OwnersInv
    <3>3. u # t
      BY <1>4, <3>1, <3>2 DEF NoRow
    <3>4. QED
      BY <1>5, <3>2, <3>3
  <2>3. QED
    BY <2>1, <2>2
<1>9. QED
  BY <1>6, <1>7, <1>8 DEF OwnersInv

LEMMA OwnedAdmits ==
  ASSUME OwnersInv, ServiceInv', NEW t \in Tasks, NEW inp \in Inputs,
         Admit(t, inp) \/ AdmitAbandoned(t, inp)
  PROVE  OwnersInv'
<1>1. task[t].pc = "new" /\ Reserve(inp) /\ UNCHANGED marks
  BY DEF Admit, AdmitAbandoned, At
<1>2. \E place \in {"prepared", "stranded"} :
        task' = [task EXCEPT ![t].pc = place, ![t].row = Len(requests) + 1]
  BY DEF Admit, AdmitAbandoned
<1>3. QED
  BY <1>1, <1>2, OwnedAdmit

(* The process dies with every coroutine that runs; the boot charges the   *)
(* rows they left open.                                                    *)
LEMMA OwnedDeath == ASSUME OwnersInv, ServiceInv', ProcessDies PROVE OwnersInv'
<1>1. mode' = "down" /\ requests' = requests /\ marks' = {}
  BY DEF ProcessDies, Crash
<1> DEFINE Over(t) == [task[t] EXCEPT !.pc = "gone"]
<1>2. ASSUME NEW t \in Tasks
      PROVE  /\ task'[t] = IF task[t].pc \in {"new", "answered", "stranded"} THEN task[t] ELSE Over(t)
             /\ Over(t).pc = "gone" /\ Over(t).row = task[t].row /\ Over(t).started = task[t].started
  <2>1. task[t] \in TaskRecord(Len(requests))
    BY DEF OwnersInv, ServiceInv, ServiceTypeOK
  <2>2. QED
    BY <2>1 DEF ProcessDies, TaskRecord
<1> HIDE DEF Over
<1>3. \A t \in Tasks : task'[t].row = task[t].row
  BY <1>2
<1>4. ASSUME NEW t \in Tasks PROVE OwnerInv(t)'
  <2>1. OwnerInv(t) /\ RowOf(t)' = RowOf(t)
    BY <1>1, <1>3 DEF OwnersInv, RowOf
  <2>2. QED
    BY <1>1, <1>2, <1>3, <2>1 DEF OwnerInv, Live
<1>5. QED
  BY <1>1, <1>3, <1>4 DEF OwnersInv

LEMMA OwnedRestart == ASSUME OwnersInv, ServiceInv', Restart PROVE OwnersInv'
<1>1. mode = "down" /\ mode' \in {"ready", "blocked"} /\ UNCHANGED <<task, marks>>
  BY DEF Restart, Boot, service
<1>2. requests \in Seq(Row) /\ \A i \in 1..Len(requests) : requests[i] \in Row
  BY DEF OwnersInv, ServiceInv, TypeOK
<1>3. requests' = [i \in 1..Len(requests) |-> Swept(requests[i])]
  BY DEF Restart, Boot, Sweep
<1>4. Len(requests') = Len(requests) /\ \A i \in 1..Len(requests) : requests'[i] = Swept(requests[i])
  BY <1>2, <1>3
<1>5. \A row \in Row : /\ Swept(row).state # "reserved"
                       /\ row.state # "reserved" => Swept(row).state = row.state
                       /\ Swept(row).upstream_started = row.upstream_started
  BY DEF Swept, Closed, Row
<1>6. ASSUME NEW t \in Tasks PROVE OwnerInv(t)'
  <2>1. OwnerInv(t) /\ task[t].pc \notin Live
    BY <1>1 DEF OwnersInv, OwnerInv
  <2>2. task[t].row # NoRow => task[t].row \in 1..Len(requests)
    BY RowInTable DEF OwnersInv
  <2>3. task[t].pc \in {"answered", "gone"} => task[t].row # NoRow
    BY DEF OwnersInv, ServiceInv, TaskInv
  <2>4. task[t].row # NoRow =>
          /\ RowOf(t)'.state # "reserved"
          /\ RowOf(t).state # "reserved" => RowOf(t)'.state = RowOf(t).state
          /\ RowOf(t)'.upstream_started = RowOf(t).upstream_started
    BY <1>1, <1>2, <1>4, <1>5, <2>2 DEF RowOf
  <2>5. QED
    BY <1>1, <2>1, <2>3, <2>4 DEF OwnerInv, Live
<1>7. QED
  BY <1>1, <1>4, <1>6 DEF OwnersInv

LEMMA OwnedElsewhere ==
  ASSUME OwnersInv, ServiceInv',
         Stop \/ UNCHANGED allVars \/ Around \/ \E t \in Tasks : Generates(t)
  PROVE  OwnersInv'
<1>1. UNCHANGED <<requests, mode, task, marks>>
  BY AroundKeepsRows DEF Stop, allVars, service, Generates, vars
<1>2. QED
  BY <1>1 DEF OwnersInv, OwnerInv, RowOf

LEMMA NextOwners == OwnersInv /\ [ServiceNext]_allVars => OwnersInv'
<1> SUFFICES ASSUME OwnersInv, [ServiceNext]_allVars PROVE OwnersInv'
  OBVIOUS
<1>1. ServiceInv'
  BY NextServiceInv DEF OwnersInv
<1>2. QED
  BY <1>1, OwnedAdmits, OwnedSend, OwnedFailure, OwnedMessageStart, OwnedMarked, OwnedMoves,
     OwnedTimesOut, OwnedFinished, OwnedLateMark, OwnedSettled, OwnedElsewhere, OwnedCancelled,
     OwnedDeath, OwnedRestart
     DEF ServiceNext, Around

LEMMA AlwaysOwners == ServiceSpec => []OwnersInv
<1>1. ServiceInit => OwnersInv
  <2> SUFFICES ASSUME ServiceInit PROVE OwnersInv
    OBVIOUS
  <2>1. requests = <<>> /\ marks = {} /\ \A t \in Tasks : task[t] = Fresh
    BY DEF ServiceInit, Init
  <2>2. \A t \in Tasks : OwnerInv(t)
    BY <2>1 DEF OwnerInv, Fresh, Live, NoRow
  <2>3. QED
    BY <2>1, <2>2, InitServiceInv DEF OwnersInv
<1>2. QED
  BY <1>1, NextOwners, PTL DEF ServiceSpec

(* A coroutine that still runs finds its row open: no other request, no    *)
(* late mark and no sweep has closed it, so it is never told that its own  *)
(* money was booked by somebody else.                                      *)
RunningTasksHoldOpenRows ==
  \A t \in Tasks : task[t].pc \in Live => mode = "ready" /\ RowOf(t).state = "reserved"

(* The row of a coroutine that still runs is open, and the gateway serves. *)
THEOREM RunningTasksOwn == ServiceSpec => []RunningTasksHoldOpenRows
<1>1. OwnersInv => RunningTasksHoldOpenRows
  BY DEF OwnersInv, OwnerInv, RunningTasksHoldOpenRows
<1>2. QED
  BY <1>1, AlwaysOwners, PTL

(* The safety half of EveryRowCloses.  While the gateway serves, an open   *)
(* row belongs to a coroutine that still runs, or to one that was cut off  *)
(* from it by a failed write or a shutdown: nobody else forgets one.       *)
OpenRowsHaveOwners ==
  mode = "ready" =>
    \A i \in 1..Len(requests) : requests[i].state = "reserved" =>
      \E t \in Tasks : task[t].row = i /\ task[t].pc \in Live \cup {"stranded"}

(* While the gateway serves, every open row has a coroutine that owns it.  *)
THEOREM NoRowIsForgotten == ServiceSpec => []OpenRowsHaveOwners
<1>1. OwnersInv => OpenRowsHaveOwners
  <2> SUFFICES ASSUME OwnersInv, mode = "ready",
                      NEW i \in 1..Len(requests), requests[i].state = "reserved"
               PROVE  \E t \in Tasks : task[t].row = i /\ task[t].pc \in Live \cup {"stranded"}
    BY DEF OpenRowsHaveOwners
  <2>1. PICK t \in Tasks : task[t].row = i
    BY DEF OwnersInv
  <2>2. RowOf(t).state = "reserved" /\ task[t].row # NoRow /\ OwnerInv(t)
    BY <2>1 DEF RowOf, OwnersInv, NoRow
  <2>3. task[t].pc \in Places /\ task[t].pc # "new"
    BY <2>2 DEF OwnersInv, ServiceInv, ServiceTypeOK, TaskRecord, TaskInv
  <2>4. task[t].pc \notin {"answered", "gone"}
    BY <2>2 DEF OwnerInv
  <2>5. QED
    BY <2>1, <2>3, <2>4 DEF Places, Live
<1>2. QED
  BY <1>1, AlwaysOwners, PTL

(* service.py:541 once more ("only a released row may invite a retry"):    *)
(* the sentence holds of every answer whose last write went through; the   *)
(* run service_retry shows the other ones.  And no answered request is     *)
(* charged later by a sweep.                                               *)
AnswersAreBooked ==
  \A t \in Tasks : task[t].pc = "answered" =>
    /\ RowOf(t).state \in {"settled", "released", "timeout", "aborted"}
    /\ task[t].retryable => RowOf(t).state = "released"

(* An answered request's row is closed, and given back where the answer    *)
(* invites a retry.                                                        *)
THEOREM AnswersCloseTheirRows == ServiceSpec => []AnswersAreBooked
<1>1. OwnersInv => AnswersAreBooked
  BY DEF OwnersInv, OwnerInv, AnswersAreBooked
<1>2. QED
  BY <1>1, AlwaysOwners, PTL
=============================================================================
