--------------------------- MODULE GatewayService ---------------------------
(***************************************************************************)
(* One chat completion, from its reservation to its answer (service.py     *)
(* prepare's last call, execute, _finish, _fail, _timeout, _abort_sync,    *)
(* _settle), composed with the Ledger whose methods it calls and with the  *)
(* provider it pays (upstream.py complete and classify_failure).           *)
(*                                                                         *)
(* Ledger methods run on worker threads and are shielded from              *)
(* cancellation, so between the request for a write and the write itself   *)
(* anything may happen, and a write whose task was cancelled still lands.  *)
(*                                                                         *)
(* The provider is external.  It is taken to bill a call from the moment   *)
(* it starts to generate, whether or not message_start ever arrives, and   *)
(* not to generate for a call it answers with an error or never accepted.  *)
(* A call the gateway gave up on may still generate.                       *)
(***************************************************************************)
EXTENDS Ledger, FiniteSets

CONSTANT Tasks

VARIABLES
  task,     \* each request's coroutine
  sent,     \* provider: accepted calls of the task that may still generate
  billed,   \* provider: calls of the task it has generated for
  marks,    \* tasks whose mark_upstream_started outlived the await on it
  stopping  \* SIGTERM seen: coroutines are cancelled

service == <<task, sent, billed, marks, stopping>>
allVars == <<vars, service>>

NoRow == 0
Fresh == [pc |-> "new", row |-> NoRow, started |-> FALSE, attempt |-> 0,
          outcome |-> "released", retryable |-> FALSE]

ServiceInit ==
  /\ Init
  /\ task = [t \in Tasks |-> Fresh]
  /\ sent = [t \in Tasks |-> 0]
  /\ billed = [t \in Tasks |-> 0]
  /\ marks = {}
  /\ stopping = FALSE

At(t, places) == mode = "ready" /\ task[t].pc \in places
Goto(t, place) == task' = [task EXCEPT ![t].pc = place]
RowOf(t) == requests[task[t].row]

-----------------------------------------------------------------------------
(* What a failure means (UpstreamFailure).                                 *)

Refusals == {"rate_limited", "spend_limit", "auth", "rejected", "server", "network"}
RetryableReleasedKinds == {"rate_limited", "spend_limit", "server", "network"}

Failure(kind, before) == [kind |-> kind, before_generation |-> before]

ProvesNoGeneration_AnyTime(failure) == failure.kind \in Refusals
ProvesNoGeneration(failure) == failure.before_generation /\ failure.kind \in Refusals

(* _retry_once; `soon` is Retry-After <= 10 s. *)
RetriedKind(kind, soon) == kind = "network" \/ (kind = "rate_limited" /\ soon)
RetryOnce_Severed(failure, soon) == RetriedKind(failure.kind, soon)
RetryOnce(failure, soon) == failure.before_generation /\ RetriedKind(failure.kind, soon)

OutcomeOf(failure, started) ==
  IF ProvesNoGeneration(failure) /\ ~started THEN "released"
  ELSE IF failure.kind = "timeout" THEN "timeout" ELSE "aborted"

MayRetry_Always(t) == TRUE
MayRetry(t) == task[t].attempt = 1

(* execute's handlers: retry once, or ask the ledger to finish the row. *)
Fails(t, failure, soon) ==
  LET outcome == OutcomeOf(failure, task[t].started)
  IN  IF MayRetry(t) /\ RetryOnce(failure, soon)
      THEN Goto(t, "prepared")
      ELSE task' = [task EXCEPT ![t].pc = "finishing", ![t].outcome = outcome,
                      ![t].retryable = outcome = "released" /\ failure.kind \in RetryableReleasedKinds]

-----------------------------------------------------------------------------
(* The coroutine.                                                          *)

Admit(t, inp) ==
  /\ At(t, {"new"})
  /\ Reserve(inp)
  /\ task' = [task EXCEPT ![t].pc = "prepared", ![t].row = Len(requests) + 1]
  /\ UNCHANGED <<sent, billed, marks, stopping>>

(* prepare was cancelled while its shielded reserve ran: the row is there, *)
(* and nobody executes it.                                                 *)
AdmitAbandoned(t, inp) ==
  /\ stopping /\ At(t, {"new"})
  /\ Reserve(inp)
  /\ task' = [task EXCEPT ![t].pc = "stranded", ![t].row = Len(requests) + 1]
  /\ UNCHANGED <<sent, billed, marks, stopping>>

Send(t) ==
  /\ At(t, {"prepared"})
  /\ task' = [task EXCEPT ![t].pc = "calling", ![t].attempt = @ + 1]
  /\ sent' = [sent EXCEPT ![t] = @ + 1]
  /\ UNCHANGED <<vars, billed, marks, stopping>>

(* The provider answers an error status, or the connection was refused:    *)
(* this call will not generate.                                            *)
Refused(t, kind, soon) ==
  /\ At(t, {"calling"}) /\ sent[t] > 0
  /\ sent' = [sent EXCEPT ![t] = @ - 1]
  /\ Fails(t, Failure(kind, TRUE), soon)
  /\ UNCHANGED <<vars, billed, marks, stopping>>

(* The connection breaks, the read times out, or the answer is unusable:   *)
(* the gateway cannot know what the provider does.  An error event after   *)
(* message_start is no different, whatever its kind.                       *)
Breaks(t, kind) ==
  /\ At(t, {"calling", "streaming"})
  /\ Fails(t, Failure(kind, kind = "timeout" /\ ~task[t].started), FALSE)
  /\ UNCHANGED <<vars, sent, billed, marks, stopping>>

(* message_start: `started` is set before the ledger is told. *)
MessageStart(t) ==
  /\ At(t, {"calling"}) /\ billed[t] > 0
  /\ task' = [task EXCEPT ![t].pc = "marking", ![t].started = TRUE]
  /\ UNCHANGED <<vars, sent, billed, marks, stopping>>

Written(op, i) == IF StillReserved(i) THEN op ELSE UNCHANGED vars

Marked(t) ==
  /\ At(t, {"marking"})
  /\ Written(MarkUpstreamStarted(task[t].row), task[t].row)
  /\ Goto(t, "streaming")
  /\ UNCHANGED <<sent, billed, marks, stopping>>

(* LedgerUnavailable is raised inside the SDK's stream: a bad response. *)
MarkFails(t) ==
  /\ At(t, {"marking"})
  /\ WriteFails
  /\ Fails(t, Failure("bad_response", FALSE), FALSE)
  /\ UNCHANGED <<sent, billed, marks, stopping>>

Completes(t) ==
  /\ At(t, {"streaming"})
  /\ Goto(t, "settling")
  /\ UNCHANGED <<vars, sent, billed, marks, stopping>>

Outlived(t) == IF task[t].pc = "marking" THEN marks \cup {t} ELSE marks

TimeoutCovers_FirstByte == {"calling"}
TimeoutCovers == {"calling", "marking", "streaming"}

(* wait_for gives up; a mark under way in its thread goes on. *)
TimesOut(t) ==
  /\ At(t, TimeoutCovers)
  /\ task' = [task EXCEPT ![t].pc = "finishing", ![t].outcome = "timeout"]
  /\ marks' = Outlived(t)
  /\ UNCHANGED <<vars, sent, billed, stopping>>

Finished(t) ==
  /\ At(t, {"finishing"})
  /\ \/ Written(Finish(task[t].row, task[t].outcome), task[t].row) /\ Goto(t, "answered")
     \/ WriteFails /\ Goto(t, "stranded")
  /\ UNCHANGED <<sent, billed, marks, stopping>>

Settled(t, amounts) ==
  /\ At(t, {"settling"})
  /\ Written(Settle(task[t].row, amounts), task[t].row)
  /\ Goto(t, "answered")
  /\ UNCHANGED <<sent, billed, marks, stopping>>

SettleFails(t) ==
  /\ At(t, {"settling"})
  /\ WriteFails /\ Goto(t, "stranded")
  /\ UNCHANGED <<sent, billed, marks, stopping>>

LateMark(t) ==
  /\ mode = "ready" /\ t \in marks
  /\ Written(MarkUpstreamStarted(task[t].row), task[t].row) \/ WriteFails
  /\ marks' = marks \ {t}
  /\ UNCHANGED <<task, sent, billed, stopping>>

-----------------------------------------------------------------------------
(* Shutdown, crash and restart.                                            *)

Stop ==
  /\ mode = "ready" /\ ~stopping
  /\ stopping' = TRUE
  /\ UNCHANGED <<vars, task, sent, billed, marks>>

(* A coroutine is cancelled inside execute's try, the retry wait included: *)
(* _abort_sync closes its row in one synchronous write.                    *)
Cancelled(t) ==
  /\ stopping /\ At(t, {"prepared", "calling", "marking", "streaming"})
  /\ task[t].pc = "prepared" => task[t].attempt > 0
  /\ \/ Written(Finish(task[t].row, "aborted"), task[t].row) /\ Goto(t, "gone")
     \/ WriteFails /\ Goto(t, "stranded")
  /\ marks' = Outlived(t)
  /\ UNCHANGED <<sent, billed, stopping>>

(* The task a streamed answer runs execute in is cancelled before its      *)
(* first step: it never enters the try, and nobody closes the row.         *)
NeverStarted(t) ==
  /\ stopping /\ At(t, {"prepared"}) /\ task[t].attempt = 0
  /\ Goto(t, "stranded")
  /\ UNCHANGED <<vars, sent, billed, marks, stopping>>

ProcessDies ==
  /\ Crash
  /\ task' = [t \in Tasks |-> IF task[t].pc \in {"new", "answered", "stranded"} THEN task[t]
                              ELSE [task[t] EXCEPT !.pc = "gone"]]
  /\ marks' = {} /\ stopping' = FALSE
  /\ UNCHANGED <<sent, billed>>

Restart == Boot /\ UNCHANGED service

(* The provider, at its own pace. *)
Generates(t) ==
  /\ sent[t] > 0
  /\ sent' = [sent EXCEPT ![t] = @ - 1]
  /\ billed' = [billed EXCEPT ![t] = @ + 1]
  /\ UNCHANGED <<vars, task, marks, stopping>>

(* Around the requests: the clock is stepped; a further request is refused *)
(* at the ceiling, which latches the lane; an operator resets the latch.   *)
(* A reset before any trip sets a flag that no decision reads.             *)
ClockSteps(now) == SetClock(now) /\ UNCHANGED service
CeilingRefuses(inp, now) == TripBrake(inp, now) /\ UNCHANGED service
BrakeResets(lane) ==
  /\ brakes[lane].tripped_at # NoTime
  /\ ResetBrake(lane) /\ UNCHANGED service

ServiceNext ==
  \/ \E t \in Tasks, inp \in Inputs : Admit(t, inp) \/ AdmitAbandoned(t, inp)
  \/ \E t \in Tasks : Send(t)
  \/ \E t \in Tasks, kind \in Refusals, soon \in BOOLEAN : Refused(t, kind, soon)
  \/ \E t \in Tasks, kind \in {"network", "timeout", "bad_response"} : Breaks(t, kind)
  \/ \E t \in Tasks : MessageStart(t) \/ Marked(t) \/ MarkFails(t) \/ Completes(t)
  \/ \E t \in Tasks : TimesOut(t) \/ Finished(t) \/ SettleFails(t) \/ LateMark(t)
  \/ \E t \in Tasks, amounts \in Actuals : Settled(t, amounts)
  \/ Stop
  \/ \E t \in Tasks : Cancelled(t) \/ NeverStarted(t)
  \/ ProcessDies
  \/ Restart
  \/ \E t \in Tasks : Generates(t)
  \/ \E now \in Times : ClockSteps(now)
  \/ \E inp \in Inputs, now \in Times : CeilingRefuses(inp, now)
  \/ \E lane \in Lanes : BrakeResets(lane)

(* A worker thread finishes its write or fails it, the loop runs what is   *)
(* ready, every call has a timeout, and the pod is restarted.              *)
Progress(t) ==
  \/ Send(t) \/ Marked(t) \/ TimesOut(t) \/ Finished(t)
  \/ SettleFails(t) \/ \E amounts \in Actuals : Settled(t, amounts)

ServiceSpec == ServiceInit /\ [][ServiceNext]_allVars
FairService == ServiceSpec /\ (\A t \in Tasks : WF_allVars(Progress(t))) /\ WF_allVars(Restart)

-----------------------------------------------------------------------------
(* Properties.                                                             *)

Places == {"new", "prepared", "calling", "marking", "streaming", "finishing", "settling",
           "answered", "stranded", "gone"}

TaskRecord(rows) ==
  [pc : Places, row : 0..rows, started : BOOLEAN, attempt : 0..2,
   outcome : {"released", "timeout", "aborted"}, retryable : BOOLEAN]

(* Types, and no two tasks own one row. *)
ServiceTypeOK ==
  /\ task \in [Tasks -> TaskRecord(Len(requests))]
  /\ sent \in [Tasks -> 0..2] /\ billed \in [Tasks -> 0..2]
  /\ marks \subseteq Tasks /\ stopping \in BOOLEAN
  /\ \A t, u \in Tasks : t # u /\ task[t].row = task[u].row => task[t].row = NoRow

Answered(t) == task[t].pc \in {"answered", "stranded"}

(* Money: a row given back was never generated for and never will be, by   *)
(* any of the calls made under it, also one still on its way when the      *)
(* gateway gave up (ledger.py: unknown spend is never settled at zero).    *)
FreeMeansUngenerated ==
  \A t \in Tasks :
    task[t].row # NoRow /\ RowOf(t).state = "released" => sent[t] + billed[t] = 0

(* docs/specs/gateway.md section 6.1: one billed provider call per row;    *)
(* the one retry never puts a second generation under a reservation.       *)
OneGenerationPerRow == \A t \in Tasks : sent[t] + billed[t] <= 1

(* An answer that invites a retry never follows a call that was or may be  *)
(* billed: the retry would be a second spend.                              *)
RetryNeverDoublesSpend ==
  \A t \in Tasks : Answered(t) /\ task[t].retryable => sent[t] + billed[t] = 0

OpenRow(t) == task[t].row # NoRow /\ RowOf(t).state = "reserved"

(* Every reservation is closed in the end, by its own request, by the      *)
(* shutdown's abort or by the next boot's sweep; only a failed write, or a *)
(* shutdown between the reserve and execute's first step, leaves it for a  *)
(* later boot.                                                             *)
EveryRowCloses ==
  \A t \in Tasks :
    OpenRow(t) ~> (task[t].pc = "stranded" \/ ~OpenRow(t))

(* service.py:541 "only a released row may invite a retry". *)
OnlyReleasedInvitesRetry ==
  \A t \in Tasks : Answered(t) /\ task[t].retryable => RowOf(t).state = "released"
=============================================================================
