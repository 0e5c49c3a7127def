------------------------------- MODULE Ledger -------------------------------
(***************************************************************************)
(* The gateway's budget ledger (services/gateway/src/gateway/ledger.py)    *)
(* and the boot that opens it (main.py boot).                              *)
(*                                                                         *)
(* One process-wide mutex is held around every method and every write is   *)
(* one BEGIN IMMEDIATE ... COMMIT, so a method that commits is one action. *)
(* A method that refuses rolls back and is a stutter, but for the one      *)
(* refusal that writes: a brake ceiling trips the latch in a transaction   *)
(* of its own, on a clock that is read again (TripBrake).  A method whose  *)
(* write fails (LedgerUnavailable) rolls back too, and may leave the       *)
(* timestamp it staged behind (WriteFails).                                *)
(*                                                                         *)
(* Operators named X_Bug are X with a plausible mistake: the properties    *)
(* below must fail with X replaced by them.                                *)
(*                                                                         *)
(* An account is a <<scope, basis>> pair, a row of scope_totals.  Rows the *)
(* code inserts with zeros on first use are zeros from the start here.     *)
(***************************************************************************)
EXTENDS Integers, Sequences, Sums

CONSTANTS
  Callers, Projects, Lanes, Jobs,
  NoJob,          \* a request without X-Job-Id
  NoCap,          \* a caller without max_day_billed_usd
  ProjectCap,     \* registry: the project's billed cap for one period
  CallerDayCap,   \* registry: the caller's billed cap for one day, or NoCap
  BrakeCap,       \* config: the lane's billed ceiling for one day
  Inputs,         \* the ReserveInputs the service may present
  Actuals,        \* what a provider may report, per basis
  DayLength, DaysPerPeriod, Skew,   \* instants in a day, days in a month, CLOCK_SKEW_MS
  MaxClock,       \* bound: instants are 0..MaxClock
  MaxRequests     \* bound: rows of the requests table

Bases == {"billed", "list"}
ChargedStates == {"settled", "timeout", "aborted", "swept"}
States == ChargedStates \cup {"reserved", "released"}

Times == 0..MaxClock
NoTime == -1      \* SQL NULL / None
Unpinned == -1    \* no row in job_caps
Day(t) == t \div DayLength
Period(t) == Day(t) \div DaysPerPeriod
Days == {Day(t) : t \in Times}
Periods == {Period(t) : t \in Times}

Input == [caller_id : Callers, project_id : Projects, job_id : Jobs \cup {NoJob},
          lane_used : Lanes, cap_presented : Nat, worst : [Bases -> Nat]]

Row == [inp : Input, reserved_at : Times, state : States,
        upstream_started : BOOLEAN, charged : [Bases -> Nat]]

Scopes == ({"project"} \X Projects \X Periods) \cup ({"caller_day"} \X Callers \X Days)
          \cup ({"brake"} \X Lanes \X Days) \cup ({"job"} \X Callers \X Jobs)
Accounts == Scopes \X Bases

ASSUME ConstantsAssumption ==
  /\ DayLength \in Nat \ {0} /\ DaysPerPeriod \in Nat \ {0} /\ Skew \in Nat
  /\ MaxClock \in Nat /\ MaxRequests \in Nat
  /\ NoJob \notin Jobs /\ NoCap \notin Nat
  /\ ProjectCap \in [Projects -> Nat]
  /\ CallerDayCap \in [Callers -> Nat \cup {NoCap}]
  /\ BrakeCap \in [Lanes -> Nat]
  /\ Inputs \subseteq Input
  /\ Actuals \subseteq [Bases -> Nat]

VARIABLES
  requests,      \* the requests table, in insertion (ULID) order
  held, settled, \* scope_totals.held_micro and .settled_micro, per account
  job_caps,      \* the pinned cap of each caller's job
  brakes,        \* tripped_at, and whether reset_at is set since
  last_commit,   \* meta.last_commit_ts
  commit_cache,  \* Ledger._commit_cache: in memory, lost in a crash
  pending,       \* Ledger._pending_commit: staged until COMMIT returns
  clock,         \* the wall clock; it may be stepped, also backwards
  mode           \* "down", "ready", or "blocked" by a boot error

vars == <<requests, held, settled, job_caps, brakes, last_commit, commit_cache, pending,
          clock, mode>>
stored == <<requests, held, settled, job_caps, last_commit, commit_cache>>

-----------------------------------------------------------------------------
(* Accounts of a row, and what a row contributes to one.                   *)

ScopesFor(inp, at) ==
  {<<"project", inp.project_id, Period(at)>>, <<"caller_day", inp.caller_id, Day(at)>>,
   <<"brake", inp.lane_used, Day(at)>>}
  \cup IF inp.job_id = NoJob THEN {} ELSE {<<"job", inp.caller_id, inp.job_id>>}

RowScopes_Today(row) == ScopesFor(row.inp, clock)
RowScopes(row) == ScopesFor(row.inp, row.reserved_at)

HeldBy(row, a) ==
  IF row.state = "reserved" /\ a[1] \in RowScopes(row) THEN row.inp.worst[a[2]] ELSE 0

ChargedBy(row, a) ==
  IF row.state \in ChargedStates /\ a[1] \in RowScopes(row) THEN row.charged[a[2]] ELSE 0

HeldSum(a) == SumTo([i \in 1..Len(requests) |-> HeldBy(requests[i], a)], Len(requests))
ChargedSum(a) == SumTo([i \in 1..Len(requests) |-> ChargedBy(requests[i], a)], Len(requests))

Committed(a) == held[a] + settled[a]

(* recompute_totals finds no mismatch. *)
TotalsRecompute == \A a \in Accounts : held[a] = HeldSum(a) /\ settled[a] = ChargedSum(a)

-----------------------------------------------------------------------------
(* Admission.                                                              *)

ClockGuard_SkewOnly == last_commit # NoTime => clock >= last_commit - Skew

ClockGuard ==
  last_commit # NoTime => clock >= last_commit - Skew /\ Period(clock) >= Period(last_commit)

BrakeTripped_ThisInstant(lane, now) == brakes[lane].tripped_at = now /\ ~brakes[lane].reset

BrakeTripped(lane, now) ==
  /\ brakes[lane].tripped_at # NoTime
  /\ ~brakes[lane].reset
  /\ Day(brakes[lane].tripped_at) = Day(now)

RequestCapAllows_NoPin(inp) ==
  inp.job_id = NoJob => \A b \in Bases : inp.worst[b] <= inp.cap_presented

(* The job-cap pin, or the request cap of a request without a job. *)
RequestCapAllows(inp) ==
  IF inp.job_id = NoJob
  THEN \A b \in Bases : inp.worst[b] <= inp.cap_presented
  ELSE job_caps[<<inp.caller_id, inp.job_id>>] \in {Unpinned, inp.cap_presented}

BrakeAccount(inp, now) == <<<<"brake", inp.lane_used, Day(now)>>, "billed">>

EnforcedAccounts(inp, now) ==
  {a \in ScopesFor(inp, now) \X Bases :
     \/ a[1][1] = "job"
     \/ a[2] = "billed" /\ (a[1][1] = "caller_day" => CallerDayCap[inp.caller_id] # NoCap)}

CapOn(a, inp) ==
  CASE a[1][1] = "job"        -> inp.cap_presented
    [] a[1][1] = "caller_day" -> CallerDayCap[inp.caller_id]
    [] a[1][1] = "project"    -> ProjectCap[inp.project_id]
    [] a[1][1] = "brake"      -> BrakeCap[inp.lane_used]

Fits_NotHeld(a, inp) == settled[a] + inp.worst[a[2]] <= CapOn(a, inp)
Fits(a, inp) == Committed(a) + inp.worst[a[2]] <= CapOn(a, inp)

(* clock_ok: the readiness half, on the event loop, without SQLite.  It    *)
(* gates the handlers before they await the worker thread that runs the    *)
(* ledger method, so no method may rely on it.                             *)
ClockOk == commit_cache # NoTime => clock >= commit_cache - Skew

(* _tx and _touch_commit_ts.  BEGIN drops what a failed COMMIT left staged; *)
(* COMMIT publishes what this transaction staged, if anything.              *)
AtBegin_Keeps == pending
AtBegin == NoTime
Staged(now) == IF now > last_commit THEN now ELSE AtBegin

Publish(staged) ==
  /\ commit_cache' = IF staged = NoTime THEN commit_cache ELSE staged
  /\ pending' = NoTime

TouchCommit(now) ==
  /\ last_commit' = IF now > last_commit THEN now ELSE last_commit
  /\ Publish(Staged(now))

-----------------------------------------------------------------------------
(* The methods.                                                            *)

Init ==
  /\ requests = <<>>
  /\ held = [a \in Accounts |-> 0]
  /\ settled = [a \in Accounts |-> 0]
  /\ job_caps = [cj \in Callers \X Jobs |-> Unpinned]
  /\ brakes = [l \in Lanes |-> [tripped_at |-> NoTime, reset |-> FALSE]]
  /\ last_commit = NoTime
  /\ commit_cache = NoTime
  /\ pending = NoTime
  /\ clock \in Times
  /\ mode = "down"

NewRow(inp) ==
  [inp |-> inp, reserved_at |-> clock, state |-> "reserved",
   upstream_started |-> FALSE, charged |-> [b \in Bases |-> 0]]

(* reserve: the compare-and-add on every enforced pair, the plain add on   *)
(* the others, the pin and the row, in one transaction.                    *)
Reserve(inp) ==
  /\ mode = "ready" /\ Len(requests) < MaxRequests
  /\ ClockGuard
  /\ ~BrakeTripped(inp.lane_used, clock)
  /\ RequestCapAllows(inp)
  /\ \A a \in EnforcedAccounts(inp, clock) : Fits(a, inp)
  /\ job_caps' = IF inp.job_id = NoJob THEN job_caps
                 ELSE [job_caps EXCEPT ![<<inp.caller_id, inp.job_id>>] = inp.cap_presented]
  /\ held' = [a \in Accounts |-> held[a] + HeldBy(NewRow(inp), a)]
  /\ requests' = Append(requests, NewRow(inp))
  /\ TouchCommit(clock)
  /\ UNCHANGED <<settled, brakes, clock, mode>>

(* reserve or preadmit refused by the ceiling, the last pair checked; the  *)
(* latch is then written at a clock read again.  preadmit presents a floor *)
(* of the worst case, which is one more member of Inputs.                  *)
TripBrake(inp, now) ==
  /\ mode = "ready"
  /\ ClockGuard
  /\ ~BrakeTripped(inp.lane_used, clock)
  /\ RequestCapAllows(inp)
  /\ \A a \in EnforcedAccounts(inp, clock) \ {BrakeAccount(inp, clock)} : Fits(a, inp)
  /\ ~Fits(BrakeAccount(inp, clock), inp)
  /\ now \in {clock, clock + 1} \cap Times
  /\ clock' = now
  /\ brakes' = [brakes EXCEPT ![inp.lane_used] = [tripped_at |-> now, reset |-> FALSE]]
  /\ Publish(AtBegin)
  /\ UNCHANGED <<requests, held, settled, job_caps, last_commit, mode>>

ResetBrake(lane) ==
  /\ mode = "ready"
  /\ brakes' = [brakes EXCEPT ![lane].reset = TRUE]
  /\ Publish(AtBegin)
  /\ UNCHANGED <<requests, held, settled, job_caps, last_commit, clock, mode>>

(* Every transition below re-reads the row and returns without writing     *)
(* unless it is still reserved.                                            *)
StillReserved_NotRead(i) == mode = "ready"
StillReserved(i) == mode = "ready" /\ requests[i].state = "reserved"

MarkUpstreamStarted(i) ==
  /\ StillReserved(i)
  /\ requests' = [requests EXCEPT ![i].upstream_started = TRUE]
  /\ Publish(AtBegin)
  /\ UNCHANGED <<held, settled, job_caps, brakes, last_commit, clock, mode>>

Closed(row, state, amounts) == [row EXCEPT !.state = state, !.charged = amounts]

(* The row leaves "reserved" and its scopes move with it. *)
CloseRow(i, state, amounts) ==
  LET row == requests[i]
      on(a) == a[1] \in RowScopes(row)
  IN  /\ requests' = [requests EXCEPT ![i] = Closed(row, state, amounts)]
      /\ held' = [a \in Accounts |-> IF on(a) THEN held[a] - row.inp.worst[a[2]] ELSE held[a]]
      /\ settled' = [a \in Accounts |-> IF on(a) THEN settled[a] + amounts[a[2]] ELSE settled[a]]
      /\ TouchCommit(clock)
      /\ UNCHANGED <<job_caps, brakes, clock, mode>>

Settle(i, amounts) ==
  /\ StillReserved(i)
  /\ CloseRow(i, "settled", amounts)

FinalState_AsAsked(row, outcome) == outcome
FinalState_Unmapped(row, outcome) == IF outcome = "released" THEN "release" ELSE outcome

(* finish_without_usage: what a finish asked for as `outcome` becomes. *)
FinalState(row, outcome) ==
  IF outcome = "released" /\ row.upstream_started THEN "aborted" ELSE outcome

Finish(i, outcome) ==
  /\ StillReserved(i)
  /\ LET final == FinalState(requests[i], outcome)
     IN  CloseRow(i, final, IF final = "released" THEN [b \in Bases |-> 0]
                            ELSE requests[i].inp.worst)

-----------------------------------------------------------------------------
(* A failed write.  A statement that fails drops the staged timestamp, a   *)
(* COMMIT that fails leaves it; SQLite rolls the transaction back in both. *)
(* With pending' = NoTime this is also a write of the tables not modelled  *)
(* here (ping, meta, lane_state), which drops what was staged before it.   *)
WriteFails ==
  /\ mode = "ready"
  /\ pending' \in {NoTime, Staged(clock)}
  /\ UNCHANGED <<stored, brakes, clock, mode>>

-----------------------------------------------------------------------------
(* Process life: a crash keeps the file and loses the memory; boot opens   *)
(* the file, sweeps every reserved row in one transaction, recomputes the  *)
(* totals, and only then listens.                                          *)

Crash ==
  /\ mode # "down"
  /\ mode' = "down"
  /\ commit_cache' = NoTime /\ pending' = NoTime
  /\ UNCHANGED <<requests, held, settled, job_caps, brakes, last_commit, clock>>

Swept(row) == IF row.state = "reserved" THEN Closed(row, "swept", row.inp.worst) ELSE row

Sweep ==
  /\ requests' = [i \in 1..Len(requests) |-> Swept(requests[i])]
  /\ held' = [a \in Accounts |-> held[a] - HeldSum(a)]
  /\ settled' = [a \in Accounts |-> settled[a] + HeldSum(a)]
  /\ IF \E i \in 1..Len(requests) : requests[i].state = "reserved"
     THEN LET latest == IF clock > last_commit THEN clock ELSE last_commit
          IN  last_commit' = latest /\ commit_cache' = latest
     ELSE last_commit' = last_commit /\ commit_cache' = last_commit
  /\ pending' = NoTime

Boot ==
  /\ mode = "down"
  /\ Sweep
  /\ mode' = IF TotalsRecompute' THEN "ready" ELSE "blocked"
  /\ UNCHANGED <<job_caps, brakes, clock>>

BootFails_Swallowed ==
  /\ mode = "down"
  /\ mode' = "ready"
  /\ commit_cache' = last_commit /\ pending' = NoTime
  /\ UNCHANGED <<requests, held, settled, job_caps, brakes, last_commit, clock>>

(* The open, quick_check or the sweep fails: alive, every money path       *)
(* refused.  When the open fails the ledger is an empty one in memory.     *)
BootFails ==
  /\ mode = "down"
  /\ mode' = "blocked"
  /\ commit_cache' \in {last_commit, NoTime} /\ pending' = NoTime
  /\ UNCHANGED <<requests, held, settled, job_caps, brakes, last_commit, clock>>

(* Time passes, NTP steps the clock, or the node booted on a stale RTC. *)
SetClock(t) == clock' = t /\ UNCHANGED <<stored, pending, brakes, mode>>

Next ==
  \/ \E inp \in Inputs : Reserve(inp)
  \/ \E inp \in Inputs, now \in Times : TripBrake(inp, now)
  \/ \E lane \in Lanes : ResetBrake(lane)
  \/ \E i \in 1..Len(requests) : MarkUpstreamStarted(i)
  \/ \E i \in 1..Len(requests), amounts \in Actuals : Settle(i, amounts)
  \/ \E i \in 1..Len(requests), outcome \in {"released", "timeout", "aborted"} : Finish(i, outcome)
  \/ WriteFails
  \/ Crash
  \/ Boot
  \/ BootFails
  \/ \E t \in Times : SetClock(t)

Spec == Init /\ [][Next]_vars

-----------------------------------------------------------------------------
(* Properties.                                                             *)

(* Every variable has the type of its column. *)
TypeOK ==
  /\ requests \in Seq(Row)
  /\ held \in [Accounts -> Int]
  /\ settled \in [Accounts -> Int]
  /\ job_caps \in [Callers \X Jobs -> Nat \cup {Unpinned}]
  /\ brakes \in [Lanes -> [tripped_at : Times \cup {NoTime}, reset : BOOLEAN]]
  /\ last_commit \in Times \cup {NoTime}
  /\ commit_cache \in Times \cup {NoTime}
  /\ pending \in Times \cup {NoTime}
  /\ clock \in Times
  /\ mode \in {"down", "ready", "blocked"}

(* What recompute_totals checks only at boot holds after every commit: the *)
(* materialized counters the enforcement statement reads are the sums over *)
(* the request rows, whatever the interleaving of reserve, settle, finish, *)
(* crash and sweep.                                                        *)
TotalsMatchRows == TotalsRecompute

(* How far a row settled above its reservation, and all rows of an account. *)
OverBy(row, a) ==
  LET over == ChargedBy(row, a) - row.inp.worst[a[2]] IN IF over > 0 THEN over ELSE 0

Overrun(a) == SumTo([i \in 1..Len(requests) |-> OverBy(requests[i], a)], Len(requests))

CapOfAccount(a) ==
  CASE a[1][1] = "job"        -> IF job_caps[<<a[1][2], a[1][3]>>] = Unpinned THEN 0
                                 ELSE job_caps[<<a[1][2], a[1][3]>>]
    [] a[1][1] = "caller_day" -> CallerDayCap[a[1][2]]
    [] a[1][1] = "project"    -> ProjectCap[a[1][2]]
    [] a[1][1] = "brake"      -> BrakeCap[a[1][2]]

Capped(a) ==
  \/ a[1][1] = "job"
  \/ a[2] = "billed" /\ (a[1][1] = "caller_day" => CallerDayCap[a[1][2]] # NoCap)

(* test_properties.py: "after every commit, for every enforced scope and   *)
(* basis, settled + held <= cap"; only a provider that charged more than   *)
(* the worst case can push an account over its cap, and by no more than it *)
(* overcharged.                                                            *)
CapsHold == \A a \in Accounts : Capped(a) => Committed(a) <= CapOfAccount(a) + Overrun(a)

(* No generation that was seen to start is ever given back for free, and   *)
(* unknown spend is charged at the reservation (ledger.py header).         *)
NoFreeGeneration ==
  \A i \in 1..Len(requests) :
    /\ requests[i].upstream_started => requests[i].state # "released"
    /\ requests[i].state \in ChargedStates \ {"settled"} => requests[i].charged = requests[i].inp.worst

(* A job's cap never drifts from the one its rows were admitted under. *)
PinIsStable ==
  \A i \in 1..Len(requests) :
    LET inp == requests[i].inp
    IN  inp.job_id # NoJob => job_caps[<<inp.caller_id, inp.job_id>>] = inp.cap_presented

(* The clock guard: whatever the clock does, also across a restart on a    *)
(* stale RTC, no row is admitted to a period before one already used, nor  *)
(* more than the skew before an earlier row.                               *)
PeriodsNeverReopen ==
  \A i, j \in 1..Len(requests) :
    i < j => /\ Period(requests[i].reserved_at) <= Period(requests[j].reserved_at)
             /\ requests[i].reserved_at - Skew <= requests[j].reserved_at

(* The readiness gate reads a cache, the reservation reads the file: while *)
(* the gateway serves, the gate opens exactly when the reservation's own   *)
(* skew test passes, after any failed write, commit or restart.            *)
GateAgrees ==
  mode = "ready" => (ClockOk <=> (last_commit # NoTime => clock >= last_commit - Skew))

(* A row that left "reserved" is final: no late or duplicate completion,   *)
(* no crash and no boot sweep rewrites what it was charged.                *)
TerminalRowsFinal ==
  [][\A i \in 1..Len(requests) :
       requests[i].state # "reserved" => requests'[i] = requests[i]]_vars

(* The listener never opens on an orphan: a step into "ready" leaves no    *)
(* reserved row behind, whatever the clock said (ledger.py sweep).         *)
NoOrphanAtListen ==
  [][mode # "ready" /\ mode' = "ready" =>
       \A i \in 1..Len(requests') : requests'[i].state # "reserved"]_vars

(* While the latch holds a lane's day, only a reset lets that lane spend   *)
(* more of it, even after a settle freed room under the ceiling.           *)
LatchStopsLane ==
  [][\A l \in Lanes :
       LET latched == brakes[l].tripped_at # NoTime /\ Day(brakes[l].tripped_at) = Day(clock)
       IN  latched /\ ~brakes[l].reset /\ ~brakes'[l].reset =>
             \A a \in Accounts : a[1] = <<"brake", l, Day(clock)>> => held'[a] <= held[a]]_vars

(* docs/specs/gateway.md:168 "trip => that lane answers 402 until 00:00    *)
(* UTC": a latch refuses the day whose ceiling was reached, never a day    *)
(* whose ceiling still has room for every request.                         *)
TripIsForItsOwnDay ==
  [][\A l \in Lanes : brakes'[l].tripped_at # brakes[l].tripped_at =>
       \E inp \in Inputs : inp.lane_used = l /\ ~Fits(BrakeAccount(inp, brakes'[l].tripped_at), inp)]_vars
=============================================================================
