# Formal models of managed-k3s-homelab

The repository runs a small personal cloud: Kubernetes manifests, host recipes, and three
services written for it. The services hold the logic that can go wrong in ways a test hardly
reaches, and they are what this directory models:

| service | source | what it does |
|---|---|---|
| gateway | `services/gateway/src/gateway` (Python) | OpenAI-shaped chat completions over a metered provider, under budgets kept in a SQLite ledger |
| jobs-mcp | `services/jobs-mcp/src` (TypeScript) | a SQLite job queue and the dispatcher that runs jobs on n8n |
| knowledge-mcp | `services/knowledge-mcp/src` (TypeScript) | a full-text index of the repository's documents, rebuilt from GitHub |

All three are one process with one SQLite file on a volume, and deployed with one replica and
the `Recreate` strategy, so two instances never share a file.

## 1. Inventory

**Gateway ledger** (`ledger.py`, `db.py`). State: the `requests` rows (reserved, then one of
settled, released, timeout, aborted, swept), the materialized `scope_totals` (held and settled
micro-dollars of each project-month, caller-day, lane-day and job, on the billed and list basis),
the `job_caps` pins, the `brakes` latches, the last commit timestamp with its in-memory copy and
the value staged inside a transaction. Operations: `preadmit`, `reserve`, `mark_upstream_started`,
`settle`, `finish_without_usage`, `sweep`, `recompute_totals`, `reset_brake`, `clock_ok`. Called
from worker threads under one mutex. Correct when no cap is exceeded, the totals are the sums of
the rows, closed rows stay closed, unknown spend is charged, and no stepped clock reopens a month.

**Gateway boot and shutdown** (`main.py`). Opens and checks the file, sweeps orphans, recomputes,
then listens; SIGTERM cancels the coroutines. Correct when nothing is served before the sweep.

**Gateway request service** (`service.py`, `upstream.py`). State: one coroutine per request (its
attempt, whether `message_start` was seen). It reserves, calls the provider, retries at most once,
and closes its row on success, failure, timeout or cancellation; ledger writes run on worker
threads and outlive the coroutine that asked for them. Correct when money given back was never
spent, one reservation buys at most one generation, and every row closes.

**Gateway metered lane** (`lanes.py`, `probe_loop` in `http.py`). State: up, auth_ok, cooldown and
backoff deadlines, the recent transport failures, the episode count; an idle probe. Read when a
request is routed, written when it ends. Correct when flags and deadlines agree, a probe never ends
a spend-limit cooldown, and a lane that is down can come back.

**Gateway money** (`money.py`). Pure: prices, ceilings, worst case, affordable tokens. Correct when
a settlement within the reserved tokens fits the reservation.

**Gateway surface** (`http.py`, `registry.py`, `config.py`, `openai_compat.py`, `metrics.py`, ...).
Parsing, access classes and views; no state but what the parts above hold.

**jobs-mcp queue** (`queue.ts`, `db.ts`). State: jobs (queued, running, succeeded, failed,
canceled), attempts, `not_before`. Operations: enqueue, claim, succeed, fail, requeue on a
bridge outage (the attempt is given back), cancel, boot sweep. Correct when attempts are bounded and
neither lost nor doubled, a terminal job stays terminal, a crash reruns or fails each running job.

**jobs-mcp dispatcher** (`dispatcher.ts`, `index.ts`). State: the dispatches awaited, the bridge's
failure count and its backoff, an idle probe. A timer's ticks claim while earlier dispatches await n8n;
SIGTERM drains. Correct when concurrency is bounded, gauge and backoff agree, and queued work is drained.

**knowledge-mcp store, re-ingest, chunker** (`store.ts`, `reingest.ts`, `ingest.ts`, `chunker.ts`).
State: documents with versions and tombstones, chunks and FTS rows, the commit a corpus was applied
at. Correct when chunks, FTS rows and neighbours agree, a partial failure never records a commit it
did not apply, and deleted documents are tombstoned but not on a broken listing.

**Servers and tools of both MCP services, n8n workflows, manifests, Terraform, host recipes**: I/O,
rendering and declarative configuration.

How they interact: agents enqueue jobs (jobs-mcp) that n8n executes, some of which call the gateway
with `X-Job-Id`, which is the job scope of the ledger; an n8n schedule calls knowledge-mcp's
`reingest`. The services share no state; inside one, the parts interact as below.

    request -> service.prepare -> lane.check -> ledger.preadmit/reserve -> provider
            -> ledger.mark / settle / finish -> lane.record_*          probe_loop -> lane.probe_*
    crash/SIGTERM -> boot: open, sweep, recompute -> listen

Where it is hard: worker-thread writes that land after their request timed out; a provider that
keeps generating after the gateway gave up; COMMIT failing after memory was staged; a clock that is
stepped or starts on a stale RTC; days and months ending between two reads of it; the probe applying
an answer up to 15 s old; shutdown at every await; crash between reserve and settle. `PROJECT.json`
lists each hazard at its line with the properties that watch it.

## 2. Modules

| module | models |
|---|---|
| `Ledger` | `ledger.py`'s state-changing methods, the boot of `main.py`, crash and clock |
| `Sums` | sums over the first n rows, as a recursive function |
| `Budget`, `LedgerRefinement` | the promise of one capped account, without counters, and the ledger seen as it |
| `MeteredLane` | the circuit breaker, concurrent requests and the idle probe |
| `GatewayService` | `Ledger` composed with the request coroutines, their worker threads, the provider, SIGTERM, crash and restart |
| `Money`, `Admission` | `money.py`'s integer arithmetic; one request after another through floor, estimate, reserve and settle |
| `JobQueue` | `queue.ts`: the jobs table and what each method does to a row |
| `JobPromise` | the promise of one job, without queue, process or clock |
| `Dispatcher` | `dispatcher.ts` and `index.ts` over `JobQueue`: claims, awaits, bridge, probe, drain, crash, boot |
| `KnowledgeStore` | `store.ts`: documents, their rows, the chunker stamp and the recorded commit |
| `Reingest` | `reingest.ts`, `ingest.ts`, `index.ts` over `KnowledgeStore`: overlapping calls, a moving `main`, re-chunk, crash, boot |
| `MC*` | small instances of the above |
| `SumsProofs`, `LedgerProofs`, `LedgerRefinementProofs`, `MeteredLaneProofs`, `GatewayServiceProofs`, `AdmissionProofs`, `DispatcherProofs`, `ReingestProofs` | theorems |

**Ledger.** The mutex and `BEGIN IMMEDIATE` make every method one action. An account is a pair
`<<scope, basis>>`, a row of `scope_totals`. `Reserve` carries every guard of `_reserve_locked` in
one conjunction; a refusal that writes nothing is no action, and the one refusal that writes (the
daily ceiling) is `TripBrake`, with the second clock read it makes. `Finish` is
`finish_without_usage` with its rule that a started row is never released. `pending`,
`commit_cache` and `last_commit` are the three copies of the timestamp; `WriteFails` is a failed
statement or COMMIT. Rows keep the instant of their reservation, from which period and day follow.
Amounts are naturals: what a price costs is `money.py`'s business, what the ledger does is add them.

**MeteredLane.** Deadlines are the time left (or `Off`, the `None`), failures are ages, `Tick` is
the clock, so no bound on absolute time is needed. A request reads the lane in `Route` and writes it
when it ends; a probe waits in phase "asking" for up to `ProbeTimeout` and applies its answer with
the clock it read before. The backoff doubles until the cap, so counting episodes stops there.

**GatewayService.** A task is one request's coroutine. `sent` and `billed` are the provider's: calls
it accepted and calls it generated for. It is external, and taken to bill from the start of a
generation (seen or not), and not to generate for an error status or a refused connection: that is
what `UpstreamFailure.proves_no_generation` relies on. `marks` holds a `mark_upstream_started`
whose coroutine is gone. "stranded" is a coroutine over with its row left to the next boot. Around
the tasks the clock is stepped (`ClockSteps`), a further request is refused at the ceiling and latches
the lane (`CeilingRefuses`), and an operator resets the latch (`BrakeResets`).

**Money, Admission.** `Micro` is `MICRO`, a constant, so that a small instance rounds as often as
the real one. An `Admission` behaviour is a sequence of requests: `Preadmits` prices the floor,
`Counts` is `count_tokens` with its margin and `CountFails` the fallback by bytes, `Reserves` repeats
the test, `Settles` takes any usage. A refused caller may ask again with what it was offered.

**JobQueue, Dispatcher.** A job's number is the order of its ULID (the clock is not stepped back
between two enqueues), so the sequence of rows is the table in id order. `not_before` is the time
left. A row's operation is a set of outcomes (`Requeued` has one per jitter), the dispatcher picks
one. A dispatch is a slot: "posting" until the response headers, "reading" until the body, and
"removed" when its task type left the registry. `Answer` is everything n8n may answer; a connection
lost while the body streams is charged to the job (`internal_dispatch_error`), not to the bridge.
`awaited` is the snapshot `drain` takes. Of the error column only the terminal codes are kept. A claim
reverted because the bridge is down does not consume its attempt, so an outage may repeat it any
number of times. A probe interval of 0, which starts no probe, is left out.

**KnowledgeStore, Reingest.** A document is a path, a content its sha256, its rows the content and
chunker version they were cut from. One corpus; titles, `source_commit` and timestamps are left out.
A call holds the listing it was given ("listed"), then fetches one document after the other
("sweeping") and applies each ("applying"); between any two of these others run, `main` moves, or the
process dies. `alone` is history: whether another call ever overlapped this one. GitHub is external
and answers from `main` as it then is. `Boot` deploys a release, `Rechunks` is `rechunkIfStale` for one
document, `Stamps` its last write.

Operators named `X_Something` next to an `X` are `X` with a plausible mistake: the properties must
fail with them, which is checked for every property of every run.

## 3. Runs

| run | bounds | shows |
|---|---|---|
| `ledger_clock` | 5 instants, days of 2, months of 2 days, skew 1, 2 rows that each fill the ceiling | `TotalsMatchRows`, `PeriodsNeverReopen`, `GateAgrees`, `NoOrphanAtListen`, `LatchStopsLane` under any clock, failed writes, crashes |
| `ledger_budget` | one instant, 3 rows from a job with two presented caps and a plain request of another project, charges of 0 or 2 for reservations of 1 or 2 | `CapsHold`, `NoFreeGeneration`, `PinIsStable`, `TerminalRowsFinal`, `TotalsMatchRows`, `TypeOK`, and `EveryAccountIsABudget`: every account with a fixed cap is a `Budget` |
| `lane` | 2 requests, window 3, backoff 1 then 2, cooldowns 2 and 3, probe every 3 (1 when down) answered within 1 | `UpCarriesNoDeadline`, `DownHasAWayBack`, `NoProbeEndsCooldown`, `LaneRecovers` |
| `service` | 2 tasks, one instant, a ceiling that takes two worst cases and refuses a third | `FreeMeansUngenerated`, `OneGenerationPerRow`, `RetryNeverDoublesSpend`, `EveryRowCloses` |
| `money` | prices that round on every component, caps from below the floor's price to above the estimate's, 1 to 4 output tokens | `SettlesWithinReservation`, `OfferIsExact`, `FloorRefusesOnlyHopeless` |
| `jobs` | 2 jobs (urgent keyed with 1 attempt, plain with 2), 2 dispatches, backoffs up to 2, 2 process ends, registries with both, one and no task type | `AttemptsWithinBudget`, `DispatchOwnsRow`, `ProbeRunsAlone`, `NoOvertaking`, `CleanExitSeversNothing`, `EveryJobKeepsPromise` (refines `JobPromise`), `EveryJobEnds`, `OutageEnds`, `TypeOK` |
| `knowledge` | 2 documents, 2 contents, trees with both, one and none, 2 commits, 2 calls, releases (chunker 1, public) and (chunker 2, internal), 2 process ends | `ChunksMatchDoc`, `ServedRowsAreCurrent`, `UndisturbedSweepMirrorsMain`, `OnlyVanishedDocsLeave`, `IndexCatchesUp`, `TypeOK` |
| `ledger_midnight`, `lane_cooling`, `lane_backoff`, `service_retry`, `knowledge_commit` | as above | the disagreements of section 5 |

Why these bounds are enough: with five instants a run crosses a day and a month in both directions
and the skew both ways; two rows are the least that can be ordered, latched against each other, or
swept together; three rows with caps of 2, 3 and 4 meet every cap exactly, one below and one above.
A latched lane needs only one request that fills it. In the lane, two requests and a probe are all
the pairs that can overlap, and each duration is short enough that every deadline can fall before,
at and after every other. In the service two tasks exercise the sharing of the ledger and the
provider, and their two rows fill the ceiling, so that the latch falls at every point of the other
request's life; with one instant a step of the clock changes nothing, and more tasks, more instants
and other caps are the proofs' business. Two jobs of different urgency and
attempts fill both slots, order against each other, and leave one attempt to retry; two restarts let
an orphan be swept into its last attempt and orphaned again. Two calls are all overlapping pairs; two
commits are a `main` that moves once, before, during or after them; two restarts let a crash fall
into the re-chunk of an upgrade and then into the next. The money run's caps lie around every price
it can quote. `CHECK_DEADLOCK` stays on.

**Fairness.** Lane: the clock runs (`WF Tick`), the loop wakes a sleeper whose time has come
(`WF ProbeWakes`), and the provider does not fail every probe for ever (`SF ProbeOk`: the
assumption under which a lane can be expected back at all). Nothing is assumed of requests.
Service: a coroutine with something to do does it or times out (`WF Progress`: a worker thread
ends its write or fails it, and `asyncio.wait_for` bounds every call), and Kubernetes restarts the
container (`WF Restart`). Neither the provider, SIGTERM nor a crash is fair. `EveryRowCloses` excuses a stranded row, whose write failed or which a shutdown
left between its reserve and `execute`'s first step, since nothing closes it until a boot that may never come.

Jobs: the clock runs and the container restarts; every await is bounded (`AbortSignal.timeout`, the
grace period), so a dispatch moves (`WF DispatchMoves`) and a drain ends; the loop's timer fires 120
times between two probes, so a job due whenever no probe runs is claimed (`SF Claim`); and n8n is not
unreachable for ever (`SF Answer` for each job, `SF ProbeReaches`). Callers, SIGTERM, crash and disk
are not fair. `EveryJobEnds` assumes that deployments do not leave the registry empty for good, and
excuses a row whose last write failed twice: it stays running until a boot that may never come
(`Stuck`, `dispatcher.ts:164-166`).

Knowledge: the container restarts, a schedule calls reingest again and again (`SF Lists`), fetches
are bounded, and GitHub and the disk do not fail the same document in every sweep (`SF Fetches`,
`SF Applies`, `SF Ends`). Pushes, deployments and crashes are bounded, not fair: `IndexCatchesUp` is
about what happens once they stop.

## 4. Proofs

For every value of the constants (callers, caps, inputs, clocks, numbers of rows and tasks):

* **Ledger types and totals.** `TypeOK /\ TotalsMatchRows` is inductive: each method moves the
  counters by what it changes in the rows (`CloseRowTotals`, `SweepSums`). The sums are recursive
  functions; their laws (append, update, zero) are lemmas of `SumsProofs`, by induction on the
  length of the table.
* **Caps** (`CapsAlwaysHold`). Inductive with the types: admission fits (`AdmittedFits`), a close
  moves held to settled, and whatever it settles above its reservation is in `Overrun`.
* **Rows** (`ClosedRowsAreFinal`, `NothingStartedIsFree`, `JobCapsNeverDrift`). One lemma,
  `NextRows`, says what a step may do to each row; the theorems follow from it.
* **Clock** (`SpentPeriodsStayClosed`). Not inductive alone: it needs that `last_commit` is at or
  above every reservation's instant (`HighWater`), which is why a reserve must touch it.
* **Gate** (`GateAlwaysAgrees`). Needs that the cache equals the durable value whenever the gateway
  serves, and that nothing staged survives into a transaction that does not stage it again.
* **Boot and latch** (`ListenerFindsNoOrphan`, `LatchedLanesStop`). Only a boot enters "ready"; only
  a reservation raises what an account holds, and a latched lane admits none.
* **Books over a restart** (`NoBootIsBlocked`, `RestartsStrandNothing`, `NoCounterGoesNegative`,
  `SpendIsNeverTakenBack`). From the totals: after the sweep every row is closed, so the sums over
  the open rows are sums of zeros, and `recompute_totals` finds what the methods left.
* **Pins** (`RefusalsPinNothing`, `PinsAreForever`). A cap is pinned exactly for the jobs that have a
  row; that is inductive because the pin and the row are written by one transaction.
* **Caps without the allowance** (`CapsAreAbsolute`). `CapsHold` allows an account to exceed its cap by
  the overruns of its rows; while no settlement exceeds its reservation those are zero, and
  `settled + held <= cap` holds as `test_properties.py` words it.
* **Latches** (`OnlyMidnightMistrips`). The counterpart of finding `TripIsForItsOwnDay`: a refusal that
  starts and ends in one UTC day latches only a ceiling its own request does not fit.
* **Lane** (`UpIsAlwaysClean`, `NeverStrandedDown`). From one invariant over flags and deadlines,
  with any number of requests and a probe of any age.
* **Service** (`ServiceTypeCorrect`, `FreeIsUngenerated`, `OneGeneration`, `RetriesAreFree`). The
  safety properties are not inductive: `TaskInv` adds that a task that may still call the
  provider has not been generated for, that a released row belongs to a coroutine that is over, and
  that an outcome of "released" or an invitation to retry goes with a count of zero. The ledger's
  part enters only as `ReleasesOnly`: which rows a write may release.
* **Service over ledger** (`ServiceImplementsLedger`). Each step of the composition is a ledger step or
  leaves the tables alone; with it every promise and refinement of the ledger becomes one of the
  running service (`ServiceKeepsLedgerPromises`, `ServiceKeepsBudgets`, `ServiceKeepsTheBooks`), under a
clock that steps both ways and latches that come and go.
* **Ownership of rows** (`RunningTasksOwn`, `NoRowIsForgotten`, `AnswersCloseTheirRows`). `OwnersInv`
  says what each task's place in the code implies for its row, that rows have one owner, and that an
  open row of a serving gateway has one. The second theorem is the safety half of `EveryRowCloses`;
  the third bounds the finding `OnlyReleasedInvitesRetry` to requests whose write failed.
* **Ledger refinement** (`LedgerImplementsBudgets`). The entries of an account are its rows; their
  sum is the counter (`EntriesAddUp`, from `TotalsMatchRows`), so the compare-and-add is the guard of
  `Budget`. Admit, Close and Recover are `Reserve`, `CloseRow` and `Sweep` seen through one account.
  `JobsAreBudgets` does the same for the jobs' accounts, whose cap is the pin of the first request.
* **Lane types and probes** (`LaneTypeCorrect`, `ProbesWaitForSpend`). The window is a suffix that ends
  in the new failure; a probe's answer never moves a running cooldown. `OnlyOpenRequestsEndCooling`
  is what remains of finding `CoolingHolds`: with no request in flight a cooldown runs its time.
  `OnlyRecentFailuresTrip` rests on the window being ordered by age, so that one cut removes exactly
  the stale failures.
* **Money** (`SettlementsAreCovered`, `OffersAreExact`, `FloorIsSafe`). Lemmas on ceilings and floors
  (`CeilBound`, `FloorBound`), then monotone costs; the offer is exact because what a floor division
  yields fits and one more does not.
* **Jobs** (`BudgetHolds`, `OwnersHold`, `ProbesAreAlone`, `OrderHolds`, `DrainSeversNothing`,
  `JobsKeepPromise`). The invariant has two halves: the table is typed and within its budget, and
  each awaited dispatch owns a running row in its own attempt, with nothing in flight when the
  process is down and every dispatch of a drain awaited by it. `TableMoves` says once what any step
  may do to a row; the refinement follows from it row by row, and so does `KeysAreForever`.
* **Who ends a running row** (`OnlyTheDiskStrandsJobs`, `RowsRunWithinConcurrency`,
  `CleanDeploysTakeNothing`). While the last write of a dispatch succeeds, running rows and dispatches
  correspond; so there are no more of them than slots (by an injection of rows into slots), and after a
  drain that ended in time there are none, so that the boot sweep changes nothing
  (`dispatcher.ts:122-131`, "a deploy must not consume an attempt").
* **Outages and waits** (`OutagesHaveAWatcher`, `EveryWaitEnds`). The safety halves of `OutageEnds` and
  `EveryJobEnds`: an outage is held only by a process that serves with a registry, so one that claims or
  probes; and no row's `not_before` is ever further ahead than the longest backoff and its jitter.
* **Knowledge** (`RowsMatchDocs`, `OnlyVanishedLeave`, `ServedRowsHold`, `UndisturbedMirrors`).
  `UndisturbedMirrors` needs what a lone call has done so far: documents still to do, and those applied
  as the tip has them.
* **Re-chunks and releases** (`OnlyBackToTheStampMixesRows`). `RowsInv`: while the stamp is the deployed
  version every row is of it, a process that serves is in that case, and a re-chunk has brought every
  document it is done with to the deployed version. Deployments may go to any version, older ones too, except to the
  stamped one while a re-chunk away from it is unfinished. `ServedRowsHold` is the case `~CanRollBack`.
* **Recorded commits** (`LoneSweepsAreRecent`, `NothingIsInvented`). What remains of the claim finding
  `RecordedCommitIsApplied` refutes: a sweep that had the corpus to itself leaves nothing older than
  the commit it records; and under any overlap every live document's content was once on `main`.

Assumptions: the named `ASSUME`s of the modules, which the runs evaluate, and in six theorems a
hypothesis on the behaviour. Without it TLC finds a counterexample on the run's instance (with
`CanRollBack = TRUE` for the first two, with one slot for `RowsRunWithinConcurrency`):

| Hypothesis | Theorem | What it excludes |
|---|---|---|
| `~CanRollBack` | `ServedRowsHold` | releases that go back |
| `NeverBackToTheStamp` | `OnlyBackToTheStampMixesRows` | the one deployment `rechunkIfStale` cannot see |
| `CoveredSettlements` | `CapsAreAbsolute` | a provider that reports more than was priced (`SettlementsAreCovered` says when it cannot) |
| `CatchWrites` | `OnlyTheDiskStrandsJobs`, `RowsRunWithinConcurrency` | a database that refuses even the write of the dispatch's catch |
| `CatchWrites`, `CleanStops` | `CleanDeploysTakeNothing` | that, a crash, and a drain longer than the grace period |

Every safety and action property and both refinements the passing runs check are proved. The theorems
beyond them (those whose property no run names) were checked by TLC on the same instances before they
were proved. Model-checked only, since TLAPS proves no liveness: `EveryRowCloses`, `LaneRecovers`, `EveryJobEnds`, `OutageEnds`,
`IndexCatchesUp`. What is safety in them (an open row has an owner, a lane that is down a way back, a
running job a dispatch, a wait an end, an outage a watcher) is proved above.

## 5. Disagreements found between code and its documentation

* `TripIsForItsOwnDay`: a ceiling refusal that straddles 00:00 UTC latches the new day, whose
  ceiling is untouched (`ledger.py:500`, `docs/specs/gateway.md:168`).
* `CoolingHolds`: a request admitted before a spend limit clears the running cooldown when it
  succeeds (`lanes.py:85` against `lanes.py:125` and `docs/specs/gateway.md:7`).
* `BackoffHolds`: a cooldown in the past hides the backoff that `CONSECUTIVE_FAILURES` transport
  failures set after it, and requests reserve during it (`lanes.py:70`, `docs/specs/gateway.md:278`).
* `OnlyReleasedInvitesRetry`: an answer stays retryable when the release could not be written and
  the row is still reserved (`service.py:562` against `service.py:541`). No money is spent
  twice (`RetryNeverDoublesSpend`), but the next boot charges the row.
* `RecordedCommitIsApplied`: a push between a sweep's listing and its fetches leaves content of the
  later commit under the listed one's name (`reingest.ts:134` against `reingest.ts:130-132`). A later
  sweep heals it (`IndexCatchesUp`); until then the recorded commit is not what the index holds.

Four of them have a positive counterpart that says how far the disagreement reaches:
`OnlyMidnightMistrips`, `OnlyOpenRequestsEndCooling`, `AnswersCloseTheirRows`, `LoneSweepsAreRecent`.

Three observations the runs do not contain. The floor of `service.py:61` is a lower bound of what
`count_tokens` leads to, not of the fallback by bytes: a request of a few bytes may be refused at
the floor that the fallback would have admitted (`FloorRefusesOnlyHopeless` is about the count). And
a boot re-chunk that is cut short, followed by a rollback to the image whose version is still
stamped, serves the rows of both chunkers: `rechunkIfStale` finds the stamps equal (`store.ts:77`),
although `db.ts:3-5` says that "a one-step image rollback must reopen the DB safely".
With `CanRollBack = TRUE` in `MCReingest.cfg`, `ServedRowsAreCurrent` fails, and
`OnlyBackToTheStampMixesRows` proves that nothing else can make it fail. Last, `http.py:515` and
`docs/specs/gateway.md:184` have a lane that is down probed every 60 s; the interval is chosen before
the sleep, so the first probe of an outage may come as late as the 5 minutes of a lane that is up.

## 6. Not modelled, and why

Registry caps are constants: a redeploy with lower caps can leave an account above its new cap by
design. The lane's clock is not stepped, and its persisted copy (`lane_state`) is read by no
decision. Concurrent `preadmit` and `count_tokens` add no state. In the service a boot succeeds
(`BootFails` is the ledger's alone). `EveryRowCloses` excuses the rows that only a boot can close:
those whose write failed and those whose reserve or stream was cancelled under way
(`NoRowIsForgotten` proves that there are no others).

`JobQueue` keeps neither payloads nor results, `Reingest` neither several corpora (they share no row)
nor a CDN that answers with an older `main`. The chunker is a pure function of one document, character
by character; the models only need that rows are determined by content and version. Full-text search
is SQLite's. `registry.py`, `config.py` and the registries of the MCP services are read once at boot:
constants here. `openai_compat.py`, the MCP tools' parsing and rendering, metrics, logs, USD parsing
and display keep no state. The provider SDK, n8n, GitHub and SQLite itself are outside; SQLite is taken
to make a transaction atomic and durable once COMMIT returns.

Flux and the manifests contribute one fact: one replica at a time.

## 7. Plan

Done: all modules of section 2 with their runs and proofs, and what the findings leave true. Left, in
this order:

1. The chunker against a reference definition (blocks cover the document in order, no chunk exceeds
   its limit), if its character-level scanning can be abstracted without losing what it decides.
2. `openai_compat.py`'s mapping of message lists, for the order and pairing of tool calls.
3. Releases that roll back, once the code decides what a re-chunk cut short should mean for them.
