---------------------------- MODULE MeteredLane ----------------------------
(***************************************************************************)
(* The metered lane's circuit breaker (gateway/lanes.py), the requests     *)
(* that read and feed it (service.py route, _fail, _settle) and the idle   *)
(* probe (http.py probe_loop, main.py runs one).                           *)
(*                                                                         *)
(* Everything runs on one event loop: a record_* or probe_* method is      *)
(* atomic, and what interleaves is a request between the route that read   *)
(* the lane and the outcome that writes it, and a probe between the clock  *)
(* it read and the answer it applies.                                      *)
(*                                                                         *)
(* Deadlines (cooling_until, down_until) are kept as the time left, and    *)
(* recorded failures as their age; Tick is the clock.  Stepped clocks,     *)
(* last_ok and the persisted copy of the status are left out: nothing      *)
(* below reads them back (lane_state is not read at boot).                 *)
(*                                                                         *)
(* Operators named X_Bug are X with a plausible mistake.                   *)
(***************************************************************************)
EXTENDS Integers, Sequences

CONSTANTS
  Calls,                \* requests the service may have open
  ConsecutiveFailures,  \* CONSECUTIVE_FAILURES
  FailureWindow,        \* FAILURE_WINDOW_MS
  BackoffBase, BackoffCap,
  MaxEpisodes,          \* the episode from which the backoff is capped
  SpendTimes,           \* resume times a spend-limit answer may name
  ProbeFailDown,        \* PROBE_FAIL_DOWN_MS
  ProbeInterval, ProbeDownInterval,  \* config: the probe's sleep, lane up and down
  ProbeTimeout          \* PROBE_TIMEOUT_S: the longest a probe is awaited

Backoff(episode) ==
  LET doubled == BackoffBase * 2^(episode - 1)
  IN  IF doubled < BackoffCap THEN doubled ELSE BackoffCap

ASSUME LaneConstants ==
  /\ {ConsecutiveFailures, FailureWindow, BackoffBase, BackoffCap, MaxEpisodes,
      ProbeFailDown, ProbeTimeout} \subseteq Nat \ {0}
  /\ {ProbeInterval, ProbeDownInterval} \subseteq Nat \ {0}   \* a zero interval starts no loop
  /\ SpendTimes \subseteq Nat \ {0}
  /\ \A episode \in 1..MaxEpisodes : Backoff(episode) \in 1..BackoffCap
  /\ Backoff(MaxEpisodes) = BackoffCap   \* so counting no further changes nothing

VARIABLES
  up, auth_ok,
  cooling, down,  \* time left to cooling_until and down_until, or Off
  failures,       \* ages of the recorded transport failures, oldest first
  episodes,
  calls,          \* "idle", or "inflight" from route to its outcome
  probe           \* the loop: sleeping for .t more, or asking since .t

lane == <<up, auth_ok, cooling, down, failures, episodes>>
vars == <<up, auth_ok, cooling, down, failures, episodes, calls, probe>>

Off == -ProbeTimeout - 1   \* None: below every time left that is kept apart
TimeLeft == -ProbeTimeout..(BackoffCap + ProbeFailDown)

(* check(now), the boolean half: half-open once a deadline has passed. *)
Eligible ==
  /\ auth_ok
  /\ IF cooling # Off THEN cooling <= 0 ELSE up \/ (down # Off /\ down <= 0)

Init ==
  /\ up = TRUE /\ auth_ok = TRUE
  /\ cooling = Off /\ down = Off
  /\ failures = <<>> /\ episodes = 0
  /\ calls = [c \in Calls |-> "idle"]
  /\ probe = [phase |-> "sleeping", t |-> ProbeInterval]

-----------------------------------------------------------------------------
(* What the lane records.                                                  *)

RecordSuccess_KeepsBackoff ==
  /\ up' = TRUE /\ auth_ok' = TRUE /\ cooling' = Off
  /\ failures' = <<>> /\ UNCHANGED <<down, episodes>>

RecordSuccess ==
  /\ up' = TRUE /\ auth_ok' = TRUE
  /\ cooling' = Off /\ down' = Off
  /\ failures' = <<>> /\ episodes' = 0

(* The new failure appended and those out of the window dropped, which are *)
(* the oldest: the deque is popped from the left while its head is out.    *)
Recent ==
  LET all == Append(failures, 0)
      head == CHOOSE i \in 1..Len(all) :
                all[i] <= FailureWindow /\ \A j \in 1..(i - 1) : all[j] > FailureWindow
  IN  SubSeq(all, head, Len(all))

Trips_OneLate(recent) == Len(recent) > ConsecutiveFailures
Trips(recent) == Len(recent) >= ConsecutiveFailures

NextEpisode == IF episodes < MaxEpisodes THEN episodes + 1 ELSE episodes

RecordTransportFailure ==
  /\ IF Trips(Recent)
     THEN failures' = <<>> /\ up' = FALSE /\ episodes' = NextEpisode /\ down' = Backoff(NextEpisode)
     ELSE failures' = Recent /\ UNCHANGED <<up, down, episodes>>
  /\ UNCHANGED <<auth_ok, cooling>>

RecordAuthFailure ==
  /\ auth_ok' = FALSE /\ up' = FALSE /\ down' = Off
  /\ UNCHANGED <<cooling, failures, episodes>>

RecordSpendLimit(resume) ==
  /\ cooling' = resume /\ up' = FALSE
  /\ UNCHANGED <<auth_ok, down, failures, episodes>>

(* A passing models.list() proves the credential, not the spend limit. *)
ProbeOkRecorded_IsASuccess == RecordSuccess
ProbeOkRecorded_AuthOnly ==
  IF ~auth_ok THEN auth_ok' = TRUE /\ UNCHANGED <<up, cooling, down, failures, episodes>>
  ELSE IF cooling # Off THEN UNCHANGED lane ELSE RecordSuccess
ProbeOkRecorded_IgnoredInCooldown == IF cooling # Off THEN UNCHANGED lane ELSE RecordSuccess
ProbeOkRecorded ==
  IF cooling # Off
  THEN auth_ok' = TRUE /\ UNCHANGED <<up, cooling, down, failures, episodes>>
  ELSE RecordSuccess

(* probe_failed is given the clock read before the probe was sent, `age`   *)
(* ago; "other" is every kind but auth and rate_limited.                   *)
ProbeFailureRecorded(kind, age) ==
  LET expired == down # Off /\ down + age <= 0
  IN  CASE kind = "auth" -> RecordAuthFailure
        [] kind = "other" /\ (up \/ expired) ->
             /\ up' = FALSE /\ down' = ProbeFailDown - age
             /\ UNCHANGED <<auth_ok, cooling, failures, episodes>>
        [] OTHER -> UNCHANGED lane

-----------------------------------------------------------------------------
(* Requests.                                                               *)

Route(c) ==
  /\ calls[c] = "idle" /\ Eligible
  /\ calls' = [calls EXCEPT ![c] = "inflight"]
  /\ UNCHANGED <<lane, probe>>

Ends(c) ==
  /\ calls[c] = "inflight"
  /\ calls' = [calls EXCEPT ![c] = "idle"]
  /\ UNCHANGED probe

Succeed(c) == Ends(c) /\ RecordSuccess
FailTransport(c) == Ends(c) /\ RecordTransportFailure   \* released server or network failure
FailAuth(c) == Ends(c) /\ RecordAuthFailure
FailSpend(c, resume) == Ends(c) /\ RecordSpendLimit(resume)
(* Refused after routing, rate limited, rejected, timed out, aborted, or   *)
(* not settled by the ledger: the lane is not told.                        *)
Forget(c) == Ends(c) /\ UNCHANGED lane

-----------------------------------------------------------------------------
(* The probe loop: the interval is chosen before the sleep.                *)

Sleep == probe' = [phase |-> "sleeping", t |-> IF up' THEN ProbeInterval ELSE ProbeDownInterval]

ProbeWakes ==
  /\ probe.phase = "sleeping" /\ probe.t = 0
  /\ probe' = [phase |-> "asking", t |-> 0]
  /\ UNCHANGED <<lane, calls>>

ProbeOk ==
  /\ probe.phase = "asking"
  /\ ProbeOkRecorded
  /\ Sleep
  /\ UNCHANGED calls

ProbeFails(kind) ==
  /\ probe.phase = "asking"
  /\ ProbeFailureRecorded(kind, probe.t)
  /\ Sleep
  /\ UNCHANGED calls

-----------------------------------------------------------------------------
(* One unit of time: deadlines come nearer and stop mattering once they    *)
(* are as old as the longest probe, failures once out of the window.       *)
Nearer(left) == IF left > -ProbeTimeout THEN left - 1 ELSE left
Older(age) == IF age <= FailureWindow THEN age + 1 ELSE age

ProbeTimeAfterTick ==
  IF probe.phase = "asking" THEN probe.t + 1 ELSE IF probe.t > 0 THEN probe.t - 1 ELSE 0

Tick ==
  /\ probe.phase = "asking" => probe.t < ProbeTimeout
  /\ probe' = [probe EXCEPT !.t = ProbeTimeAfterTick]
  /\ cooling' = Nearer(cooling)
  /\ down' = Nearer(down)
  /\ failures' = [i \in 1..Len(failures) |-> Older(failures[i])]
  /\ UNCHANGED <<up, auth_ok, episodes, calls>>

Next ==
  \/ \E c \in Calls : Route(c)
  \/ \E c \in Calls : Succeed(c)
  \/ \E c \in Calls : FailTransport(c)
  \/ \E c \in Calls : FailAuth(c)
  \/ \E c \in Calls, resume \in SpendTimes : FailSpend(c, resume)
  \/ \E c \in Calls : Forget(c)
  \/ ProbeWakes
  \/ ProbeOk
  \/ \E kind \in {"auth", "rate_limited", "other"} : ProbeFails(kind)
  \/ Tick

(* The clock runs, the event loop wakes a sleeper whose time has come, and *)
(* the provider does not fail every probe for ever.                        *)
Fairness == WF_vars(Tick) /\ WF_vars(ProbeWakes) /\ SF_vars(ProbeOk)

Spec == Init /\ [][Next]_vars
FairSpec == Spec /\ Fairness

-----------------------------------------------------------------------------
(* Properties.                                                             *)

(* Types; a kept deadline is never further than the longest one set. *)
TypeOK ==
  /\ up \in BOOLEAN /\ auth_ok \in BOOLEAN
  /\ cooling \in Int /\ cooling >= Off
  /\ down \in TimeLeft \cup {Off}
  /\ failures \in Seq(0..(FailureWindow + 1)) /\ Len(failures) < ConsecutiveFailures
  /\ episodes \in 0..MaxEpisodes
  /\ calls \in [Calls -> {"idle", "inflight"}]
  /\ probe \in [phase : {"sleeping", "asking"}, t : Nat]
  /\ probe.phase = "asking" => probe.t <= ProbeTimeout

(* A lane that reports up carries no older bad news: no running cooldown,  *)
(* no backoff a later probe failure could find expired and prolong, and a  *)
(* working credential, however requests and probes overlapped.             *)
UpCarriesNoDeadline == up => auth_ok /\ cooling = Off /\ down = Off

(* A down lane always has a way back: with the credential proved and no    *)
(* cooldown there is a deadline after which check() is half-open (a lane   *)
(* down with no deadline would answer 503 "60 s" for ever).                *)
DownHasAWayBack == ~up /\ auth_ok /\ cooling = Off => down # Off

(* lanes.py probe_ok: while the spend-limit cooldown runs no idle probe    *)
(* opens the lane; only an answered generation can.                        *)
NoProbeEndsCooldown ==
  [][cooling > 0 /\ probe.phase = "asking" /\ probe'.phase = "sleeping" => ~Eligible']_vars

(* An ineligible lane is eventually eligible again, also when the key was  *)
(* rotated in the middle of a cooldown.                                    *)
LaneRecovers == ~Eligible ~> Eligible

(* lanes.py:125 and docs/specs/gateway.md:7: only a request that succeeds  *)
(* after the resume time clears a spend-limit cooldown.                    *)
CoolingHolds == [][cooling > 0 => cooling' # Off]_vars

(* docs/specs/gateway.md:278: 3 transport failures in 5 min put the lane   *)
(* down with a backoff during which requests get 503s without reserving.   *)
BackoffHolds == ~up /\ down > 0 => ~Eligible
=============================================================================
