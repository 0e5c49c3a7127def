------------------------- MODULE MeteredLaneProofs -------------------------
(***************************************************************************)
(* Proofs about MeteredLane, for any number of requests, any failure       *)
(* count and window, and any backoffs, cooldowns and probe intervals.      *)
(***************************************************************************)
EXTENDS MeteredLane, SumsProofs, TLAPS

(* The part of the types the two invariants need. *)
Deadlines ==
  /\ cooling \in Int /\ cooling >= Off
  /\ down \in Int /\ down >= Off
  /\ episodes \in 0..MaxEpisodes
  /\ probe \in [phase : {"sleeping", "asking"}, t : Nat]
  /\ probe.phase = "asking" => probe.t <= ProbeTimeout

LaneInv == Deadlines /\ UpCarriesNoDeadline /\ DownHasAWayBack

USE LaneConstants

LEMMA BackoffIsADeadline ==
  ASSUME NEW episode \in 1..MaxEpisodes
  PROVE  Backoff(episode) \in Int /\ Backoff(episode) > Off
BY DEF Off

LEMMA NearerKeepsOff ==
  ASSUME NEW left \in Int, left >= Off
  PROVE  Nearer(left) \in Int /\ Nearer(left) >= Off /\ (Nearer(left) = Off <=> left = Off)
<1>1. ProbeTimeout \in Nat
  OBVIOUS
<1>2. QED
  BY <1>1 DEF Nearer, Off

(* An answered request or probe: the clock and the sleeping loop aside,    *)
(* what the lane records keeps its flags and its deadlines consistent.     *)
LEMMA RecordedInv ==
  ASSUME LaneInv, RecordSuccess \/ RecordTransportFailure \/ RecordAuthFailure
                  \/ (\E resume \in SpendTimes : RecordSpendLimit(resume)) \/ UNCHANGED lane
  PROVE  /\ UpCarriesNoDeadline' /\ DownHasAWayBack'
         /\ cooling' \in Int /\ cooling' >= Off
         /\ down' \in Int /\ down' >= Off
         /\ episodes' \in 0..MaxEpisodes
<1> USE DEF LaneInv, Deadlines, UpCarriesNoDeadline, DownHasAWayBack
<1>1. CASE RecordSuccess
  BY <1>1 DEF RecordSuccess, Off
<1>2. CASE RecordTransportFailure
  <2>1. NextEpisode \in 1..MaxEpisodes
    BY DEF NextEpisode
  <2>2. Backoff(NextEpisode) \in Int /\ Backoff(NextEpisode) > Off
    BY <2>1, BackoffIsADeadline
  <2>3. CASE Trips(Recent)
    <3>1. /\ up' = FALSE /\ episodes' = NextEpisode /\ down' = Backoff(NextEpisode)
          /\ UNCHANGED <<auth_ok, cooling>>
      BY <1>2, <2>3 DEF RecordTransportFailure
    <3>2. QED
      BY <2>1, <2>2, <3>1 DEF Off
  <2>4. CASE ~Trips(Recent)
    <3>1. UNCHANGED <<up, auth_ok, cooling, down, episodes>>
      BY <1>2, <2>4 DEF RecordTransportFailure
    <3>2. QED
      BY <3>1
  <2>5. QED
    BY <2>3, <2>4
<1>3. CASE RecordAuthFailure
  BY <1>3 DEF RecordAuthFailure, Off
<1>4. ASSUME NEW resume \in SpendTimes, RecordSpendLimit(resume)
      PROVE  /\ UpCarriesNoDeadline' /\ DownHasAWayBack'
             /\ cooling' \in Int /\ cooling' >= Off
             /\ down' \in Int /\ down' >= Off
             /\ episodes' \in 0..MaxEpisodes
  BY <1>4 DEF RecordSpendLimit, Off
<1>5. CASE UNCHANGED lane
  BY <1>5 DEF lane
<1>6. QED
  BY <1>1, <1>2, <1>3, <1>4, <1>5

LEMMA NextLaneInv == LaneInv /\ [Next]_vars => LaneInv'
<1> SUFFICES ASSUME LaneInv, [Next]_vars PROVE LaneInv'
  OBVIOUS
<1> DEFINE Recorded == /\ UpCarriesNoDeadline' /\ DownHasAWayBack'
                       /\ cooling' \in Int /\ cooling' >= Off
                       /\ down' \in Int /\ down' >= Off
                       /\ episodes' \in 0..MaxEpisodes
<1>1. ASSUME Recorded, UNCHANGED probe PROVE LaneInv'
  BY <1>1 DEF LaneInv, Deadlines
<1>2. ASSUME Recorded, Sleep PROVE LaneInv'
  BY <1>2 DEF LaneInv, Deadlines, Sleep
<1>3. ASSUME NEW c \in Calls, Succeed(c) \/ FailTransport(c) \/ FailAuth(c) \/ Forget(c)
      PROVE  LaneInv'
  <2>1. Recorded
    BY <1>3, RecordedInv DEF Succeed, FailTransport, FailAuth, Forget
  <2>2. UNCHANGED probe
    BY <1>3 DEF Succeed, FailTransport, FailAuth, Forget, Ends
  <2>3. QED
    BY <1>1, <2>1, <2>2
<1>4. ASSUME NEW c \in Calls, NEW resume \in SpendTimes, FailSpend(c, resume) PROVE LaneInv'
  <2>1. Recorded
    BY <1>4, RecordedInv DEF FailSpend
  <2>2. UNCHANGED probe
    BY <1>4 DEF FailSpend, Ends
  <2>3. QED
    BY <1>1, <2>1, <2>2
<1>5. ASSUME NEW c \in Calls, Route(c) PROVE LaneInv'
  <2>1. Recorded
    BY <1>5, RecordedInv DEF Route
  <2>2. QED
    BY <1>1, <1>5, <2>1 DEF Route
<1>6. CASE ProbeWakes
  <2>1. Recorded
    BY <1>6, RecordedInv DEF ProbeWakes
  <2>2. QED
    BY <1>6, <2>1 DEF ProbeWakes, LaneInv, Deadlines
<1>7. CASE ProbeOk
  <2>1. Recorded
    <3>1. CASE cooling = Off
      BY <1>7, <3>1, RecordedInv DEF ProbeOk, ProbeOkRecorded
    <3>2. CASE cooling # Off
      BY <1>7, <3>2 DEF ProbeOk, ProbeOkRecorded, LaneInv, Deadlines, UpCarriesNoDeadline, DownHasAWayBack
    <3>3. QED
      BY <3>1, <3>2
  <2>2. QED
    BY <1>2, <1>7, <2>1 DEF ProbeOk
<1>8. ASSUME NEW kind \in {"auth", "rate_limited", "other"}, ProbeFails(kind) PROVE LaneInv'
  <2>1. probe.t \in Nat /\ probe.t <= ProbeTimeout
    BY <1>8 DEF ProbeFails, LaneInv, Deadlines
  <2>2. \/ RecordAuthFailure
        \/ UNCHANGED lane
        \/ up' = FALSE /\ down' = ProbeFailDown - probe.t /\ UNCHANGED <<auth_ok, cooling, failures, episodes>>
    BY <1>8, Zenon DEF ProbeFails, ProbeFailureRecorded
  <2>3. Recorded
    <3>1. CASE RecordAuthFailure \/ UNCHANGED lane
      BY <3>1, RecordedInv
    <3>2. CASE up' = FALSE /\ down' = ProbeFailDown - probe.t /\ UNCHANGED <<auth_ok, cooling, failures, episodes>>
      BY <2>1, <3>2 DEF LaneInv, Deadlines, UpCarriesNoDeadline, DownHasAWayBack, Off
    <3>3. QED
      BY <2>2, <3>1, <3>2
  <2>4. QED
    BY <1>2, <1>8, <2>3 DEF ProbeFails
<1>9. CASE Tick
  <2>1. /\ cooling' \in Int /\ cooling' >= Off /\ (cooling' = Off <=> cooling = Off)
        /\ down' \in Int /\ down' >= Off /\ (down' = Off <=> down = Off)
    <3>1. cooling' = Nearer(cooling) /\ down' = Nearer(down)
      BY <1>9 DEF Tick
    <3>2. QED
      BY <3>1, NearerKeepsOff DEF LaneInv, Deadlines
  <2>2. Recorded
    BY <1>9, <2>1 DEF Tick, LaneInv, Deadlines, UpCarriesNoDeadline, DownHasAWayBack
  <2>3. /\ ProbeTimeAfterTick \in Nat
        /\ probe.phase = "asking" => ProbeTimeAfterTick <= ProbeTimeout
    BY <1>9 DEF Tick, ProbeTimeAfterTick, LaneInv, Deadlines
  <2>4. QED
    BY <1>9, <2>2, <2>3 DEF Tick, LaneInv, Deadlines
<1>10. CASE UNCHANGED vars
  BY <1>10 DEF vars, LaneInv, Deadlines, UpCarriesNoDeadline, DownHasAWayBack
<1>11. QED
  BY <1>3, <1>4, <1>5, <1>6, <1>7, <1>8, <1>9, <1>10 DEF Next

LEMMA InitLaneInv == Init => LaneInv
BY DEF Init, LaneInv, Deadlines, UpCarriesNoDeadline, DownHasAWayBack, Off

(* However requests and probes overlap, a lane that reports up has a       *)
(* proved credential and no deadline left over.                            *)
THEOREM UpIsAlwaysClean == Spec => []UpCarriesNoDeadline
<1>1. LaneInv => UpCarriesNoDeadline
  BY DEF LaneInv
<1>2. QED
  BY <1>1, InitLaneInv, NextLaneInv, PTL DEF Spec

(* A lane that is down with a working credential and no cooldown always    *)
(* has a deadline after which a request may try it.                        *)
THEOREM NeverStrandedDown == Spec => []DownHasAWayBack
<1>1. LaneInv => DownHasAWayBack
  BY DEF LaneInv
<1>2. QED
  BY <1>1, InitLaneInv, NextLaneInv, PTL DEF Spec

-----------------------------------------------------------------------------
(* A probe sent during a spend-limit cooldown, whatever it is answered and *)
(* whatever requests and later cooldowns do while it is awaited, leaves    *)
(* the lane ineligible if the cooldown still runs when it is applied.      *)
LEMMA ProbeLeavesCooldown ==
  ASSUME LaneInv, [Next]_vars, cooling > 0, probe.phase = "asking", probe'.phase = "sleeping"
  PROVE  ~Eligible'
<1> USE DEF LaneInv, Deadlines
<1> SUFFICES cooling' = cooling
  BY DEF Eligible, Off
<1>1. probe' # probe
  OBVIOUS
<1>2. CASE ProbeOk
  BY <1>2 DEF ProbeOk, ProbeOkRecorded, Off
<1>3. ASSUME NEW kind \in {"auth", "rate_limited", "other"}, ProbeFails(kind)
      PROVE  cooling' = cooling
  <2>1. RecordAuthFailure \/ UNCHANGED lane \/ UNCHANGED cooling
    BY <1>3, Zenon DEF ProbeFails, ProbeFailureRecorded
  <2>2. QED
    BY <2>1 DEF RecordAuthFailure, lane
<1>4. ASSUME NEW c \in Calls,
             \/ Route(c) \/ Succeed(c) \/ FailTransport(c) \/ FailAuth(c) \/ Forget(c)
             \/ \E resume \in SpendTimes : FailSpend(c, resume)
      PROVE  UNCHANGED probe
  BY <1>4 DEF Route, Succeed, FailTransport, FailAuth, Forget, FailSpend, Ends
<1>5. CASE ProbeWakes
  BY <1>5 DEF ProbeWakes
<1>6. CASE Tick
  BY <1>6 DEF Tick
<1>7. CASE UNCHANGED vars
  BY <1>1, <1>7 DEF vars
<1>8. QED
  BY <1>1, <1>2, <1>3, <1>4, <1>5, <1>6, <1>7 DEF Next

(* Only an answered generation opens a lane in its spend-limit cooldown.   *)
THEOREM ProbesWaitForSpend == Spec => NoProbeEndsCooldown
<1>1. LaneInv /\ [Next]_vars
        => [cooling > 0 /\ probe.phase = "asking" /\ probe'.phase = "sleeping" => ~Eligible']_vars
  BY ProbeLeavesCooldown
<1>2. QED
  BY <1>1, InitLaneInv, NextLaneInv, PTL DEF Spec, NoProbeEndsCooldown

-----------------------------------------------------------------------------
(* The types of what the two invariants leave out: the failure window and  *)
(* the calls, and the furthest a backoff may be set.                       *)
Ages == 0..(FailureWindow + 1)

WindowTypes ==
  /\ up \in BOOLEAN /\ auth_ok \in BOOLEAN
  /\ down \in TimeLeft \cup {Off}
  /\ failures \in Seq(Ages) /\ Len(failures) < ConsecutiveFailures
  /\ calls \in [Calls -> {"idle", "inflight"}]

LaneTypes == LaneInv /\ WindowTypes

(* Dropping the old failures after a new one is appended leaves a suffix   *)
(* that ends in the new one.                                               *)
LEMMA RecentIsASuffix ==
  ASSUME failures \in Seq(Ages)
  PROVE  Recent \in Seq(Ages)
<1> DEFINE all == Append(failures, 0)
           IsHead(i) == all[i] <= FailureWindow /\ \A j \in 1..(i - 1) : all[j] > FailureWindow
           InWindow == {i \in 1..Len(all) : all[i] <= FailureWindow}
           head == CHOOSE i \in 1..Len(all) : IsHead(i)
<1>1. /\ all \in Seq(Ages) /\ Len(all) = Len(failures) + 1
      /\ all[Len(all)] = 0 /\ Len(all) \in Nat \ {0}
  BY DEF Ages
<1> HIDE DEF all
<1>2. \A i \in 1..Len(all) : all[i] \in Int
  <2>1. \A i \in 1..Len(all) : all[i] \in Ages
    BY <1>1
  <2>2. QED
    BY <2>1 DEF Ages
<1>3. InWindow \subseteq Nat /\ Len(all) \in InWindow
  BY <1>1
<1>4. PICK i \in InWindow : \A j \in InWindow : i <= j
  <2>1. InWindow # {}
    BY <1>3
  <2>2. QED
    BY <1>3, <2>1, LeastElement
<1>5. IsHead(i)
  BY <1>1, <1>2, <1>4
<1>6. head \in 1..Len(all)
  BY <1>4, <1>5
<1>7. Recent = SubSeq(all, head, Len(all))
  BY Zenon DEF Recent, all
<1> HIDE DEF head
<1>8. SubSeq(all, head, Len(all)) \in Seq(Ages)
  BY <1>1, <1>6
<1>9. QED
  BY <1>7, <1>8

LEMMA RecordedTypes ==
  ASSUME LaneTypes, RecordSuccess \/ RecordTransportFailure \/ RecordAuthFailure
                    \/ (\E resume \in SpendTimes : RecordSpendLimit(resume)) \/ UNCHANGED lane
  PROVE  /\ up' \in BOOLEAN /\ auth_ok' \in BOOLEAN
         /\ down' \in TimeLeft \cup {Off}
         /\ failures' \in Seq(Ages) /\ Len(failures') < ConsecutiveFailures
<1> USE DEF LaneTypes, WindowTypes
<1>1. <<>> \in Seq(Ages) /\ Len(<<>>) < ConsecutiveFailures
  BY DEF Ages
<1>2. CASE RecordSuccess
  BY <1>1, <1>2 DEF RecordSuccess
<1>3. CASE RecordTransportFailure
  <2>1. CASE Trips(Recent)
    <3>1. NextEpisode \in 1..MaxEpisodes
      BY DEF NextEpisode, LaneInv, Deadlines
    <3>2. Backoff(NextEpisode) \in 1..BackoffCap
      BY <3>1
    <3>3. down' = Backoff(NextEpisode) /\ up' = FALSE /\ failures' = <<>> /\ auth_ok' = auth_ok
      BY <1>3, <2>1 DEF RecordTransportFailure
    <3>4. down' \in TimeLeft
      BY <3>2, <3>3 DEF TimeLeft
    <3>5. QED
      BY <1>1, <3>3, <3>4
  <2>2. CASE ~Trips(Recent)
    <3>1. failures' = Recent /\ UNCHANGED <<up, down, auth_ok>>
      BY <1>3, <2>2 DEF RecordTransportFailure
    <3>2. Recent \in Seq(Ages)
      BY RecentIsASuffix
    <3>3. Len(Recent) < ConsecutiveFailures
      BY <2>2, <3>2 DEF Trips
    <3>4. QED
      BY <3>1, <3>2, <3>3
  <2>3. QED
    BY <2>1, <2>2
<1>4. CASE RecordAuthFailure
  BY <1>4 DEF RecordAuthFailure
<1>5. ASSUME NEW resume \in SpendTimes, RecordSpendLimit(resume)
      PROVE  UNCHANGED <<auth_ok, down, failures>> /\ up' = FALSE
  BY <1>5 DEF RecordSpendLimit
<1>6. CASE UNCHANGED lane
  BY <1>6 DEF lane
<1>7. QED
  BY <1>2, <1>3, <1>4, <1>5, <1>6

LEMMA NextLaneTypes == LaneTypes /\ [Next]_vars => LaneTypes'
<1> SUFFICES ASSUME LaneTypes, [Next]_vars PROVE WindowTypes'
  BY NextLaneInv DEF LaneTypes
<1> DEFINE Recorded == /\ up' \in BOOLEAN /\ auth_ok' \in BOOLEAN
                       /\ down' \in TimeLeft \cup {Off}
                       /\ failures' \in Seq(Ages) /\ Len(failures') < ConsecutiveFailures
<1>1. ASSUME Recorded, calls' \in [Calls -> {"idle", "inflight"}] PROVE WindowTypes'
  BY <1>1 DEF WindowTypes
<1>2. ASSUME NEW c \in Calls, Succeed(c) \/ FailTransport(c) \/ FailAuth(c) \/ Forget(c) \/ Route(c)
      PROVE  WindowTypes'
  <2>1. Recorded
    BY <1>2, RecordedTypes DEF Succeed, FailTransport, FailAuth, Forget, Route
  <2>2. calls' \in [Calls -> {"idle", "inflight"}]
    BY <1>2 DEF Succeed, FailTransport, FailAuth, Forget, Route, Ends, LaneTypes, WindowTypes
  <2>3. QED
    BY <1>1, <2>1, <2>2
<1>3. ASSUME NEW c \in Calls, NEW resume \in SpendTimes, FailSpend(c, resume) PROVE WindowTypes'
  <2>1. Recorded
    BY <1>3, RecordedTypes DEF FailSpend
  <2>2. calls' \in [Calls -> {"idle", "inflight"}]
    BY <1>3 DEF FailSpend, Ends, LaneTypes, WindowTypes
  <2>3. QED
    BY <1>1, <2>1, <2>2
<1>4. CASE ProbeWakes
  BY <1>1, <1>4, RecordedTypes DEF ProbeWakes, LaneTypes, WindowTypes
<1>5. CASE ProbeOk
  <2>1. CASE cooling = Off
    BY <1>1, <1>5, <2>1, RecordedTypes DEF ProbeOk, ProbeOkRecorded, LaneTypes, WindowTypes
  <2>2. CASE cooling # Off
    BY <1>1, <1>5, <2>2 DEF ProbeOk, ProbeOkRecorded, LaneTypes, WindowTypes
  <2>3. QED
    BY <2>1, <2>2
<1>6. ASSUME NEW kind \in {"auth", "rate_limited", "other"}, ProbeFails(kind) PROVE WindowTypes'
  <2>1. calls' = calls
    BY <1>6 DEF ProbeFails
  <2>2. \/ RecordAuthFailure
        \/ UNCHANGED lane
        \/ up' = FALSE /\ down' = ProbeFailDown - probe.t /\ UNCHANGED <<auth_ok, cooling, failures, episodes>>
    BY <1>6, Zenon DEF ProbeFails, ProbeFailureRecorded
  <2>3. CASE RecordAuthFailure \/ UNCHANGED lane
    BY <1>1, <2>1, <2>3, RecordedTypes DEF LaneTypes, WindowTypes
  <2>4. CASE up' = FALSE /\ down' = ProbeFailDown - probe.t /\ UNCHANGED <<auth_ok, cooling, failures, episodes>>
    <3>1. probe.t \in 0..ProbeTimeout
      BY <1>6 DEF ProbeFails, LaneTypes, LaneInv, Deadlines
    <3>2. down' \in TimeLeft
      BY <2>4, <3>1 DEF TimeLeft
    <3>3. QED
      BY <1>1, <2>1, <2>4, <3>2 DEF LaneTypes, WindowTypes
  <2>5. QED
    BY <2>2, <2>3, <2>4
<1>7. CASE Tick
  <2>1. down' \in TimeLeft \cup {Off}
    BY <1>7 DEF Tick, Nearer, TimeLeft, Off, LaneTypes, WindowTypes
  <2>2. failures' = [i \in 1..Len(failures) |-> Older(failures[i])]
    BY <1>7 DEF Tick
  <2>3. \A i \in 1..Len(failures) : Older(failures[i]) \in Ages
    <3>1. \A i \in 1..Len(failures) : failures[i] \in Ages
      BY DEF LaneTypes, WindowTypes
    <3>2. \A age \in Ages : Older(age) \in Ages
      BY DEF Older, Ages
    <3>3. QED
      BY <3>1, <3>2
  <2>4. failures' \in Seq(Ages) /\ Len(failures') = Len(failures)
    <3>1. Len(failures) \in Nat
      BY DEF LaneTypes, WindowTypes
    <3>2. QED
      BY <2>2, <2>3, <3>1
  <2>5. QED
    BY <1>1, <1>7, <2>1, <2>4 DEF Tick, LaneTypes, WindowTypes
<1>8. CASE UNCHANGED vars
  BY <1>8 DEF vars, LaneTypes, WindowTypes
<1>9. QED
  BY <1>2, <1>3, <1>4, <1>5, <1>6, <1>7, <1>8 DEF Next

(* Every reachable state of the lane is well typed: in particular the      *)
(* failure window never holds enough failures to have tripped, and no      *)
(* deadline is further than the longest backoff and probe penalty.         *)
THEOREM LaneTypeCorrect == Spec => []TypeOK
<1>1. LaneTypes => TypeOK
  BY DEF LaneTypes, LaneInv, Deadlines, WindowTypes, Ages, TypeOK
<1>2. Init => LaneTypes
  <2>1. Init => WindowTypes
    BY DEF Init, WindowTypes, Ages
  <2>2. QED
    BY <2>1, InitLaneInv DEF LaneTypes
<1>3. QED
  BY <1>1, <1>2, NextLaneTypes, PTL DEF Spec

-----------------------------------------------------------------------------
(* What the violated CoolingHolds leaves true: a spend-limit cooldown that *)
(* no open request shares is ended by its resume time alone.  check()      *)
(* routes nothing while it runs, so no later request, probe answer or      *)
(* failure can bring the answer that clears it early.                      *)
NoneOpen == \A c \in Calls : calls[c] = "idle"
LoneCooldownHolds == [][cooling > 0 /\ NoneOpen => NoneOpen' /\ cooling' # Off]_vars

LEMMA LoneCooldown ==
  ASSUME LaneInv, cooling > 0, NoneOpen, [Next]_vars
  PROVE  NoneOpen' /\ cooling' # Off
<1> USE DEF LaneInv, Deadlines
<1>1. cooling \in Int /\ cooling # Off /\ ProbeTimeout \in Nat
  BY DEF Off
<1>2. \A c \in Calls :
        /\ ~Route(c) /\ ~Succeed(c) /\ ~FailTransport(c) /\ ~FailAuth(c) /\ ~Forget(c)
        /\ \A resume \in SpendTimes : ~FailSpend(c, resume)
  <2>1. ~Eligible
    BY <1>1 DEF Eligible
  <2>2. QED
    BY <2>1 DEF NoneOpen, Route, Succeed, FailTransport, FailAuth, FailSpend, Forget, Ends
<1>3. CASE ProbeWakes \/ UNCHANGED vars
  BY <1>1, <1>3 DEF ProbeWakes, NoneOpen, lane, vars
<1>4. CASE ProbeOk
  BY <1>1, <1>4 DEF ProbeOk, ProbeOkRecorded, NoneOpen
<1>5. ASSUME NEW kind \in {"auth", "rate_limited", "other"}, ProbeFails(kind)
      PROVE  UNCHANGED <<calls, cooling>>
  <2>1. UNCHANGED calls /\ (RecordAuthFailure \/ UNCHANGED lane \/ UNCHANGED cooling)
    BY <1>5, Zenon DEF ProbeFails, ProbeFailureRecorded
  <2>2. QED
    BY <2>1 DEF RecordAuthFailure, lane
<1>6. CASE Tick
  BY <1>1, <1>6, NearerKeepsOff DEF Tick, NoneOpen
<1>7. QED
  BY <1>1, <1>2, <1>3, <1>4, <1>5, <1>6 DEF Next, NoneOpen

(* A cooldown with no request in flight lasts until its resume time.       *)
THEOREM OnlyOpenRequestsEndCooling == Spec => LoneCooldownHolds
<1>1. LaneInv /\ [Next]_vars => [cooling > 0 /\ NoneOpen => NoneOpen' /\ cooling' # Off]_vars
  BY LoneCooldown
<1>2. QED
  BY <1>1, InitLaneInv, NextLaneInv, PTL DEF Spec, LoneCooldownHolds

-----------------------------------------------------------------------------
(* No stale failure counts towards the trip: popping the deque from the    *)
(* left while its head is out of the window leaves none that is, because   *)
(* the failures are kept oldest first (lanes.py:95-99).                    *)
OldestFirst ==
  \A i \in 1..Len(failures) : \A j \in i..Len(failures) : failures[j] <= failures[i]
NoStaleFailureCounts == \A i \in 1..Len(Recent) : Recent[i] <= FailureWindow

LEMMA RecentIsOrdered ==
  ASSUME failures \in Seq(Ages), OldestFirst
  PROVE  /\ NoStaleFailureCounts
         /\ \A i \in 1..Len(Recent) : \A j \in i..Len(Recent) : Recent[j] <= Recent[i]
<1> DEFINE all == Append(failures, 0)
           IsHead(i) == all[i] <= FailureWindow /\ \A j \in 1..(i - 1) : all[j] > FailureWindow
           InWindow == {i \in 1..Len(all) : all[i] <= FailureWindow}
           head == CHOOSE i \in 1..Len(all) : IsHead(i)
<1>1. /\ all \in Seq(Ages) /\ Len(all) = Len(failures) + 1
      /\ all[Len(all)] = 0 /\ Len(all) \in Nat \ {0}
      /\ \A i \in 1..Len(failures) : all[i] = failures[i]
  BY DEF Ages
<1>2. \A i \in 1..Len(failures) : failures[i] \in Int /\ failures[i] >= 0
  <2>1. \A i \in 1..Len(failures) : failures[i] \in Ages
    OBVIOUS
  <2>2. QED
    BY <2>1 DEF Ages
<1> HIDE DEF all
<1>3. \A i \in 1..Len(all) : all[i] \in Int
  BY <1>1, <1>2
<1>4. ASSUME NEW i \in 1..Len(all), NEW j \in i..Len(all) PROVE all[j] <= all[i]
  <2>1. Len(failures) \in Nat /\ i \in Int /\ j \in Int /\ i <= j /\ j <= Len(all)
    BY <1>1
  <2>2. CASE j = Len(all)
    <3>1. i = Len(all) \/ i \in 1..Len(failures)
      BY <1>1, <2>1
    <3>2. all[j] = 0
      BY <1>1, <2>2
    <3>3. all[i] = 0 \/ (all[i] \in Int /\ all[i] >= 0)
      BY <1>1, <1>2, <3>1
    <3>4. QED
      BY <3>2, <3>3
  <2>3. CASE j # Len(all)
    <3>1. i \in 1..Len(failures) /\ j \in i..Len(failures) /\ j \in 1..Len(failures)
      BY <1>1, <2>1, <2>3
    <3>2. failures[j] <= failures[i]
      BY <3>1 DEF OldestFirst
    <3>3. all[i] = failures[i] /\ all[j] = failures[j]
      BY <1>1, <3>1
    <3>4. QED
      BY <3>2, <3>3
  <2>4. QED
    BY <2>2, <2>3
<1>5. InWindow \subseteq Nat /\ Len(all) \in InWindow
  BY <1>1
<1>6. PICK k \in InWindow : \A j \in InWindow : k <= j
  <2>1. InWindow # {}
    BY <1>5
  <2>2. QED
    BY <1>5, <2>1, LeastElement
<1>7. IsHead(k)
  BY <1>1, <1>3, <1>6
<1>8. head \in 1..Len(all) /\ IsHead(head)
  BY <1>6, <1>7
<1>9. Recent = SubSeq(all, head, Len(all))
  BY Zenon DEF Recent, all
<1> HIDE DEF head
<1>10. /\ Len(Recent) = Len(all) - head + 1
       /\ \A i \in 1..Len(Recent) : Recent[i] = all[head + i - 1] /\ head + i - 1 \in head..Len(all)
  BY <1>1, <1>8, <1>9
<1>11. ASSUME NEW i \in head..Len(all) PROVE all[i] <= FailureWindow
  <2>1. i \in 1..Len(all) /\ all[head] \in Int /\ all[i] \in Int /\ FailureWindow \in Int
    BY <1>1, <1>3, <1>8
  <2>2. all[i] <= all[head] /\ all[head] <= FailureWindow
    BY <1>4, <1>8
  <2>3. QED
    BY <2>1, <2>2
<1>12. NoStaleFailureCounts
  BY <1>10, <1>11 DEF NoStaleFailureCounts
<1>13. ASSUME NEW i \in 1..Len(Recent), NEW j \in i..Len(Recent) PROVE Recent[j] <= Recent[i]
  <2>1. head \in Nat \ {0} /\ Len(Recent) \in Int /\ i \in Int /\ j \in Int /\ 1 <= i /\ i <= j /\ j <= Len(Recent)
    BY <1>1, <1>8, <1>10
  <2>2. j \in 1..Len(Recent)
    BY <2>1
  <2>3. /\ Recent[i] = all[head + i - 1] /\ Recent[j] = all[head + j - 1]
        /\ head + j - 1 \in head..Len(all)
    BY <1>10, <2>2
  <2>4. head + i - 1 \in 1..Len(all) /\ head + j - 1 \in (head + i - 1)..Len(all)
    BY <1>1, <2>1, <2>3
  <2>5. QED
    BY <1>4, <2>3, <2>4
<1>14. QED
  BY <1>12, <1>13

LEMMA OldestStaysFirst ==
  ASSUME LaneTypes, OldestFirst, [Next]_vars
  PROVE  OldestFirst'
<1> USE DEF LaneTypes, WindowTypes
<1>1. CASE failures' = <<>>
  BY <1>1 DEF OldestFirst
<1>2. CASE failures' = Recent
  BY <1>2, RecentIsOrdered DEF OldestFirst
<1>3. CASE UNCHANGED failures
  BY <1>3 DEF OldestFirst
<1>4. CASE Tick
  <2>1. failures' = [i \in 1..Len(failures) |-> Older(failures[i])]
    BY <1>4 DEF Tick
  <2>2. \A i \in 1..Len(failures) : failures[i] \in Int
    <3>1. \A i \in 1..Len(failures) : failures[i] \in Ages
      OBVIOUS
    <3>2. QED
      BY <3>1 DEF Ages
  <2>3. \A a \in Int, b \in Int : b <= a => Older(b) <= Older(a)
    BY DEF Older
  <2>4. Len(failures') = Len(failures) /\ Len(failures) \in Nat
    BY <2>1
  <2>5. \A i \in 1..Len(failures) : failures'[i] = Older(failures[i])
    BY <2>1
  <2>6. ASSUME NEW i \in 1..Len(failures), NEW j \in i..Len(failures) PROVE failures'[j] <= failures'[i]
    <3>1. j \in 1..Len(failures) /\ failures[j] <= failures[i]
      BY <2>4 DEF OldestFirst
    <3>2. QED
      BY <2>2, <2>3, <2>5, <3>1
  <2>7. QED
    BY <2>4, <2>6 DEF OldestFirst
<1>5. ASSUME ~Tick
      PROVE  failures' = <<>> \/ failures' = Recent \/ UNCHANGED failures
  <2>1. RecordTransportFailure => failures' = <<>> \/ failures' = Recent
    BY DEF RecordTransportFailure
  <2>2. RecordSuccess => failures' = <<>>
    BY DEF RecordSuccess
  <2>3. ASSUME NEW kind \in {"auth", "rate_limited", "other"}, ProbeFails(kind)
        PROVE  UNCHANGED failures
    <3>1. RecordAuthFailure \/ UNCHANGED lane \/ UNCHANGED failures
      BY <2>3, Zenon DEF ProbeFails, ProbeFailureRecorded
    <3>2. QED
      BY <3>1 DEF RecordAuthFailure, lane
  <2>4. ProbeOk => UNCHANGED failures \/ RecordSuccess
    BY DEF ProbeOk, ProbeOkRecorded
  <2>5. QED
    BY <1>5, <2>1, <2>2, <2>3, <2>4
    DEF Next, Route, Succeed, FailTransport, FailAuth, FailSpend, Forget, ProbeWakes,
        RecordAuthFailure, RecordSpendLimit, lane, vars
<1>6. QED
  BY <1>1, <1>2, <1>3, <1>4, <1>5

(* Every failure that counts towards a trip is within the window.          *)
THEOREM OnlyRecentFailuresTrip == Spec => []NoStaleFailureCounts
<1>1. Init => LaneTypes /\ OldestFirst
  <2>1. Init => WindowTypes /\ OldestFirst
    BY DEF Init, WindowTypes, Ages, OldestFirst
  <2>2. QED
    BY <2>1, InitLaneInv DEF LaneTypes
<1>2. LaneTypes /\ OldestFirst => NoStaleFailureCounts
  BY RecentIsOrdered DEF LaneTypes, WindowTypes
<1>3. QED
  BY <1>1, <1>2, NextLaneTypes, OldestStaysFirst, PTL DEF Spec
=============================================================================
