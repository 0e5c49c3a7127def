---------------------------- MODULE LedgerProofs ----------------------------
(***************************************************************************)
(* Proofs about Ledger, for every set of callers, projects, lanes, jobs    *)
(* and inputs, every cap, every clock and every number of requests.        *)
(***************************************************************************)
EXTENDS Ledger, SumsProofs, SequenceTheorems

(* Rows and accounts: what a row may contribute to an account. *)
LEMMA AccountParts ==
  ASSUME NEW a \in Accounts
  PROVE  a[1] \in Scopes /\ a[2] \in Bases
BY DEF Accounts

LEMMA RowTypes ==
  ASSUME NEW row \in Row, NEW a \in Accounts
  PROVE  /\ row.inp.worst[a[2]] \in Nat /\ row.charged[a[2]] \in Nat
         /\ HeldBy(row, a) \in Nat /\ ChargedBy(row, a) \in Nat
<1>1. row.inp.worst \in [Bases -> Nat] /\ row.charged \in [Bases -> Nat]
  BY DEF Row, Input
<1>2. a[2] \in Bases
  BY AccountParts
<1>3. QED
  BY <1>1, <1>2 DEF HeldBy, ChargedBy

LEMMA SumTypes ==
  ASSUME TypeOK, NEW a \in Accounts
  PROVE  HeldSum(a) \in Nat /\ ChargedSum(a) \in Nat
<1>1. Len(requests) \in Nat /\ \A i \in 1..Len(requests) : requests[i] \in Row
  BY DEF TypeOK
<1>2. \A i \in 1..Len(requests) : HeldBy(requests[i], a) \in Nat /\ ChargedBy(requests[i], a) \in Nat
  BY <1>1, RowTypes
<1>3. HeldSum(a) \in Nat
  <2> DEFINE f == [i \in 1..Len(requests) |-> HeldBy(requests[i], a)]
  <2>1. \A i \in 1..Len(requests) : f[i] \in Nat
    BY <1>2
  <2> HIDE DEF f
  <2>2. SumTo(f, Len(requests)) \in Nat
    BY <1>1, <2>1, SumToNat
  <2>3. QED
    BY <2>2 DEF HeldSum, f
<1>4. ChargedSum(a) \in Nat
  <2> DEFINE f == [i \in 1..Len(requests) |-> ChargedBy(requests[i], a)]
  <2>1. \A i \in 1..Len(requests) : f[i] \in Nat
    BY <1>2
  <2> HIDE DEF f
  <2>2. SumTo(f, Len(requests)) \in Nat
    BY <1>1, <2>1, SumToNat
  <2>3. QED
    BY <2>2 DEF ChargedSum, f
<1>5. QED
  BY <1>3, <1>4

LEMMA NewRowType ==
  ASSUME TypeOK, NEW inp \in Input
  PROVE  NewRow(inp) \in Row
BY DEF TypeOK, NewRow, Row, States

LEMMA ClosedType ==
  ASSUME NEW row \in Row, NEW state \in States, NEW amounts \in [Bases -> Nat]
  PROVE  Closed(row, state, amounts) \in Row
BY DEF Closed, Row

(* The three copies of the last commit's timestamp. *)
TypeOKOfCommit ==
  /\ last_commit \in Times \cup {NoTime}
  /\ commit_cache \in Times \cup {NoTime}
  /\ pending \in Times \cup {NoTime}

LEMMA CommitTypes ==
  ASSUME TypeOK, TouchCommit(clock)
  PROVE  TypeOKOfCommit'
BY DEF TypeOK, TypeOKOfCommit, TouchCommit, Publish, Staged, AtBegin

(* What a closing of a row, by whatever method, needs to keep the types. *)
LEMMA CloseRowType ==
  ASSUME TypeOK, NEW i \in 1..Len(requests), NEW state \in States,
         NEW amounts \in [Bases -> Nat], CloseRow(i, state, amounts)
  PROVE  TypeOK'
<1>1. requests[i] \in Row
  BY DEF TypeOK
<1>2. Closed(requests[i], state, amounts) \in Row
  BY <1>1, ClosedType
<1>3. requests' \in Seq(Row)
  BY <1>2 DEF TypeOK, CloseRow
<1>4. \A a \in Accounts : requests[i].inp.worst[a[2]] \in Nat /\ amounts[a[2]] \in Nat
  BY <1>1, RowTypes, AccountParts
<1>5. held' \in [Accounts -> Int]
  BY <1>4 DEF TypeOK, CloseRow
<1>6. settled' \in [Accounts -> Int]
  BY <1>4 DEF TypeOK, CloseRow
<1>7. TypeOKOfCommit'
  BY CommitTypes DEF CloseRow
<1>8. QED
  BY <1>3, <1>5, <1>6, <1>7 DEF TypeOK, TypeOKOfCommit, CloseRow

-----------------------------------------------------------------------------
(* Every variable keeps the type of its column, through every method,      *)
(* crash and boot.                                                         *)
LEMMA InitTypeOK == Init => TypeOK
BY ConstantsAssumption DEF Init, TypeOK

LEMMA NextTypeOK == TypeOK /\ [Next]_vars => TypeOK'
<1> SUFFICES ASSUME TypeOK, [Next]_vars PROVE TypeOK'
  OBVIOUS
<1> USE ConstantsAssumption
<1>1. ASSUME NEW inp \in Inputs, Reserve(inp) PROVE TypeOK'
  <2>1. inp \in Input /\ NewRow(inp) \in Row
    BY NewRowType
  <2>2. requests' \in Seq(Row)
    BY <1>1, <2>1 DEF TypeOK, Reserve
  <2>3. \A a \in Accounts : HeldBy(NewRow(inp), a) \in Nat
    BY <2>1, RowTypes
  <2>4. held' \in [Accounts -> Int]
    BY <1>1, <2>3 DEF TypeOK, Reserve
  <2>5. job_caps' \in [Callers \X Jobs -> Nat \cup {Unpinned}]
    BY <1>1, <2>1 DEF TypeOK, Reserve, Input
  <2>6. TypeOKOfCommit'
    BY <1>1, CommitTypes DEF Reserve
  <2>7. QED
    BY <1>1, <2>2, <2>4, <2>5, <2>6 DEF TypeOK, TypeOKOfCommit, Reserve
<1>2. ASSUME NEW inp \in Inputs, NEW now \in Times, TripBrake(inp, now) PROVE TypeOK'
  BY <1>2 DEF TypeOK, TripBrake, Publish, AtBegin
<1>3. ASSUME NEW lane \in Lanes, ResetBrake(lane) PROVE TypeOK'
  BY <1>3 DEF TypeOK, ResetBrake, Publish, AtBegin
<1>4. ASSUME NEW i \in 1..Len(requests), MarkUpstreamStarted(i) PROVE TypeOK'
  <2>1. requests[i] \in Row
    BY DEF TypeOK
  <2>2. [requests[i] EXCEPT !.upstream_started = TRUE] \in Row
    BY <2>1 DEF Row
  <2>3. requests' \in Seq(Row)
    BY <1>4, <2>2 DEF TypeOK, MarkUpstreamStarted
  <2>4. QED
    BY <1>4, <2>3 DEF TypeOK, MarkUpstreamStarted, Publish, AtBegin
<1>5. ASSUME NEW i \in 1..Len(requests), NEW amounts \in Actuals, Settle(i, amounts) PROVE TypeOK'
  <2>1. amounts \in [Bases -> Nat] /\ "settled" \in States
    BY DEF States, ChargedStates
  <2>2. QED
    BY <1>5, <2>1, CloseRowType DEF Settle
<1>6. ASSUME NEW i \in 1..Len(requests), NEW outcome \in {"released", "timeout", "aborted"},
             Finish(i, outcome)
      PROVE  TypeOK'
  <2> DEFINE final == FinalState(requests[i], outcome)
             amounts == IF final = "released" THEN [b \in Bases |-> 0] ELSE requests[i].inp.worst
  <2>1. final \in States
    BY DEF FinalState, States, ChargedStates
  <2>2. amounts \in [Bases -> Nat]
    <3>1. requests[i].inp.worst \in [Bases -> Nat]
      <4>1. requests[i] \in Row
        BY DEF TypeOK
      <4>2. QED
        BY <4>1 DEF Row, Input
    <3>2. QED
      BY <3>1
  <2>3. CloseRow(i, final, amounts)
    BY <1>6 DEF Finish
  <2>4. QED
    BY <2>1, <2>2, <2>3, CloseRowType
<1>7. ASSUME Crash PROVE TypeOK'
  BY <1>7 DEF TypeOK, Crash
<1>8. ASSUME Boot PROVE TypeOK'
  <2>1. \A i \in 1..Len(requests) : requests[i] \in Row /\ Swept(requests[i]) \in Row
    <3>1. \A row \in Row : row.inp.worst \in [Bases -> Nat]
      BY DEF Row, Input
    <3>2. "swept" \in States
      BY DEF States, ChargedStates
    <3>3. \A row \in Row : Swept(row) \in Row
      BY <3>1, <3>2, ClosedType DEF Swept
    <3>4. QED
      BY <3>3 DEF TypeOK
  <2>2. requests' \in Seq(Row)
    <3>1. requests' \in [1..Len(requests) -> Row] /\ Len(requests) \in Nat
      BY <1>8, <2>1 DEF TypeOK, Boot, Sweep
    <3>2. QED
      BY <3>1, SeqDef
  <2>3. \A a \in Accounts : HeldSum(a) \in Nat
    BY SumTypes
  <2>4. held' \in [Accounts -> Int] /\ settled' \in [Accounts -> Int]
    BY <1>8, <2>3 DEF TypeOK, Boot, Sweep
  <2>5. TypeOKOfCommit'
    BY <1>8 DEF TypeOK, TypeOKOfCommit, Boot, Sweep
  <2>6. mode' \in {"down", "ready", "blocked"}
    BY <1>8 DEF Boot
  <2>7. QED
    BY <1>8, <2>2, <2>4, <2>5, <2>6 DEF TypeOK, TypeOKOfCommit, Boot
<1>9. ASSUME BootFails PROVE TypeOK'
  BY <1>9 DEF TypeOK, BootFails
<1>10. ASSUME NEW t \in Times, SetClock(t) PROVE TypeOK'
  BY <1>10 DEF TypeOK, SetClock, stored
<1>11. CASE UNCHANGED vars
  BY <1>11 DEF TypeOK, vars
<1>12. ASSUME WriteFails PROVE TypeOK'
  BY <1>12 DEF TypeOK, WriteFails, Staged, AtBegin, stored
<1>13. QED
  BY <1>1, <1>2, <1>3, <1>4, <1>5, <1>6, <1>7, <1>8, <1>9, <1>10, <1>11, <1>12 DEF Next

(* The ledger's variables always have the types of their columns. *)
THEOREM TypeCorrect == Spec => []TypeOK
<1>1. QED
  BY InitTypeOK, NextTypeOK, PTL DEF Spec
-----------------------------------------------------------------------------
(* How the three sums over the rows move when the table does. *)
LEMMA OverByType ==
  ASSUME NEW row \in Row, NEW a \in Accounts
  PROVE  OverBy(row, a) \in Nat
BY RowTypes DEF OverBy

LEMMA AppendSums ==
  ASSUME TypeOK, NEW row \in Row, requests' = Append(requests, row), NEW a \in Accounts
  PROVE  /\ HeldSum(a)' = HeldSum(a) + HeldBy(row, a)
         /\ ChargedSum(a)' = ChargedSum(a) + ChargedBy(row, a)
         /\ Overrun(a)' = Overrun(a) + OverBy(row, a)
<1> DEFINE n == Len(requests)
<1>1. n \in Nat /\ Len(requests') = n + 1 /\ requests'[n + 1] = row
  BY DEF TypeOK
<1>2. \A i \in 1..n : requests'[i] = requests[i]
  BY DEF TypeOK
<1>3. HeldSum(a)' = HeldSum(a) + HeldBy(row, a)
  <2> DEFINE f == [i \in 1..n |-> HeldBy(requests[i], a)]
             g == [i \in 1..(n + 1) |-> HeldBy(requests'[i], a)]
  <2>1. (\A i \in 1..n : g[i] = f[i]) /\ g[n + 1] = HeldBy(row, a)
    BY <1>1, <1>2
  <2>2. HeldSum(a) = SumTo(f, n) /\ HeldSum(a)' = SumTo(g, n + 1)
    BY <1>1 DEF HeldSum
  <2> HIDE DEF f, g, n
  <2>3. QED
    BY <1>1, <2>1, <2>2, SumToAppend
<1>4. ChargedSum(a)' = ChargedSum(a) + ChargedBy(row, a)
  <2> DEFINE f == [i \in 1..n |-> ChargedBy(requests[i], a)]
             g == [i \in 1..(n + 1) |-> ChargedBy(requests'[i], a)]
  <2>1. (\A i \in 1..n : g[i] = f[i]) /\ g[n + 1] = ChargedBy(row, a)
    BY <1>1, <1>2
  <2>2. ChargedSum(a) = SumTo(f, n) /\ ChargedSum(a)' = SumTo(g, n + 1)
    BY <1>1 DEF ChargedSum
  <2> HIDE DEF f, g, n
  <2>3. QED
    BY <1>1, <2>1, <2>2, SumToAppend
<1>5. Overrun(a)' = Overrun(a) + OverBy(row, a)
  <2> DEFINE f == [i \in 1..n |-> OverBy(requests[i], a)]
             g == [i \in 1..(n + 1) |-> OverBy(requests'[i], a)]
  <2>1. (\A i \in 1..n : g[i] = f[i]) /\ g[n + 1] = OverBy(row, a)
    BY <1>1, <1>2
  <2>2. Overrun(a) = SumTo(f, n) /\ Overrun(a)' = SumTo(g, n + 1)
    BY <1>1 DEF Overrun
  <2> HIDE DEF f, g, n
  <2>3. QED
    BY <1>1, <2>1, <2>2, SumToAppend
<1>6. QED
  BY <1>3, <1>4, <1>5

LEMMA UpdateSums ==
  ASSUME TypeOK, NEW k \in 1..Len(requests), NEW row \in Row,
         requests' = [requests EXCEPT ![k] = row], NEW a \in Accounts
  PROVE  /\ HeldSum(a)' = HeldSum(a) + HeldBy(row, a) - HeldBy(requests[k], a)
         /\ ChargedSum(a)' = ChargedSum(a) + ChargedBy(row, a) - ChargedBy(requests[k], a)
         /\ Overrun(a)' = Overrun(a) + OverBy(row, a) - OverBy(requests[k], a)
<1> DEFINE n == Len(requests)
<1>1. n \in Nat /\ Len(requests') = n /\ requests'[k] = row /\ k \in 1..n
  BY DEF TypeOK
<1>2. \A i \in 1..n : requests[i] \in Row /\ requests'[i] \in Row
                      /\ (i # k => requests'[i] = requests[i])
  BY DEF TypeOK
<1>3. HeldSum(a)' = HeldSum(a) + HeldBy(row, a) - HeldBy(requests[k], a)
  <2> DEFINE f == [i \in 1..n |-> HeldBy(requests[i], a)]
             g == [i \in 1..n |-> HeldBy(requests'[i], a)]
  <2>1. \A i \in 1..n : f[i] \in Int /\ g[i] \in Int
    BY <1>2, RowTypes
  <2>2. (\A i \in 1..n : i # k => g[i] = f[i])
        /\ g[k] = HeldBy(row, a) /\ f[k] = HeldBy(requests[k], a)
    BY <1>1, <1>2
  <2>3. HeldSum(a) = SumTo(f, n) /\ HeldSum(a)' = SumTo(g, n)
    BY <1>1 DEF HeldSum
  <2> HIDE DEF f, g, n
  <2>4. QED
    BY <1>1, <2>1, <2>2, <2>3, SumToUpdate
<1>4. ChargedSum(a)' = ChargedSum(a) + ChargedBy(row, a) - ChargedBy(requests[k], a)
  <2> DEFINE f == [i \in 1..n |-> ChargedBy(requests[i], a)]
             g == [i \in 1..n |-> ChargedBy(requests'[i], a)]
  <2>1. \A i \in 1..n : f[i] \in Int /\ g[i] \in Int
    BY <1>2, RowTypes
  <2>2. (\A i \in 1..n : i # k => g[i] = f[i])
        /\ g[k] = ChargedBy(row, a) /\ f[k] = ChargedBy(requests[k], a)
    BY <1>1, <1>2
  <2>3. ChargedSum(a) = SumTo(f, n) /\ ChargedSum(a)' = SumTo(g, n)
    BY <1>1 DEF ChargedSum
  <2> HIDE DEF f, g, n
  <2>4. QED
    BY <1>1, <2>1, <2>2, <2>3, SumToUpdate
<1>5. Overrun(a)' = Overrun(a) + OverBy(row, a) - OverBy(requests[k], a)
  <2> DEFINE f == [i \in 1..n |-> OverBy(requests[i], a)]
             g == [i \in 1..n |-> OverBy(requests'[i], a)]
  <2>1. \A i \in 1..n : f[i] \in Int /\ g[i] \in Int
    BY <1>2, OverByType
  <2>2. (\A i \in 1..n : i # k => g[i] = f[i])
        /\ g[k] = OverBy(row, a) /\ f[k] = OverBy(requests[k], a)
    BY <1>1, <1>2
  <2>3. Overrun(a) = SumTo(f, n) /\ Overrun(a)' = SumTo(g, n)
    BY <1>1 DEF Overrun
  <2> HIDE DEF f, g, n
  <2>4. QED
    BY <1>1, <2>1, <2>2, <2>3, SumToUpdate
<1>6. QED
  BY <1>3, <1>4, <1>5

(* A row that closes stops being held and is charged what it is closed at. *)
LEMMA ClosedContribution ==
  ASSUME NEW row \in Row, row.state = "reserved", NEW state \in States \ {"reserved"},
         NEW amounts \in [Bases -> Nat], state = "released" => amounts = [b \in Bases |-> 0],
         NEW a \in Accounts
  PROVE  LET closed == Closed(row, state, amounts)
             on == a[1] \in RowScopes(row)
         IN  /\ HeldBy(row, a) = IF on THEN row.inp.worst[a[2]] ELSE 0
             /\ HeldBy(closed, a) = 0
             /\ ChargedBy(row, a) = 0
             /\ ChargedBy(closed, a) = IF on THEN amounts[a[2]] ELSE 0
<1> DEFINE closed == Closed(row, state, amounts)
<1>1. /\ closed.state = state /\ closed.charged = amounts
      /\ closed.inp = row.inp /\ closed.reserved_at = row.reserved_at
  BY DEF Closed, Row
<1>2. RowScopes(closed) = RowScopes(row)
  BY <1>1 DEF RowScopes
<1>3. state \in ChargedStates \/ state = "released"
  BY DEF States
<1>4. state = "released" => amounts[a[2]] = 0
  BY AccountParts
<1>5. "reserved" \notin ChargedStates /\ "released" \notin ChargedStates
  BY DEF ChargedStates
<1> HIDE DEF closed
<1>6. HeldBy(closed, a) = 0 /\ ChargedBy(closed, a) = IF a[1] \in RowScopes(row) THEN amounts[a[2]] ELSE 0
  BY <1>1, <1>2, <1>3, <1>4, <1>5 DEF HeldBy, ChargedBy
<1>7. QED
  BY <1>5, <1>6 DEF HeldBy, ChargedBy, closed

LEMMA CloseRowTotals ==
  ASSUME TypeOK, TotalsMatchRows, NEW i \in 1..Len(requests), requests[i].state = "reserved",
         NEW state \in States \ {"reserved"}, NEW amounts \in [Bases -> Nat],
         state = "released" => amounts = [b \in Bases |-> 0],
         CloseRow(i, state, amounts)
  PROVE  TotalsMatchRows'
<1> DEFINE row == requests[i]
           closed == Closed(row, state, amounts)
<1>1. row \in Row /\ closed \in Row
  <2>1. row \in Row
    BY DEF TypeOK
  <2>2. QED
    BY <2>1, ClosedType
<1>2. ASSUME NEW a \in Accounts
      PROVE  held'[a] = HeldSum(a)' /\ settled'[a] = ChargedSum(a)'
  <2>1. requests' = [requests EXCEPT ![i] = closed]
    BY DEF CloseRow
  <2>2. /\ HeldSum(a)' = HeldSum(a) + HeldBy(closed, a) - HeldBy(row, a)
        /\ ChargedSum(a)' = ChargedSum(a) + ChargedBy(closed, a) - ChargedBy(row, a)
    BY <1>1, <2>1, UpdateSums
  <2>3. /\ HeldBy(row, a) = IF a[1] \in RowScopes(row) THEN row.inp.worst[a[2]] ELSE 0
        /\ HeldBy(closed, a) = 0 /\ ChargedBy(row, a) = 0
        /\ ChargedBy(closed, a) = IF a[1] \in RowScopes(row) THEN amounts[a[2]] ELSE 0
    BY <1>1, ClosedContribution
  <2>4. held[a] = HeldSum(a) /\ settled[a] = ChargedSum(a)
    BY DEF TotalsMatchRows, TotalsRecompute
  <2>5. held[a] \in Int /\ settled[a] \in Int /\ row.inp.worst[a[2]] \in Nat /\ amounts[a[2]] \in Nat
    BY <1>1, RowTypes, AccountParts DEF TypeOK
  <2>6. /\ held'[a] = IF a[1] \in RowScopes(row) THEN held[a] - row.inp.worst[a[2]] ELSE held[a]
        /\ settled'[a] = IF a[1] \in RowScopes(row) THEN settled[a] + amounts[a[2]] ELSE settled[a]
    BY DEF CloseRow
  <2> HIDE DEF row, closed
  <2>7. QED
    BY <2>2, <2>3, <2>4, <2>5, <2>6
<1>3. QED
  BY <1>2 DEF TotalsMatchRows, TotalsRecompute

(* A transition that keeps what every row contributes keeps the sums. *)
LEMMA SameSums ==
  ASSUME TypeOK, Len(requests') = Len(requests), NEW a \in Accounts,
         \A i \in 1..Len(requests) :
           /\ HeldBy(requests'[i], a) = HeldBy(requests[i], a)
           /\ ChargedBy(requests'[i], a) = ChargedBy(requests[i], a)
  PROVE  HeldSum(a)' = HeldSum(a) /\ ChargedSum(a)' = ChargedSum(a)
<1> DEFINE n == Len(requests)
           f == [i \in 1..n |-> HeldBy(requests[i], a)]
           g == [i \in 1..n |-> HeldBy(requests'[i], a)]
           u == [i \in 1..n |-> ChargedBy(requests[i], a)]
           v == [i \in 1..n |-> ChargedBy(requests'[i], a)]
<1>1. n \in Nat /\ (\A i \in 1..n : f[i] = g[i]) /\ (\A i \in 1..n : u[i] = v[i])
  BY DEF TypeOK
<1>2. HeldSum(a) = SumTo(f, n) /\ HeldSum(a)' = SumTo(g, n)
  BY DEF HeldSum
<1>3. ChargedSum(a) = SumTo(u, n) /\ ChargedSum(a)' = SumTo(v, n)
  BY DEF ChargedSum
<1> HIDE DEF f, g, u, v, n
<1>4. QED
  BY <1>1, <1>2, <1>3, SumToSame

(* The sweep moves every account's held sum to its charged sum. *)
LEMMA SweepContribution ==
  ASSUME NEW row \in Row, NEW a \in Accounts
  PROVE  /\ HeldBy(Swept(row), a) = 0
         /\ ChargedBy(Swept(row), a) = ChargedBy(row, a) + HeldBy(row, a)
         /\ OverBy(Swept(row), a) = OverBy(row, a)
<1>1. row.inp.worst[a[2]] \in Nat /\ ChargedBy(row, a) \in Nat /\ HeldBy(row, a) \in Nat
  BY RowTypes
<1>2. CASE row.state = "reserved"
  <2>1. row.inp.worst \in [Bases -> Nat] /\ "swept" \in States \ {"reserved"} /\ "swept" # "released"
    BY DEF Row, Input, States, ChargedStates
  <2>2. Swept(row) = Closed(row, "swept", row.inp.worst)
    BY <1>2 DEF Swept
  <2>3. /\ HeldBy(row, a) = IF a[1] \in RowScopes(row) THEN row.inp.worst[a[2]] ELSE 0
        /\ HeldBy(Swept(row), a) = 0 /\ ChargedBy(row, a) = 0
        /\ ChargedBy(Swept(row), a) = IF a[1] \in RowScopes(row) THEN row.inp.worst[a[2]] ELSE 0
    BY <1>2, <2>1, <2>2, ClosedContribution
  <2>4. Swept(row).inp = row.inp
    BY <2>2 DEF Closed, Row
  <2>5. OverBy(Swept(row), a) = 0 /\ OverBy(row, a) = 0
    BY <1>1, <2>3, <2>4 DEF OverBy
  <2>6. QED
    BY <1>1, <2>3, <2>5
<1>3. CASE row.state # "reserved"
  <2>1. Swept(row) = row /\ HeldBy(row, a) = 0
    BY <1>3 DEF Swept, HeldBy
  <2>2. QED
    BY <1>1, <2>1
<1>4. QED
  BY <1>2, <1>3

LEMMA SweepSums ==
  ASSUME TypeOK, Sweep, NEW a \in Accounts
  PROVE  /\ HeldSum(a)' = 0
         /\ ChargedSum(a)' = ChargedSum(a) + HeldSum(a)
         /\ Overrun(a)' = Overrun(a)
<1> DEFINE n == Len(requests)
           h == [i \in 1..n |-> HeldBy(requests[i], a)]
           c == [i \in 1..n |-> ChargedBy(requests[i], a)]
           o == [i \in 1..n |-> OverBy(requests[i], a)]
           h2 == [i \in 1..n |-> HeldBy(requests'[i], a)]
           c2 == [i \in 1..n |-> ChargedBy(requests'[i], a)]
           o2 == [i \in 1..n |-> OverBy(requests'[i], a)]
<1>1. n \in Nat /\ Len(requests') = n
  BY DEF TypeOK, Sweep
<1>2. ASSUME NEW i \in 1..n
      PROVE  /\ h2[i] = 0 /\ c2[i] = c[i] + h[i] /\ o2[i] = o[i]
             /\ c[i] \in Int /\ h[i] \in Int /\ h[i] \in Nat
  <2>1. requests[i] \in Row /\ requests'[i] = Swept(requests[i])
    BY DEF TypeOK, Sweep
  <2>2. QED
    BY <2>1, SweepContribution, RowTypes
<1>3. /\ HeldSum(a) = SumTo(h, n) /\ ChargedSum(a) = SumTo(c, n) /\ Overrun(a) = SumTo(o, n)
      /\ HeldSum(a)' = SumTo(h2, n) /\ ChargedSum(a)' = SumTo(c2, n) /\ Overrun(a)' = SumTo(o2, n)
  BY <1>1 DEF HeldSum, ChargedSum, Overrun
<1> HIDE DEF n, h, c, o, h2, c2, o2
<1>4. SumTo(c2, n) = SumTo(c, n) + SumTo(h, n)
  BY <1>1, <1>2, SumToAdd
<1>5. SumTo(o2, n) = SumTo(o, n)
  BY <1>1, <1>2, SumToSame
<1>6. SumTo(h2, n) = 0
  BY <1>1, <1>2, SumToZeros
<1>7. QED
  BY <1>3, <1>4, <1>5, <1>6

-----------------------------------------------------------------------------
(* What the two closing methods hand to CloseRow. *)
LEMMA FinishCloses ==
  ASSUME TypeOK, NEW i \in 1..Len(requests), NEW outcome \in {"released", "timeout", "aborted"},
         Finish(i, outcome)
  PROVE  \E state \in States \ {"reserved"}, amounts \in [Bases -> Nat] :
           /\ state = FinalState(requests[i], outcome)
           /\ state = "released" => amounts = [b \in Bases |-> 0]
           /\ state # "released" => amounts = requests[i].inp.worst
           /\ CloseRow(i, state, amounts)
<1> DEFINE final == FinalState(requests[i], outcome)
           zeros == [b \in Bases |-> 0]
           amounts == IF final = "released" THEN zeros ELSE requests[i].inp.worst
<1>1. final \in States \ {"reserved"}
  BY DEF FinalState, States, ChargedStates
<1>2. requests[i].inp.worst \in [Bases -> Nat]
  <2>1. requests[i] \in Row
    BY DEF TypeOK
  <2>2. QED
    BY <2>1 DEF Row, Input
<1>3. zeros \in [Bases -> Nat]
  OBVIOUS
<1>4. amounts \in [Bases -> Nat]
  BY <1>2, <1>3
<1>5. CloseRow(i, final, amounts)
  BY DEF Finish
<1>6. (final = "released" => amounts = zeros) /\ (final # "released" => amounts = requests[i].inp.worst)
  OBVIOUS
<1> HIDE DEF amounts
<1>7. QED
  BY <1>1, <1>4, <1>5, <1>6

LEMMA SettleCloses ==
  ASSUME NEW i \in 1..Len(requests), NEW amounts \in Actuals, Settle(i, amounts)
  PROVE  /\ "settled" \in States \ {"reserved"} /\ "settled" # "released"
         /\ amounts \in [Bases -> Nat] /\ CloseRow(i, "settled", amounts)
         /\ requests[i].state = "reserved"
BY ConstantsAssumption DEF Settle, StillReserved, States, ChargedStates

-----------------------------------------------------------------------------
(* TypeOK /\ TotalsMatchRows is inductive: each method moves the counters  *)
(* by exactly what it changes in the rows.                                 *)
LEMMA InitTotals == Init => TotalsMatchRows
<1> SUFFICES ASSUME Init, NEW a \in Accounts PROVE held[a] = HeldSum(a) /\ settled[a] = ChargedSum(a)
  BY DEF TotalsMatchRows, TotalsRecompute
<1>1. Len(requests) = 0
  BY DEF Init
<1>2. HeldSum(a) = 0 /\ ChargedSum(a) = 0
  BY <1>1, SumToZero DEF HeldSum, ChargedSum
<1>3. QED
  BY <1>2 DEF Init

LEMMA NextTotals == TypeOK /\ TotalsMatchRows /\ [Next]_vars => TotalsMatchRows'
<1> SUFFICES ASSUME TypeOK, TotalsMatchRows, [Next]_vars PROVE TotalsMatchRows'
  OBVIOUS
<1> USE ConstantsAssumption
<1>0. ASSUME UNCHANGED <<requests, held, settled>> PROVE TotalsMatchRows'
  BY <1>0 DEF TotalsMatchRows, TotalsRecompute, HeldSum, ChargedSum
<1>1. ASSUME NEW inp \in Inputs, Reserve(inp) PROVE TotalsMatchRows'
  <2> SUFFICES ASSUME NEW a \in Accounts
               PROVE  held'[a] = HeldSum(a)' /\ settled'[a] = ChargedSum(a)'
    BY DEF TotalsMatchRows, TotalsRecompute
  <2>1. NewRow(inp) \in Row /\ requests' = Append(requests, NewRow(inp))
    BY <1>1, NewRowType DEF Reserve
  <2>2. /\ HeldSum(a)' = HeldSum(a) + HeldBy(NewRow(inp), a)
        /\ ChargedSum(a)' = ChargedSum(a) + ChargedBy(NewRow(inp), a)
    BY <2>1, AppendSums
  <2>3. ChargedBy(NewRow(inp), a) = 0
    BY DEF ChargedBy, NewRow, ChargedStates
  <2>4. held'[a] = held[a] + HeldBy(NewRow(inp), a) /\ settled'[a] = settled[a]
    BY <1>1 DEF Reserve
  <2>5. settled[a] \in Int /\ held[a] = HeldSum(a) /\ settled[a] = ChargedSum(a)
    BY DEF TypeOK, TotalsMatchRows, TotalsRecompute
  <2>6. QED
    BY <2>2, <2>3, <2>4, <2>5
<1>2. ASSUME NEW inp \in Inputs, NEW now \in Times, TripBrake(inp, now) PROVE TotalsMatchRows'
  BY <1>2, <1>0 DEF TripBrake
<1>3. ASSUME NEW lane \in Lanes, ResetBrake(lane) PROVE TotalsMatchRows'
  BY <1>3, <1>0 DEF ResetBrake
<1>4. ASSUME NEW i \in 1..Len(requests), MarkUpstreamStarted(i) PROVE TotalsMatchRows'
  <2> DEFINE row == requests[i]
             marked == [row EXCEPT !.upstream_started = TRUE]
  <2>1. row \in Row
    BY DEF TypeOK
  <2>2. marked.inp = row.inp /\ marked.state = row.state /\ marked.charged = row.charged
        /\ marked.reserved_at = row.reserved_at
    BY <2>1 DEF Row
  <2>3. requests' = [requests EXCEPT ![i] = marked]
    BY <1>4 DEF MarkUpstreamStarted
  <2> HIDE DEF marked
  <2>4. \A a \in Accounts : HeldBy(marked, a) = HeldBy(row, a) /\ ChargedBy(marked, a) = ChargedBy(row, a)
    BY <2>2 DEF HeldBy, ChargedBy, RowScopes
  <2>5. Len(requests') = Len(requests)
        /\ \A j \in 1..Len(requests) : requests'[j] = IF j = i THEN marked ELSE requests[j]
    BY <2>3 DEF TypeOK
  <2>6. \A a \in Accounts : HeldSum(a)' = HeldSum(a) /\ ChargedSum(a)' = ChargedSum(a)
    BY <2>4, <2>5, SameSums
  <2>7. QED
    BY <1>4, <2>6 DEF TotalsMatchRows, TotalsRecompute, MarkUpstreamStarted
<1>5. ASSUME NEW i \in 1..Len(requests), NEW amounts \in Actuals, Settle(i, amounts)
      PROVE  TotalsMatchRows'
  BY <1>5, SettleCloses, CloseRowTotals
<1>6. ASSUME NEW i \in 1..Len(requests), NEW outcome \in {"released", "timeout", "aborted"},
             Finish(i, outcome)
      PROVE  TotalsMatchRows'
  <2>1. requests[i].state = "reserved"
    BY <1>6 DEF Finish, StillReserved
  <2>2. QED
    BY <1>6, <2>1, FinishCloses, CloseRowTotals
<1>7. ASSUME Crash PROVE TotalsMatchRows'
  BY <1>7, <1>0 DEF Crash
<1>8. ASSUME Boot PROVE TotalsMatchRows'
  <2> SUFFICES ASSUME NEW a \in Accounts
               PROVE  held'[a] = HeldSum(a)' /\ settled'[a] = ChargedSum(a)'
    BY DEF TotalsMatchRows, TotalsRecompute
  <2>1. Sweep
    BY <1>8 DEF Boot
  <2>2. HeldSum(a)' = 0 /\ ChargedSum(a)' = ChargedSum(a) + HeldSum(a)
    BY <2>1, SweepSums
  <2>3. held'[a] = held[a] - HeldSum(a) /\ settled'[a] = settled[a] + HeldSum(a)
    BY <2>1 DEF Sweep
  <2>4. HeldSum(a) \in Nat /\ held[a] = HeldSum(a) /\ settled[a] = ChargedSum(a)
    BY SumTypes DEF TotalsMatchRows, TotalsRecompute
  <2>5. QED
    BY <2>2, <2>3, <2>4
<1>9. ASSUME BootFails PROVE TotalsMatchRows'
  BY <1>9, <1>0 DEF BootFails
<1>10. ASSUME NEW t \in Times, SetClock(t) PROVE TotalsMatchRows'
  BY <1>10, <1>0 DEF SetClock, stored
<1>11. CASE UNCHANGED vars
  BY <1>11, <1>0 DEF vars
<1>12. ASSUME WriteFails PROVE TotalsMatchRows'
  BY <1>12, <1>0 DEF WriteFails, stored
<1>13. QED
  BY <1>1, <1>2, <1>3, <1>4, <1>5, <1>6, <1>7, <1>8, <1>9, <1>10, <1>11, <1>12 DEF Next

(* The counters the enforcement statement reads are always the sums over   *)
(* the request rows, so recompute_totals never finds a mismatch at boot.   *)
THEOREM TotalsAlwaysMatchRows == Spec => []TotalsMatchRows
<1>1. QED
  BY InitTypeOK, NextTypeOK, InitTotals, NextTotals, PTL DEF Spec

-----------------------------------------------------------------------------
(* The cap argument.  Every cap is a natural number.                       *)
LEMMA CapTypes ==
  ASSUME TypeOK, NEW a \in Accounts, Capped(a)
  PROVE  CapOfAccount(a) \in Nat
<1> USE ConstantsAssumption
<1>1. a[1] \in Scopes
  BY AccountParts
<1>2. CASE a[1] \in {"project"} \X Projects \X Periods
  BY <1>2 DEF CapOfAccount
<1>3. CASE a[1] \in {"caller_day"} \X Callers \X Days
  BY <1>3 DEF CapOfAccount, Capped
<1>4. CASE a[1] \in {"brake"} \X Lanes \X Days
  BY <1>4 DEF CapOfAccount
<1>5. CASE a[1] \in {"job"} \X Callers \X Jobs
  <2>1. job_caps[<<a[1][2], a[1][3]>>] \in Nat \cup {Unpinned}
    BY <1>5 DEF TypeOK
  <2>2. QED
    BY <1>5, <2>1 DEF CapOfAccount
<1>6. QED
  BY <1>1, <1>2, <1>3, <1>4, <1>5 DEF Scopes

LEMMA OverrunType ==
  ASSUME TypeOK, NEW a \in Accounts
  PROVE  Overrun(a) \in Nat
<1> DEFINE f == [i \in 1..Len(requests) |-> OverBy(requests[i], a)]
<1>1. Len(requests) \in Nat /\ \A i \in 1..Len(requests) : f[i] \in Nat
  BY OverByType DEF TypeOK
<1>2. Overrun(a) = SumTo(f, Len(requests))
  BY DEF Overrun
<1> HIDE DEF f
<1>3. QED
  BY <1>1, <1>2, SumToNat

(* A reservation that lands on a capped account passed its compare-and-add,*)
(* against the cap the account has afterwards.                             *)
LEMMA AdmittedFits ==
  ASSUME TypeOK, NEW inp \in Inputs, Reserve(inp), NEW a \in Accounts, Capped(a),
         a[1] \in ScopesFor(inp, clock)
  PROVE  /\ CapOfAccount(a)' \in Nat
         /\ Committed(a) + inp.worst[a[2]] <= CapOfAccount(a)'
<1> USE ConstantsAssumption
<1>1. inp \in Input /\ a[2] \in Bases
  BY AccountParts
<1>2. a \in ScopesFor(inp, clock) \X Bases
  BY DEF Accounts
<1>3. CASE a[1] = <<"project", inp.project_id, Period(clock)>>
  <2>1. Fits(a, inp)
    BY <1>2, <1>3 DEF Reserve, EnforcedAccounts, Capped
  <2>2. CapOfAccount(a)' = CapOn(a, inp)
    BY <1>3 DEF CapOfAccount, CapOn
  <2>3. CapOn(a, inp) \in Nat
    BY <1>1, <1>3 DEF CapOn, Capped, Input
  <2>4. QED
    BY <2>1, <2>2, <2>3 DEF Fits
<1>4. CASE a[1] = <<"caller_day", inp.caller_id, Day(clock)>>
  <2>1. Fits(a, inp)
    BY <1>2, <1>4 DEF Reserve, EnforcedAccounts, Capped
  <2>2. CapOfAccount(a)' = CapOn(a, inp)
    BY <1>4 DEF CapOfAccount, CapOn
  <2>3. CapOn(a, inp) \in Nat
    BY <1>1, <1>4 DEF CapOn, Capped, Input
  <2>4. QED
    BY <2>1, <2>2, <2>3 DEF Fits
<1>5. CASE a[1] = <<"brake", inp.lane_used, Day(clock)>>
  <2>1. Fits(a, inp)
    BY <1>2, <1>5 DEF Reserve, EnforcedAccounts, Capped
  <2>2. CapOfAccount(a)' = CapOn(a, inp)
    BY <1>5 DEF CapOfAccount, CapOn
  <2>3. CapOn(a, inp) \in Nat
    BY <1>1, <1>5 DEF CapOn, Capped, Input
  <2>4. QED
    BY <2>1, <2>2, <2>3 DEF Fits
<1>6. CASE inp.job_id # NoJob /\ a[1] = <<"job", inp.caller_id, inp.job_id>>
  <2>1. Fits(a, inp)
    BY <1>2, <1>6 DEF Reserve, EnforcedAccounts
  <2>2. inp.caller_id \in Callers /\ inp.job_id \in Jobs /\ inp.cap_presented \in Nat
    BY <1>1, <1>6 DEF Input
  <2>3. job_caps'[<<inp.caller_id, inp.job_id>>] = inp.cap_presented
    BY <1>6, <2>2 DEF Reserve, TypeOK
  <2>4. CapOfAccount(a)' = inp.cap_presented
    <3>1. a[1][1] = "job" /\ a[1][2] = inp.caller_id /\ a[1][3] = inp.job_id
      BY <1>6
    <3>2. inp.cap_presented # Unpinned
      BY <2>2 DEF Unpinned
    <3>3. QED
      BY <2>3, <3>1, <3>2 DEF CapOfAccount
  <2>5. CapOn(a, inp) = inp.cap_presented
    BY <1>6 DEF CapOn
  <2>6. QED
    BY <2>1, <2>2, <2>4, <2>5 DEF Fits
<1>7. QED
  BY <1>3, <1>4, <1>5, <1>6 DEF ScopesFor

(* A reservation never lowers a cap, nor moves one it does not land on. *)
LEMMA OtherCapsStay ==
  ASSUME TypeOK, NEW inp \in Inputs, Reserve(inp), NEW a \in Accounts,
         a[1] \notin ScopesFor(inp, clock)
  PROVE  CapOfAccount(a)' = CapOfAccount(a)
<1> USE ConstantsAssumption
<1>1. CASE a[1][1] # "job"
  <2>1. a[1] \in Scopes
    BY AccountParts
  <2>2. a[1][1] \in {"project", "caller_day", "brake"}
    BY <1>1, <2>1 DEF Scopes
  <2>3. QED
    BY <1>1, <2>2 DEF CapOfAccount
<1>2. CASE a[1][1] = "job"
  <2>1. a[1] \in {"job"} \X Callers \X Jobs
    BY <1>2, AccountParts DEF Scopes
  <2>2. PICK c \in Callers, j \in Jobs : a[1] = <<"job", c, j>>
    BY <2>1
  <2>3. job_caps'[<<c, j>>] = job_caps[<<c, j>>]
    <3>1. CASE inp.job_id = NoJob
      BY <3>1 DEF Reserve
    <3>2. CASE inp.job_id # NoJob
      <4>1. <<"job", c, j>> # <<"job", inp.caller_id, inp.job_id>>
        BY <2>2, <3>2 DEF ScopesFor
      <4>2. <<c, j>> # <<inp.caller_id, inp.job_id>>
        BY <4>1
      <4>3. QED
        BY <3>2, <4>2 DEF Reserve, TypeOK
    <3>3. QED
      BY <3>1, <3>2
  <2>4. QED
    BY <2>2, <2>3 DEF CapOfAccount
<1>3. QED
  BY <1>1, <1>2

LEMMA CloseRowCaps ==
  ASSUME TypeOK, CapsHold, NEW i \in 1..Len(requests), requests[i].state = "reserved",
         NEW state \in States \ {"reserved"}, NEW amounts \in [Bases -> Nat],
         state = "released" => amounts = [b \in Bases |-> 0],
         CloseRow(i, state, amounts)
  PROVE  CapsHold'
<1> DEFINE row == requests[i]
           closed == Closed(row, state, amounts)
<1>1. row \in Row /\ closed \in Row
  <2>1. row \in Row
    BY DEF TypeOK
  <2>2. QED
    BY <2>1, ClosedType
<1>2. ASSUME NEW a \in Accounts, Capped(a)
      PROVE  Committed(a)' <= CapOfAccount(a)' + Overrun(a)'
  <2>1. Overrun(a)' = Overrun(a) + OverBy(closed, a) - OverBy(row, a)
    <3>1. requests' = [requests EXCEPT ![i] = closed]
      BY DEF CloseRow
    <3>2. QED
      BY <1>1, <3>1, UpdateSums
  <2>2. /\ ChargedBy(row, a) = 0
        /\ ChargedBy(closed, a) = IF a[1] \in RowScopes(row) THEN amounts[a[2]] ELSE 0
    BY <1>1, ClosedContribution
  <2>3. row.inp.worst[a[2]] \in Nat /\ amounts[a[2]] \in Nat
    BY <1>1, RowTypes, AccountParts
  <2>4. closed.inp = row.inp
    BY <1>1 DEF Closed, Row
  <2>5. held[a] \in Int /\ settled[a] \in Int /\ CapOfAccount(a) \in Nat /\ Overrun(a) \in Nat
    BY <1>2, CapTypes, OverrunType DEF TypeOK
  <2>6. /\ held'[a] = IF a[1] \in RowScopes(row) THEN held[a] - row.inp.worst[a[2]] ELSE held[a]
        /\ settled'[a] = IF a[1] \in RowScopes(row) THEN settled[a] + amounts[a[2]] ELSE settled[a]
    BY DEF CloseRow
  <2>7. CapOfAccount(a)' = CapOfAccount(a)
    BY DEF CapOfAccount, CloseRow
  <2>8. held[a] + settled[a] <= CapOfAccount(a) + Overrun(a)
    BY <1>2 DEF CapsHold, Committed
  <2> HIDE DEF row, closed
  <2>9. OverBy(row, a) = 0
    BY <2>2, <2>3 DEF OverBy
  <2>10. OverBy(closed, a) = IF a[1] \in RowScopes(row) /\ amounts[a[2]] > row.inp.worst[a[2]]
                             THEN amounts[a[2]] - row.inp.worst[a[2]] ELSE 0
    BY <2>2, <2>3, <2>4 DEF OverBy
  <2>11. held'[a] + settled'[a] <= CapOfAccount(a)' + Overrun(a)'
    <3>1. Overrun(a)' = Overrun(a) + OverBy(closed, a)
      BY <2>1, <2>3, <2>5, <2>9, <2>10
    <3>2. CASE a[1] \notin RowScopes(row)
      BY <2>5, <2>6, <2>7, <2>8, <2>10, <3>1, <3>2
    <3>3. CASE a[1] \in RowScopes(row)
      <4>1. PICK worst \in Nat, charged \in Nat : worst = row.inp.worst[a[2]] /\ charged = amounts[a[2]]
        BY <2>3
      <4>2. held'[a] = held[a] - worst /\ settled'[a] = settled[a] + charged
        BY <2>6, <3>3, <4>1
      <4>3. PICK over \in Int : over = OverBy(closed, a) /\ charged - worst <= over
        BY <2>10, <3>3, <4>1
      <4>4. held'[a] + settled'[a] = held[a] + settled[a] + (charged - worst)
        BY <2>5, <4>2
      <4>5. CapOfAccount(a)' + Overrun(a)' = CapOfAccount(a) + Overrun(a) + over
        BY <2>5, <2>7, <3>1, <4>3
      <4>6. held[a] + settled[a] + (charged - worst) <= CapOfAccount(a) + Overrun(a) + over
        BY <2>5, <2>8, <4>3
      <4>7. QED
        BY <4>4, <4>5, <4>6
    <3>4. QED
      BY <3>2, <3>3
  <2>12. QED
    BY <2>11 DEF Committed
<1>3. QED
  BY <1>2 DEF CapsHold, Capped

LEMMA InitCaps == Init => CapsHold
<1> SUFFICES ASSUME Init, NEW a \in Accounts, Capped(a)
             PROVE  Committed(a) <= CapOfAccount(a) + Overrun(a)
  BY DEF CapsHold
<1>1. TypeOK
  BY InitTypeOK
<1>2. CapOfAccount(a) \in Nat /\ Overrun(a) \in Nat
  BY <1>1, CapTypes, OverrunType
<1>3. Committed(a) = 0
  BY DEF Init, Committed
<1>4. QED
  BY <1>2, <1>3

LEMMA NextCaps == TypeOK /\ CapsHold /\ [Next]_vars => CapsHold'
<1> SUFFICES ASSUME TypeOK, CapsHold, [Next]_vars PROVE CapsHold'
  OBVIOUS
<1> USE ConstantsAssumption
<1>0. ASSUME UNCHANGED <<requests, held, settled, job_caps>> PROVE CapsHold'
  BY <1>0 DEF CapsHold, Capped, Committed, CapOfAccount, Overrun
<1>1. ASSUME NEW inp \in Inputs, Reserve(inp) PROVE CapsHold'
  <2> SUFFICES ASSUME NEW a \in Accounts, Capped(a)
               PROVE  Committed(a)' <= CapOfAccount(a)' + Overrun(a)'
    BY DEF CapsHold, Capped
  <2> DEFINE row == NewRow(inp)
  <2>1. row \in Row /\ requests' = Append(requests, row)
    BY <1>1, NewRowType DEF Reserve
  <2>2. Overrun(a)' = Overrun(a) + OverBy(row, a) /\ OverBy(row, a) \in Nat /\ Overrun(a) \in Nat
    BY <2>1, AppendSums, OverByType, OverrunType
  <2>3. held'[a] = held[a] + HeldBy(row, a) /\ settled'[a] = settled[a]
    BY <1>1 DEF Reserve
  <2>4. HeldBy(row, a) = IF a[1] \in ScopesFor(inp, clock) THEN inp.worst[a[2]] ELSE 0
    BY DEF HeldBy, RowScopes, NewRow
  <2>5. held[a] \in Int /\ settled[a] \in Int /\ inp.worst[a[2]] \in Nat
    BY AccountParts DEF TypeOK, Input
  <2>6. CapOfAccount(a) \in Nat
    BY CapTypes
  <2> HIDE DEF row
  <2>8. CASE a[1] \in ScopesFor(inp, clock)
    <3>1. CapOfAccount(a)' \in Nat /\ held[a] + settled[a] + inp.worst[a[2]] <= CapOfAccount(a)'
      BY <1>1, <2>8, AdmittedFits DEF Committed
    <3>2. held'[a] + settled'[a] <= CapOfAccount(a)' + Overrun(a)'
      BY <2>2, <2>3, <2>4, <2>5, <2>8, <3>1
    <3>3. QED
      BY <3>2 DEF Committed
  <2>9. CASE a[1] \notin ScopesFor(inp, clock)
    <3>1. CapOfAccount(a)' = CapOfAccount(a)
      BY <1>1, <2>9, OtherCapsStay
    <3>2. held[a] + settled[a] <= CapOfAccount(a) + Overrun(a)
      BY DEF CapsHold, Committed
    <3>3. held'[a] + settled'[a] <= CapOfAccount(a)' + Overrun(a)'
      BY <2>2, <2>3, <2>4, <2>5, <2>6, <2>9, <3>1, <3>2
    <3>4. QED
      BY <3>3 DEF Committed
  <2>10. QED
    BY <2>8, <2>9
<1>2. ASSUME NEW inp \in Inputs, NEW now \in Times, TripBrake(inp, now) PROVE CapsHold'
  BY <1>2, <1>0 DEF TripBrake
<1>3. ASSUME NEW lane \in Lanes, ResetBrake(lane) PROVE CapsHold'
  BY <1>3, <1>0 DEF ResetBrake
<1>4. ASSUME NEW i \in 1..Len(requests), MarkUpstreamStarted(i) PROVE CapsHold'
  <2> SUFFICES ASSUME NEW a \in Accounts, Capped(a)
               PROVE  Committed(a)' <= CapOfAccount(a)' + Overrun(a)'
    BY DEF CapsHold, Capped
  <2> DEFINE row == requests[i]
             marked == [row EXCEPT !.upstream_started = TRUE]
  <2>1. row \in Row /\ marked \in Row
    <3>1. row \in Row
      BY DEF TypeOK
    <3>2. QED
      BY <3>1 DEF Row
  <2>2. marked.inp = row.inp /\ marked.state = row.state /\ marked.charged = row.charged
        /\ marked.reserved_at = row.reserved_at
    BY <2>1 DEF Row
  <2>3. requests' = [requests EXCEPT ![i] = marked]
    BY <1>4 DEF MarkUpstreamStarted
  <2> HIDE DEF marked
  <2>4. OverBy(marked, a) = OverBy(row, a)
    BY <2>2 DEF OverBy, ChargedBy, RowScopes
  <2>5. Overrun(a)' = Overrun(a)
    <3>1. Overrun(a)' = Overrun(a) + OverBy(marked, a) - OverBy(row, a)
      BY <2>1, <2>3, UpdateSums
    <3>2. Overrun(a) \in Nat /\ OverBy(row, a) \in Nat
      BY <2>1, OverByType, OverrunType
    <3>3. QED
      BY <2>4, <3>1, <3>2
  <2>6. Committed(a)' = Committed(a) /\ CapOfAccount(a)' = CapOfAccount(a)
    BY <1>4 DEF MarkUpstreamStarted, Committed, CapOfAccount
  <2>7. QED
    BY <2>5, <2>6 DEF CapsHold
<1>5. ASSUME NEW i \in 1..Len(requests), NEW amounts \in Actuals, Settle(i, amounts)
      PROVE  CapsHold'
  BY <1>5, SettleCloses, CloseRowCaps
<1>6. ASSUME NEW i \in 1..Len(requests), NEW outcome \in {"released", "timeout", "aborted"},
             Finish(i, outcome)
      PROVE  CapsHold'
  <2>1. requests[i].state = "reserved"
    BY <1>6 DEF Finish, StillReserved
  <2>2. QED
    BY <1>6, <2>1, FinishCloses, CloseRowCaps
<1>7. ASSUME Crash PROVE CapsHold'
  BY <1>7, <1>0 DEF Crash
<1>8. ASSUME Boot PROVE CapsHold'
  <2> SUFFICES ASSUME NEW a \in Accounts, Capped(a)
               PROVE  Committed(a)' <= CapOfAccount(a)' + Overrun(a)'
    BY DEF CapsHold, Capped
  <2>1. Sweep
    BY <1>8 DEF Boot
  <2>2. Overrun(a)' = Overrun(a)
    BY <2>1, SweepSums
  <2>3. held'[a] = held[a] - HeldSum(a) /\ settled'[a] = settled[a] + HeldSum(a)
    BY <2>1 DEF Sweep
  <2>4. HeldSum(a) \in Nat /\ held[a] \in Int /\ settled[a] \in Int
    BY SumTypes DEF TypeOK
  <2>5. Committed(a)' = Committed(a)
    BY <2>3, <2>4 DEF Committed
  <2>6. CapOfAccount(a)' = CapOfAccount(a)
    BY <1>8 DEF Boot, CapOfAccount
  <2>7. QED
    BY <2>2, <2>5, <2>6 DEF CapsHold
<1>9. ASSUME BootFails PROVE CapsHold'
  BY <1>9, <1>0 DEF BootFails
<1>10. ASSUME NEW t \in Times, SetClock(t) PROVE CapsHold'
  BY <1>10, <1>0 DEF SetClock, stored
<1>11. CASE UNCHANGED vars
  BY <1>11, <1>0 DEF vars
<1>12. ASSUME WriteFails PROVE CapsHold'
  BY <1>12, <1>0 DEF WriteFails, stored
<1>13. QED
  BY <1>1, <1>2, <1>3, <1>4, <1>5, <1>6, <1>7, <1>8, <1>9, <1>10, <1>11, <1>12 DEF Next

(* For every instance: no enforced account ever holds and has charged more *)
(* than its cap, but for what a provider charged above a reservation.      *)
THEOREM CapsAlwaysHold == Spec => []CapsHold
<1>1. QED
  BY InitTypeOK, NextTypeOK, InitCaps, NextCaps, PTL DEF Spec

-----------------------------------------------------------------------------
(* What a step may do to one row of the table.                             *)
RowStep(old, new) ==
  \/ new = old
  \/ old.state = "reserved" /\ new = [old EXCEPT !.upstream_started = TRUE]
  \/ \E state \in States \ {"reserved"}, amounts \in [Bases -> Nat] :
       /\ old.state = "reserved"
       /\ state # "settled" /\ state # "released" => amounts = old.inp.worst
       /\ state = "released" => ~old.upstream_started
       /\ new = Closed(old, state, amounts)

LEMMA NextRows ==
  ASSUME TypeOK, [Next]_vars
  PROVE  /\ \A i \in 1..Len(requests) : i \in 1..Len(requests') /\ RowStep(requests[i], requests'[i])
         /\ \/ Len(requests') = Len(requests)
            \/ \E inp \in Inputs : Reserve(inp) /\ requests' = Append(requests, NewRow(inp))
<1> DEFINE Goal ==
      /\ \A i \in 1..Len(requests) : i \in 1..Len(requests') /\ RowStep(requests[i], requests'[i])
      /\ \/ Len(requests') = Len(requests)
         \/ \E inp \in Inputs : Reserve(inp) /\ requests' = Append(requests, NewRow(inp))
<1>0. ASSUME requests' = requests PROVE Goal
  BY <1>0 DEF RowStep
<1>2. ASSUME NEW k \in 1..Len(requests), NEW row, RowStep(requests[k], row),
             requests' = [requests EXCEPT ![k] = row]
      PROVE  Goal
  <2>1. Len(requests') = Len(requests) /\ requests'[k] = row
        /\ \A i \in 1..Len(requests) : i # k => requests'[i] = requests[i]
    BY <1>2 DEF TypeOK
  <2>2. \A i \in 1..Len(requests) : i # k => RowStep(requests[i], requests'[i])
    BY <2>1 DEF RowStep
  <2>3. RowStep(requests[k], requests'[k])
    BY <1>2, <2>1
  <2>4. QED
    BY <2>1, <2>2, <2>3
<1>3. ASSUME NEW k \in 1..Len(requests), NEW state \in States \ {"reserved"},
             NEW amounts \in [Bases -> Nat], requests[k].state = "reserved",
             state # "settled" /\ state # "released" => amounts = requests[k].inp.worst,
             state = "released" => ~requests[k].upstream_started,
             CloseRow(k, state, amounts)
      PROVE  Goal
  <2>1. requests' = [requests EXCEPT ![k] = Closed(requests[k], state, amounts)]
    BY <1>3 DEF CloseRow
  <2>2. RowStep(requests[k], Closed(requests[k], state, amounts))
    BY <1>3 DEF RowStep
  <2> HIDE DEF Goal
  <2>3. QED
    BY <1>2, <2>1, <2>2
<1>1. ASSUME NEW inp \in Inputs, Reserve(inp) PROVE Goal
  <2>1. requests' = Append(requests, NewRow(inp))
    BY <1>1 DEF Reserve
  <2>2. \A i \in 1..Len(requests) : i \in 1..Len(requests') /\ requests'[i] = requests[i]
    BY <2>1 DEF TypeOK
  <2>3. QED
    BY <1>1, <2>1, <2>2 DEF RowStep
<1>4. ASSUME NEW i \in 1..Len(requests), MarkUpstreamStarted(i) PROVE Goal
  <2>1. requests[i].state = "reserved"
        /\ requests' = [requests EXCEPT ![i] = [requests[i] EXCEPT !.upstream_started = TRUE]]
    BY <1>4 DEF MarkUpstreamStarted, StillReserved
  <2>2. RowStep(requests[i], [requests[i] EXCEPT !.upstream_started = TRUE])
    BY <2>1 DEF RowStep
  <2> HIDE DEF Goal
  <2>3. QED
    BY <1>2, <2>1, <2>2
<1>5. ASSUME NEW i \in 1..Len(requests), NEW amounts \in Actuals, Settle(i, amounts) PROVE Goal
  <2> HIDE DEF Goal
  <2>1. QED
    BY <1>5, <1>3, SettleCloses
<1>6. ASSUME NEW i \in 1..Len(requests), NEW outcome \in {"released", "timeout", "aborted"},
             Finish(i, outcome)
      PROVE  Goal
  <2>1. requests[i].state = "reserved"
    BY <1>6 DEF Finish, StillReserved
  <2>2. FinalState(requests[i], outcome) = "released" => ~requests[i].upstream_started
    BY DEF FinalState
  <2> HIDE DEF Goal
  <2>3. QED
    BY <1>6, <1>3, <2>1, <2>2, FinishCloses
<1>8. ASSUME Boot PROVE Goal
  <2>1. Len(requests') = Len(requests)
        /\ \A i \in 1..Len(requests) : requests'[i] = Swept(requests[i]) /\ requests[i] \in Row
    BY <1>8 DEF Boot, Sweep, TypeOK
  <2>2. \A row \in Row : RowStep(row, Swept(row))
    <3>1. "swept" \in States \ {"reserved"} /\ "swept" # "released"
      BY DEF States, ChargedStates
    <3>2. \A row \in Row : row.inp.worst \in [Bases -> Nat]
      BY DEF Row, Input
    <3>3. QED
      BY <3>1, <3>2 DEF RowStep, Swept
  <2>3. QED
    BY <2>1, <2>2
<1>9. ASSUME NEW inp \in Inputs, NEW now \in Times, TripBrake(inp, now) PROVE Goal
  BY <1>9, <1>0 DEF TripBrake
<1>10. ASSUME NEW lane \in Lanes, ResetBrake(lane) PROVE Goal
  BY <1>10, <1>0 DEF ResetBrake
<1>11. ASSUME WriteFails \/ Crash \/ BootFails \/ UNCHANGED vars PROVE Goal
  BY <1>11, <1>0 DEF WriteFails, Crash, BootFails, stored, vars
<1>12. ASSUME NEW t \in Times, SetClock(t) PROVE Goal
  BY <1>12, <1>0 DEF SetClock, stored
<1> HIDE DEF Goal
<1>13. Goal
  BY <1>1, <1>4, <1>5, <1>6, <1>8, <1>9, <1>10, <1>11, <1>12 DEF Next
<1>14. QED
  BY <1>13 DEF Goal

(* No late completion, crash or sweep rewrites a row that was closed.      *)
THEOREM ClosedRowsAreFinal == Spec => TerminalRowsFinal
<1>1. TypeOK /\ [Next]_vars =>
        [\A i \in 1..Len(requests) : requests[i].state # "reserved" => requests'[i] = requests[i]]_vars
  BY NextRows DEF RowStep
<1>2. QED
  BY <1>1, TypeCorrect, PTL DEF Spec, TerminalRowsFinal

(* A generation seen to start is never given back for free, and unknown    *)
(* spend is charged what was reserved for it.                              *)
THEOREM NothingStartedIsFree == Spec => []NoFreeGeneration
<1> DEFINE Fair(row) ==
      /\ row.upstream_started => row.state # "released"
      /\ row.state \in ChargedStates \ {"settled"} => row.charged = row.inp.worst
<1>1. Init => NoFreeGeneration
  BY DEF Init, NoFreeGeneration
<1>2. TypeOK /\ NoFreeGeneration /\ [Next]_vars => NoFreeGeneration'
  <2> SUFFICES ASSUME TypeOK, NoFreeGeneration, [Next]_vars PROVE NoFreeGeneration'
    OBVIOUS
  <2>1. ASSUME NEW old \in Row, NEW new, Fair(old), RowStep(old, new) PROVE Fair(new)
    <3>1. CASE new = old
      BY <2>1, <3>1
    <3>2. CASE old.state = "reserved" /\ new = [old EXCEPT !.upstream_started = TRUE]
      <4>1. new.state = "reserved"
        BY <3>2 DEF Row
      <4>2. QED
        BY <4>1 DEF ChargedStates
    <3>3. ASSUME NEW state \in States \ {"reserved"}, NEW amounts \in [Bases -> Nat],
                 old.state = "reserved",
                 state # "settled" /\ state # "released" => amounts = old.inp.worst,
                 state = "released" => ~old.upstream_started,
                 new = Closed(old, state, amounts)
          PROVE  Fair(new)
      <4>1. new.state = state /\ new.charged = amounts /\ new.inp = old.inp
            /\ new.upstream_started = old.upstream_started
        BY <3>3 DEF Closed, Row
      <4>2. QED
        BY <3>3, <4>1 DEF ChargedStates
    <3>4. QED
      BY <2>1, <3>1, <3>2, <3>3 DEF RowStep
  <2>2. \A inp : Fair(NewRow(inp))
    BY DEF NewRow, ChargedStates
  <2>3. ASSUME NEW i \in 1..Len(requests') PROVE Fair(requests'[i])
    <3>1. CASE i \in 1..Len(requests)
      <4>1. requests[i] \in Row /\ Fair(requests[i]) /\ RowStep(requests[i], requests'[i])
        BY <3>1, NextRows DEF TypeOK, NoFreeGeneration
      <4> HIDE DEF Fair
      <4>2. QED
        BY <2>1, <4>1
    <3>2. CASE i \notin 1..Len(requests)
      <4>1. PICK inp \in Inputs : requests' = Append(requests, NewRow(inp))
        BY <3>2, NextRows
      <4>2. requests'[i] = NewRow(inp)
        BY <3>2, <4>1 DEF TypeOK
      <4> HIDE DEF Fair
      <4>3. QED
        BY <2>2, <4>2
    <3>3. QED
      BY <3>1, <3>2
  <2>4. QED
    BY <2>3 DEF NoFreeGeneration
<1>3. QED
  BY <1>1, <1>2, TypeCorrect, PTL DEF Spec

-----------------------------------------------------------------------------
(* Days and periods follow the clock.                                      *)
LEMMA DivMonotone ==
  ASSUME NEW d \in Nat \ {0}, NEW m \in Nat, NEW n \in Nat, m <= n
  PROVE  m \div d <= n \div d /\ m \div d \in Nat /\ n \div d \in Nat
<1> DEFINE x == m \div d
           y == n \div d
<1>1. /\ x \in Int /\ m % d \in Int /\ m = d * x + (m % d) /\ 0 <= m % d /\ m % d < d
      /\ y \in Int /\ n % d \in Int /\ n = d * y + (n % d) /\ 0 <= n % d /\ n % d < d
  BY SMT
<1> HIDE DEF x, y
<1>2. ASSUME y < x PROVE FALSE
  <2>1. d * (y + 1) <= d * x
    <3>1. y + 1 <= x
      BY <1>1, <1>2
    <3>2. QED
      BY <1>1, <3>1, SMT
  <2>2. d * (y + 1) = d * y + d /\ d * y \in Int /\ d * x \in Int
    BY <1>1, SMT
  <2>3. QED
    BY <1>1, <2>1, <2>2
<1>3. ASSUME x < 0 PROVE FALSE
  <2>1. d * (x + 1) <= 0
    <3>1. x + 1 <= 0
      BY <1>1, <1>3
    <3>2. QED
      BY <1>1, <3>1, SMT
  <2>2. d * (x + 1) = d * x + d /\ d * x \in Int
    BY <1>1, SMT
  <2>3. QED
    BY <1>1, <2>1, <2>2
<1>4. QED
  BY <1>1, <1>2, <1>3 DEF x, y

LEMMA PeriodMonotone ==
  ASSUME NEW s \in Times, NEW t \in Times, s <= t
  PROVE  Period(s) <= Period(t) /\ Period(s) \in Nat /\ Period(t) \in Nat
<1> USE ConstantsAssumption
<1>1. s \in Nat /\ t \in Nat
  BY DEF Times
<1>2. Day(s) <= Day(t) /\ Day(s) \in Nat /\ Day(t) \in Nat
  BY <1>1, DivMonotone DEF Day
<1>3. QED
  BY <1>2, DivMonotone DEF Period

(* The high-water mark: last_commit is at or after every admission.  It is *)
(* what ClockGuard compares with, so PeriodsNeverReopen is not inductive   *)
(* without it.                                                             *)
HighWater ==
  \A i \in 1..Len(requests) : last_commit # NoTime /\ requests[i].reserved_at <= last_commit

LEMMA LastCommitGrows ==
  ASSUME TypeOK, [Next]_vars
  PROVE  last_commit' >= last_commit
<1> USE ConstantsAssumption DEF Times, NoTime
<1>0. last_commit \in Int /\ clock \in Int
  BY DEF TypeOK
<1>1. ASSUME UNCHANGED last_commit PROVE last_commit' >= last_commit
  BY <1>0, <1>1
<1>2. ASSUME TouchCommit(clock) PROVE last_commit' >= last_commit
  BY <1>0, <1>2 DEF TouchCommit
<1>3. ASSUME Sweep PROVE last_commit' >= last_commit
  BY <1>0, <1>3 DEF Sweep
<1>4. QED
  BY <1>1, <1>2, <1>3 DEF Next, Reserve, TripBrake, ResetBrake, MarkUpstreamStarted, Settle,
     Finish, CloseRow, WriteFails, Crash, Boot, BootFails, SetClock, stored, vars

LEMMA NextHighWater ==
  ASSUME TypeOK, HighWater, PeriodsNeverReopen, [Next]_vars
  PROVE  HighWater' /\ PeriodsNeverReopen'
<1> USE ConstantsAssumption
<1>0. /\ last_commit \in Times \cup {NoTime} /\ clock \in Times /\ last_commit' >= last_commit
      /\ last_commit' \in Times \cup {NoTime}
      /\ \A t \in Times : t \in Nat
  BY LastCommitGrows, NextTypeOK DEF TypeOK, Times
<1>1. ASSUME NEW i \in 1..Len(requests)
      PROVE  /\ requests[i].reserved_at \in Times
             /\ requests'[i].reserved_at = requests[i].reserved_at
  <2>1. requests[i] \in Row /\ RowStep(requests[i], requests'[i])
    BY NextRows DEF TypeOK
  <2>2. \A old \in Row : \A new : RowStep(old, new) => new.reserved_at = old.reserved_at
    BY DEF RowStep, Closed, Row
  <2>3. QED
    BY <2>1, <2>2 DEF Row
<1>2. CASE Len(requests') = Len(requests)
  <2>1. HighWater'
    BY <1>0, <1>1, <1>2 DEF HighWater, NoTime
  <2>2. PeriodsNeverReopen'
    BY <1>1, <1>2 DEF PeriodsNeverReopen
  <2>3. QED
    BY <2>1, <2>2
<1>3. ASSUME NEW inp \in Inputs, Reserve(inp), requests' = Append(requests, NewRow(inp))
      PROVE  HighWater' /\ PeriodsNeverReopen'
  <2> DEFINE n == Len(requests)
  <2>1. n \in Nat /\ Len(requests') = n + 1 /\ requests'[n + 1].reserved_at = clock
    BY <1>3 DEF TypeOK, NewRow
  <2>2. last_commit' >= clock /\ last_commit' # NoTime
    BY <1>0, <1>3 DEF Reserve, TouchCommit, NoTime, Times
  <2>3. HighWater'
    BY <1>0, <1>1, <2>1, <2>2 DEF HighWater, NoTime
  <2>4. ASSUME NEW i \in 1..n
        PROVE  /\ Period(requests[i].reserved_at) <= Period(clock)
               /\ requests[i].reserved_at - Skew <= clock
    <3>1. /\ last_commit \in Times /\ requests[i].reserved_at \in Times
          /\ requests[i].reserved_at <= last_commit
      BY <1>0, <1>1, <2>4 DEF HighWater
    <3>2. clock >= last_commit - Skew /\ Period(clock) >= Period(last_commit)
      BY <1>3, <3>1 DEF Reserve, ClockGuard, NoTime, HighWater
    <3>3. Period(requests[i].reserved_at) <= Period(last_commit)
          /\ Period(requests[i].reserved_at) \in Nat /\ Period(last_commit) \in Nat
      BY <3>1, PeriodMonotone
    <3>4. Period(clock) \in Nat
      BY <1>0, PeriodMonotone
    <3>5. QED
      BY <1>0, <3>1, <3>2, <3>3, <3>4
  <2>5. ASSUME NEW i \in 1..(n + 1), NEW j \in 1..(n + 1), i < j
        PROVE  /\ Period(requests'[i].reserved_at) <= Period(requests'[j].reserved_at)
               /\ requests'[i].reserved_at - Skew <= requests'[j].reserved_at
    <3>1. CASE j = n + 1
      <4>1. i \in 1..n
        BY <2>1, <2>5, <3>1
      <4>2. QED
        BY <1>1, <2>1, <2>4, <3>1, <4>1
    <3>2. CASE j # n + 1
      <4>1. i \in 1..n /\ j \in 1..n
        BY <2>1, <2>5, <3>2
      <4>2. QED
        BY <1>1, <2>5, <4>1 DEF PeriodsNeverReopen
    <3>3. QED
      BY <3>1, <3>2
  <2>6. PeriodsNeverReopen'
    BY <2>1, <2>5 DEF PeriodsNeverReopen
  <2>7. QED
    BY <2>3, <2>6
<1>4. QED
  BY <1>2, <1>3, NextRows

(* Whatever the clock does, also over restarts, no row is ever admitted to *)
(* a period before one already used.                                       *)
THEOREM SpentPeriodsStayClosed == Spec => []PeriodsNeverReopen
<1>1. Init => HighWater /\ PeriodsNeverReopen
  BY DEF Init, HighWater, PeriodsNeverReopen
<1>2. TypeOK /\ HighWater /\ PeriodsNeverReopen /\ [Next]_vars => HighWater' /\ PeriodsNeverReopen'
  BY NextHighWater
<1>3. QED
  BY <1>1, <1>2, TypeCorrect, PTL DEF Spec

-----------------------------------------------------------------------------
(* Whenever the gateway serves, its cached commit time is the file's.      *)
CacheIsDurable == mode = "ready" => commit_cache = last_commit

(* The lock-free readiness gate never disagrees with the file.             *)
THEOREM GateAlwaysAgrees == Spec => []GateAgrees
<1>1. Init => CacheIsDurable
  BY DEF Init, CacheIsDurable
<1>2. TypeOK /\ CacheIsDurable /\ [Next]_vars => CacheIsDurable'
  <2> SUFFICES ASSUME TypeOK, CacheIsDurable, [Next]_vars PROVE CacheIsDurable'
    OBVIOUS
  <2>1. ASSUME TouchCommit(clock), mode = "ready" PROVE CacheIsDurable'
    BY <2>1, ConstantsAssumption DEF TypeOK, Times, CacheIsDurable, TouchCommit, Publish, Staged, AtBegin, NoTime
  <2>2. ASSUME commit_cache' = commit_cache, last_commit' = last_commit, mode' = mode
        PROVE  CacheIsDurable'
    BY <2>2 DEF CacheIsDurable
  <2>3. ASSUME NEW inp \in Inputs, Reserve(inp) PROVE CacheIsDurable'
    BY <2>1, <2>3 DEF Reserve
  <2>4. ASSUME NEW i \in 1..Len(requests), NEW amounts \in Actuals, Settle(i, amounts)
        PROVE  CacheIsDurable'
    BY <2>1, <2>4 DEF Settle, CloseRow, StillReserved
  <2>5. ASSUME NEW i \in 1..Len(requests), NEW outcome \in {"released", "timeout", "aborted"},
               Finish(i, outcome)
        PROVE  CacheIsDurable'
    BY <2>1, <2>5 DEF Finish, CloseRow, StillReserved
  <2>6. ASSUME NEW inp \in Inputs, NEW now \in Times, TripBrake(inp, now) PROVE CacheIsDurable'
    BY <2>2, <2>6 DEF TripBrake, Publish, AtBegin
  <2>7. ASSUME NEW lane \in Lanes, ResetBrake(lane) PROVE CacheIsDurable'
    BY <2>2, <2>7 DEF ResetBrake, Publish, AtBegin
  <2>8. ASSUME NEW i \in 1..Len(requests), MarkUpstreamStarted(i) PROVE CacheIsDurable'
    BY <2>2, <2>8 DEF MarkUpstreamStarted, Publish, AtBegin
  <2>9. ASSUME WriteFails \/ (\E t \in Times : SetClock(t)) \/ UNCHANGED vars PROVE CacheIsDurable'
    <3>1. commit_cache' = commit_cache /\ last_commit' = last_commit /\ mode' = mode
      BY <2>9 DEF WriteFails, SetClock, stored, vars
    <3>2. QED
      BY <2>2, <3>1
  <2>10. ASSUME Crash \/ BootFails PROVE CacheIsDurable'
    BY <2>10 DEF Crash, BootFails, CacheIsDurable
  <2>11. ASSUME Boot PROVE CacheIsDurable'
    BY <2>11 DEF Boot, Sweep, CacheIsDurable
  <2>12. QED
    BY <2>3, <2>4, <2>5, <2>6, <2>7, <2>8, <2>9, <2>10, <2>11 DEF Next
<1>3. CacheIsDurable => GateAgrees
  BY DEF CacheIsDurable, GateAgrees, ClockOk
<1>4. QED
  BY <1>1, <1>2, <1>3, TypeCorrect, PTL DEF Spec
-----------------------------------------------------------------------------
(* Only a reservation that is admitted writes a pin. *)
LEMMA OnlyReservePins ==
  ASSUME [Next]_vars, ~(\E inp \in Inputs : Reserve(inp))
  PROVE  job_caps' = job_caps
<1>1. CASE \E inp \in Inputs, now \in Times : TripBrake(inp, now)
  BY <1>1 DEF TripBrake
<1>2. CASE (\E lane \in Lanes : ResetBrake(lane)) \/ Boot \/ BootFails \/ Crash \/ UNCHANGED vars
  BY <1>2 DEF ResetBrake, Boot, BootFails, Crash, vars
<1>3. CASE WriteFails \/ \E t \in Times : SetClock(t)
  BY <1>3 DEF WriteFails, SetClock, stored
<1>4. CASE \E i \in 1..Len(requests) : MarkUpstreamStarted(i)
  BY <1>4 DEF MarkUpstreamStarted
<1>5. CASE \E i \in 1..Len(requests), amounts \in Actuals : Settle(i, amounts)
  BY <1>5 DEF Settle, CloseRow
<1>6. CASE \E i \in 1..Len(requests), outcome \in {"released", "timeout", "aborted"} : Finish(i, outcome)
  BY <1>6 DEF Finish, CloseRow
<1>7. QED
  BY <1>1, <1>2, <1>3, <1>4, <1>5, <1>6 DEF Next

(* A job keeps one cap for all its rows, whoever presents which cap later. *)
THEOREM JobCapsNeverDrift == Spec => []PinIsStable
<1> DEFINE Pinned(inp, caps) ==
      inp.job_id # NoJob => caps[<<inp.caller_id, inp.job_id>>] = inp.cap_presented
<1>1. Init => PinIsStable
  BY DEF Init, PinIsStable
<1>2. TypeOK /\ PinIsStable /\ [Next]_vars => PinIsStable'
  <2> SUFFICES ASSUME TypeOK, PinIsStable, [Next]_vars PROVE PinIsStable'
    OBVIOUS
  <2>1. \A i \in 1..Len(requests) :
          requests[i].inp \in Input /\ Pinned(requests[i].inp, job_caps) /\ requests'[i].inp = requests[i].inp
    <3>1. \A i \in 1..Len(requests) : requests[i] \in Row /\ RowStep(requests[i], requests'[i])
      BY NextRows DEF TypeOK
    <3>2. \A row \in Row : \A new : RowStep(row, new) => new.inp = row.inp
      BY DEF RowStep, Closed, Row
    <3>3. \A row \in Row : row.inp \in Input
      BY DEF Row
    <3>4. QED
      BY <3>1, <3>2, <3>3 DEF PinIsStable
  <2>2. ASSUME NEW inp \in Inputs, Reserve(inp) PROVE PinIsStable'
    <3>1. inp \in Input /\ requests' = Append(requests, NewRow(inp))
      BY <2>2, ConstantsAssumption DEF Reserve
    <3>2. job_caps' = IF inp.job_id = NoJob THEN job_caps
                      ELSE [job_caps EXCEPT ![<<inp.caller_id, inp.job_id>>] = inp.cap_presented]
      BY <2>2 DEF Reserve
    <3>3. inp.job_id # NoJob =>
            /\ <<inp.caller_id, inp.job_id>> \in Callers \X Jobs
            /\ job_caps[<<inp.caller_id, inp.job_id>>] \in {Unpinned, inp.cap_presented}
      BY <2>2, <3>1 DEF Reserve, RequestCapAllows, Input
    <3>4. Pinned(inp, job_caps')
      BY <3>2, <3>3 DEF TypeOK
    <3>5. ASSUME NEW i \in 1..Len(requests) PROVE Pinned(requests[i].inp, job_caps')
      <4> DEFINE old == requests[i].inp
      <4>1. old \in Input /\ Pinned(old, job_caps)
        BY <2>1
      <4>2. old.cap_presented # Unpinned
        BY <4>1 DEF Input, Unpinned
      <4>3. CASE inp.job_id = NoJob
        BY <3>2, <4>1, <4>3
      <4>4. CASE inp.job_id # NoJob /\ old.job_id # NoJob
                 /\ <<old.caller_id, old.job_id>> = <<inp.caller_id, inp.job_id>>
        BY <3>2, <3>3, <4>1, <4>2, <4>4 DEF TypeOK
      <4>5. CASE inp.job_id # NoJob
                 /\ (old.job_id # NoJob => <<old.caller_id, old.job_id>> # <<inp.caller_id, inp.job_id>>)
        <5>1. old.job_id # NoJob => <<old.caller_id, old.job_id>> \in Callers \X Jobs
          BY <4>1 DEF Input
        <5>2. QED
          BY <3>2, <3>3, <4>1, <4>5, <5>1 DEF TypeOK
      <4>6. QED
        BY <4>3, <4>4, <4>5
    <3>6. ASSUME NEW i \in 1..Len(requests') PROVE Pinned(requests'[i].inp, job_caps')
      <4>1. CASE i \in 1..Len(requests)
        BY <2>1, <3>5, <4>1
      <4>2. CASE i \notin 1..Len(requests)
        <5>1. requests'[i] = NewRow(inp)
          BY <3>1, <4>2 DEF TypeOK
        <5>2. requests'[i].inp = inp
          BY <5>1 DEF NewRow
        <5>3. QED
          BY <3>4, <5>2
      <4>3. QED
        BY <4>1, <4>2
    <3>7. QED
      BY <3>6 DEF PinIsStable
  <2>3. ASSUME Len(requests') = Len(requests), job_caps' = job_caps PROVE PinIsStable'
    BY <2>1, <2>3 DEF PinIsStable
  <2>4. ASSUME ~(\E inp \in Inputs : Reserve(inp)) PROVE Len(requests') = Len(requests)
    BY <2>4, NextRows
  <2>5. ASSUME ~(\E inp \in Inputs : Reserve(inp)) PROVE job_caps' = job_caps
    BY <2>5, OnlyReservePins
  <2>6. QED
    BY <2>2, <2>3, <2>4, <2>5
<1>3. QED
  BY <1>1, <1>2, TypeCorrect, PTL DEF Spec

-----------------------------------------------------------------------------
(* Nothing but a boot that recomputed its totals starts to serve. *)
LEMMA OnlyBootListens ==
  ASSUME TypeOK, [Next]_vars, mode # "ready", mode' = "ready"
  PROVE  Boot
<1>1. CASE \E i \in 1..Len(requests) : MarkUpstreamStarted(i)
  BY <1>1 DEF MarkUpstreamStarted
<1>2. CASE \E i \in 1..Len(requests) :
             \/ \E amounts \in Actuals : Settle(i, amounts)
             \/ \E outcome \in {"released", "timeout", "aborted"} : Finish(i, outcome)
  BY <1>2 DEF Settle, Finish, StillReserved
<1>3. CASE Boot
  BY <1>3
<1>4. CASE Crash \/ BootFails \/ WriteFails \/ UNCHANGED vars \/ \E t \in Times : SetClock(t)
  BY <1>4 DEF Crash, BootFails, WriteFails, SetClock, vars
<1>5. CASE \/ \E inp \in Inputs : Reserve(inp)
           \/ \E inp \in Inputs, now \in Times : TripBrake(inp, now)
           \/ \E lane \in Lanes : ResetBrake(lane)
  BY <1>5 DEF Reserve, TripBrake, ResetBrake
<1>6. QED
  BY <1>1, <1>2, <1>3, <1>4, <1>5 DEF Next

(* The listener opens only on a boot whose sweep closed every orphan.      *)
THEOREM ListenerFindsNoOrphan == Spec => NoOrphanAtListen
<1>1. ASSUME TypeOK, [Next]_vars, mode # "ready", mode' = "ready" PROVE Boot
  BY <1>1, OnlyBootListens
<1>2. ASSUME TypeOK, Boot PROVE \A i \in 1..Len(requests') : requests'[i].state # "reserved"
  <2>1. Len(requests') = Len(requests)
        /\ \A i \in 1..Len(requests) : requests'[i] = Swept(requests[i]) /\ requests[i] \in Row
    BY <1>2 DEF Boot, Sweep, TypeOK
  <2>2. \A row \in Row : Swept(row).state # "reserved"
    BY DEF Swept, Closed, Row
  <2>3. QED
    BY <2>1, <2>2
<1>3. TypeOK /\ [Next]_vars =>
        [mode # "ready" /\ mode' = "ready" =>
           \A i \in 1..Len(requests') : requests'[i].state # "reserved"]_vars
  BY <1>1, <1>2
<1>4. QED
  BY <1>3, TypeCorrect, PTL DEF Spec, NoOrphanAtListen

(* Only a reservation on an account makes it hold more.                    *)
LEMMA HeldOnlyShrinks ==
  ASSUME TypeOK, [Next]_vars, NEW a \in Accounts,
         \A inp \in Inputs : ~(Reserve(inp) /\ a[1] \in ScopesFor(inp, clock))
  PROVE  held'[a] <= held[a]
<1>0. held[a] \in Int
  BY DEF TypeOK
<1>1. ASSUME NEW inp \in Inputs, Reserve(inp) PROVE held'[a] <= held[a]
  <2>1. NewRow(inp).inp = inp /\ NewRow(inp).reserved_at = clock
    BY DEF NewRow
  <2>2. HeldBy(NewRow(inp), a) = 0
    BY <1>1, <2>1 DEF HeldBy, RowScopes
  <2>3. QED
    BY <1>0, <1>1, <2>2 DEF Reserve
<1>2. ASSUME NEW i \in 1..Len(requests), NEW state, NEW amounts, CloseRow(i, state, amounts)
      PROVE  held'[a] <= held[a]
  <2>1. requests[i] \in Row
    BY DEF TypeOK
  <2>2. requests[i].inp.worst[a[2]] \in Nat
    BY <2>1, RowTypes
  <2>3. held'[a] = held[a] - requests[i].inp.worst[a[2]] \/ held'[a] = held[a]
    BY <1>2 DEF CloseRow
  <2>4. QED
    BY <1>0, <2>2, <2>3
<1>3. ASSUME NEW i \in 1..Len(requests), NEW amounts \in Actuals, Settle(i, amounts)
      PROVE  held'[a] <= held[a]
  BY <1>2, <1>3 DEF Settle
<1>4. ASSUME NEW i \in 1..Len(requests), NEW outcome \in {"released", "timeout", "aborted"},
             Finish(i, outcome)
      PROVE  held'[a] <= held[a]
  BY <1>2, <1>4, FinishCloses
<1>5. ASSUME Boot PROVE held'[a] <= held[a]
  <2>1. HeldSum(a) \in Nat
    BY SumTypes
  <2>2. held'[a] = held[a] - HeldSum(a)
    BY <1>5 DEF Boot, Sweep
  <2>3. QED
    BY <1>0, <2>1, <2>2
<1>6. ASSUME held' = held PROVE held'[a] <= held[a]
  BY <1>0, <1>6
<1>7. ASSUME \/ \E inp \in Inputs, now \in Times : TripBrake(inp, now)
             \/ \E lane \in Lanes : ResetBrake(lane)
             \/ \E i \in 1..Len(requests) : MarkUpstreamStarted(i)
      PROVE  held' = held
  BY <1>7 DEF TripBrake, ResetBrake, MarkUpstreamStarted
<1>8. ASSUME Crash \/ BootFails \/ WriteFails \/ UNCHANGED vars \/ \E t \in Times : SetClock(t)
      PROVE  held' = held
  BY <1>8 DEF Crash, BootFails, WriteFails, SetClock, stored, vars
<1>9. QED
  BY <1>1, <1>3, <1>4, <1>5, <1>6, <1>7, <1>8 DEF Next

(* A latched lane holds nothing more of that day until it is reset, also   *)
(* when settlements made room under the ceiling.                           *)
THEOREM LatchedLanesStop == Spec => LatchStopsLane
<1> DEFINE Latched(l) == brakes[l].tripped_at # NoTime /\ Day(brakes[l].tripped_at) = Day(clock)
<1>1. ASSUME TypeOK, [Next]_vars, NEW l \in Lanes, Latched(l), ~brakes[l].reset,
             NEW a \in Accounts, a[1] = <<"brake", l, Day(clock)>>
      PROVE  held'[a] <= held[a]
  <2>1. ASSUME NEW inp \in Inputs, Reserve(inp), a[1] \in ScopesFor(inp, clock) PROVE FALSE
    <3>1. inp.lane_used = l
      BY <1>1, <2>1 DEF ScopesFor
    <3>2. BrakeTripped(l, clock)
      BY <1>1 DEF BrakeTripped
    <3>3. QED
      BY <2>1, <3>1, <3>2 DEF Reserve
  <2>2. QED
    BY <1>1, <2>1, HeldOnlyShrinks
<1>2. TypeOK /\ [Next]_vars =>
        [\A l \in Lanes :
           LET latched == brakes[l].tripped_at # NoTime /\ Day(brakes[l].tripped_at) = Day(clock)
           IN  latched /\ ~brakes[l].reset /\ ~brakes'[l].reset =>
                 \A a \in Accounts : a[1] = <<"brake", l, Day(clock)>> => held'[a] <= held[a]]_vars
  BY <1>1
<1>3. QED
  BY <1>2, TypeCorrect, PTL DEF Spec, LatchStopsLane

-----------------------------------------------------------------------------
(* The books over a restart.  A boot that gets as far as recompute_totals  *)
(* finds no mismatch and serves: the branch of main.py (116-121) that      *)
(* keeps the gateway alive but refusing, "a human looks at the ledger", is *)
(* never taken for a difference the ledger's own methods made.             *)
RecomputeFindsNothing == [][Boot => mode' = "ready"]_vars

(* A boot that swept never blocks on its totals. *)
THEOREM NoBootIsBlocked == Spec => RecomputeFindsNothing
<1>1. TypeOK /\ TotalsMatchRows /\ [Next]_vars => [Boot => mode' = "ready"]_vars
  <2>1. ASSUME TypeOK, TotalsMatchRows, [Next]_vars, Boot PROVE mode' = "ready"
    <3>1. TotalsMatchRows'
      BY <2>1, NextTotals
    <3>2. QED
      BY <2>1, <3>1 DEF Boot, TotalsMatchRows
  <2>2. QED
    BY <2>1
<1>2. QED
  BY <1>1, TypeCorrect, TotalsAlwaysMatchRows, PTL DEF Spec, RecomputeFindsNothing

(* A restart strands no money: when the listener opens, nothing is held on *)
(* any account, and every account was charged exactly what it still held,  *)
(* whatever the row that held it was doing when the process died.          *)
RestartChargesWhatWasHeld ==
  [][mode # "ready" /\ mode' = "ready" =>
       \A a \in Accounts : held'[a] = 0 /\ settled'[a] = settled[a] + held[a]]_vars

(* A step that opens the listener turns all held money into spent money. *)
THEOREM RestartsStrandNothing == Spec => RestartChargesWhatWasHeld
<1>1. ASSUME TypeOK, TotalsMatchRows, [Next]_vars, mode # "ready", mode' = "ready", NEW a \in Accounts
      PROVE  held'[a] = 0 /\ settled'[a] = settled[a] + held[a]
  <2>1. held'[a] = held[a] - HeldSum(a) /\ settled'[a] = settled[a] + HeldSum(a)
    BY <1>1, OnlyBootListens DEF Boot, Sweep
  <2>2. held[a] = HeldSum(a) /\ held[a] \in Int
    BY <1>1 DEF TypeOK, TotalsMatchRows, TotalsRecompute
  <2>3. QED
    BY <2>1, <2>2
<1>2. TypeOK /\ TotalsMatchRows /\ [Next]_vars =>
        [mode # "ready" /\ mode' = "ready" =>
           \A a \in Accounts : held'[a] = 0 /\ settled'[a] = settled[a] + held[a]]_vars
  BY <1>1
<1>3. QED
  BY <1>2, TypeCorrect, TotalsAlwaysMatchRows, PTL DEF Spec, RestartChargesWhatWasHeld

(* The closing statement subtracts without asking (held_micro - ?): no     *)
(* counter of any account goes below zero, whatever completes twice, late  *)
(* or after a sweep.                                                       *)
CountersStayNatural == \A a \in Accounts : held[a] \in Nat /\ settled[a] \in Nat

(* No counter of scope_totals is ever negative. *)
THEOREM NoCounterGoesNegative == Spec => []CountersStayNatural
<1>1. TypeOK /\ TotalsMatchRows => CountersStayNatural
  BY SumTypes DEF TotalsMatchRows, TotalsRecompute, CountersStayNatural
<1>2. QED
  BY <1>1, TypeCorrect, TotalsAlwaysMatchRows, PTL

(* Spend is never taken back: no completion, failed write, crash or boot   *)
(* lowers what an account was charged.                                     *)
SpendOnlyGrows == [][\A a \in Accounts : settled[a] <= settled'[a]]_vars

(* What an account was charged only ever grows. *)
THEOREM SpendIsNeverTakenBack == Spec => SpendOnlyGrows
<1>1. ASSUME TypeOK, [Next]_vars, NEW a \in Accounts PROVE settled[a] <= settled'[a]
  <2>0. settled[a] \in Int /\ a[2] \in Bases
    BY <1>1, AccountParts DEF TypeOK
  <2>1. ASSUME settled' = settled PROVE settled[a] <= settled'[a]
    BY <2>0, <2>1
  <2>2. ASSUME NEW i, NEW state, NEW amounts \in [Bases -> Nat], CloseRow(i, state, amounts)
        PROVE  settled[a] <= settled'[a]
    <3>1. amounts[a[2]] \in Nat
      BY <2>0
    <3>2. settled'[a] = settled[a] + amounts[a[2]] \/ settled'[a] = settled[a]
      BY <2>2 DEF CloseRow
    <3>3. QED
      BY <2>0, <3>1, <3>2
  <2>3. ASSUME NEW i \in 1..Len(requests), NEW amounts \in Actuals, Settle(i, amounts)
        PROVE  settled[a] <= settled'[a]
    BY <2>2, <2>3, SettleCloses
  <2>4. ASSUME NEW i \in 1..Len(requests), NEW outcome \in {"released", "timeout", "aborted"},
               Finish(i, outcome)
        PROVE  settled[a] <= settled'[a]
    BY <1>1, <2>2, <2>4, FinishCloses
  <2>5. ASSUME Boot PROVE settled[a] <= settled'[a]
    <3>1. HeldSum(a) \in Nat /\ settled'[a] = settled[a] + HeldSum(a)
      BY <1>1, <2>5, SumTypes DEF Boot, Sweep
    <3>2. QED
      BY <2>0, <3>1
  <2>6. ASSUME \/ \E inp \in Inputs : Reserve(inp)
               \/ \E inp \in Inputs, now \in Times : TripBrake(inp, now)
               \/ \E lane \in Lanes : ResetBrake(lane)
               \/ \E i \in 1..Len(requests) : MarkUpstreamStarted(i)
        PROVE  settled' = settled
    BY <2>6 DEF Reserve, TripBrake, ResetBrake, MarkUpstreamStarted
  <2>7. ASSUME Crash \/ BootFails \/ WriteFails \/ UNCHANGED vars \/ \E t \in Times : SetClock(t)
        PROVE  settled' = settled
    BY <2>7 DEF Crash, BootFails, WriteFails, SetClock, stored, vars
  <2>8. QED
    BY <1>1, <2>1, <2>3, <2>4, <2>5, <2>6, <2>7 DEF Next
<1>2. TypeOK /\ [Next]_vars => [\A a \in Accounts : settled[a] <= settled'[a]]_vars
  BY <1>1
<1>3. QED
  BY <1>2, TypeCorrect, PTL DEF Spec, SpendOnlyGrows

-----------------------------------------------------------------------------
(* The pin of a job's cap (ledger.py _pin_job_cap).  A pin stands exactly  *)
(* while some row of the job stands: a refused reservation rolls its pin   *)
(* back with the rest of its transaction.                                  *)
RowOfJob(c, j) ==
  \E i \in 1..Len(requests) : requests[i].inp.caller_id = c /\ requests[i].inp.job_id = j

PinsComeFromRows ==
  \A c \in Callers, j \in Jobs : job_caps[<<c, j>>] # Unpinned <=> RowOfJob(c, j)

(* A job's cap is pinned from its first admitted row on, and never before. *)
THEOREM RefusalsPinNothing == Spec => []PinsComeFromRows
<1>1. Init => PinsComeFromRows
  BY DEF Init, PinsComeFromRows, RowOfJob
<1>2. ASSUME TypeOK, PinsComeFromRows, [Next]_vars PROVE PinsComeFromRows'
  <2>1. ASSUME NEW i \in 1..Len(requests)
        PROVE  i \in 1..Len(requests') /\ requests'[i].inp = requests[i].inp
    <3>1. requests[i] \in Row /\ i \in 1..Len(requests') /\ RowStep(requests[i], requests'[i])
      BY <1>2, NextRows DEF TypeOK
    <3>2. QED
      BY <3>1 DEF RowStep, Closed, Row
  <2>2. ASSUME NEW inp \in Inputs, Reserve(inp), NEW c \in Callers, NEW j \in Jobs
        PROVE  job_caps'[<<c, j>>] # Unpinned <=> RowOfJob(c, j)'
    <3>1. /\ inp \in Input /\ inp.cap_presented # Unpinned
          /\ requests' = Append(requests, NewRow(inp)) /\ NewRow(inp).inp = inp
      BY <2>2, ConstantsAssumption DEF Reserve, NewRow, Input, Unpinned
    <3>2. /\ Len(requests') = Len(requests) + 1 /\ Len(requests) \in Nat
          /\ requests'[Len(requests) + 1] = NewRow(inp)
      BY <1>2, <3>1 DEF TypeOK
    <3>3. RowOfJob(c, j)' <=> RowOfJob(c, j) \/ (inp.caller_id = c /\ inp.job_id = j)
      BY <2>1, <3>1, <3>2 DEF RowOfJob
    <3>4. inp.job_id = NoJob => inp.job_id # j
      BY ConstantsAssumption
    <3>5. <<inp.caller_id, inp.job_id>> = <<c, j>> <=> inp.caller_id = c /\ inp.job_id = j
      OBVIOUS
    <3>6. job_caps'[<<c, j>>] = IF inp.caller_id = c /\ inp.job_id = j
                                THEN inp.cap_presented ELSE job_caps[<<c, j>>]
      <4>1. CASE inp.job_id = NoJob
        BY <2>2, <3>4, <4>1 DEF Reserve
      <4>2. CASE inp.job_id # NoJob
        <5>1. job_caps' = [job_caps EXCEPT ![<<inp.caller_id, inp.job_id>>] = inp.cap_presented]
          BY <2>2, <4>2 DEF Reserve
        <5>2. <<c, j>> \in DOMAIN job_caps
          BY <1>2 DEF TypeOK
        <5>3. QED
          BY <3>5, <5>1, <5>2
      <4>3. QED
        BY <4>1, <4>2
    <3>7. job_caps[<<c, j>>] # Unpinned <=> RowOfJob(c, j)
      BY <1>2 DEF PinsComeFromRows
    <3>8. QED
      BY <3>1, <3>3, <3>6, <3>7
  <2>3. ASSUME ~(\E inp \in Inputs : Reserve(inp)) PROVE PinsComeFromRows'
    <3>1. job_caps' = job_caps /\ Len(requests') = Len(requests)
      BY <1>2, <2>3, OnlyReservePins, NextRows
    <3>2. ASSUME NEW c, NEW j PROVE RowOfJob(c, j)' <=> RowOfJob(c, j)
      BY <2>1, <3>1 DEF RowOfJob
    <3>3. QED
      BY <1>2, <3>1, <3>2 DEF PinsComeFromRows
  <2>4. QED
    BY <2>2, <2>3 DEF PinsComeFromRows
<1>3. QED
  BY <1>1, <1>2, TypeCorrect, PTL DEF Spec

(* A pin is for ever: no later request, completion, failed write, crash or *)
(* boot changes or removes the cap of a job that has one.                  *)
PinsStay ==
  [][\A cj \in Callers \X Jobs : job_caps[cj] # Unpinned => job_caps'[cj] = job_caps[cj]]_vars

(* A job's cap, once pinned, never moves. *)
THEOREM PinsAreForever == Spec => PinsStay
<1>1. ASSUME TypeOK, [Next]_vars, NEW cj \in Callers \X Jobs, job_caps[cj] # Unpinned
      PROVE  job_caps'[cj] = job_caps[cj]
  <2>1. ASSUME NEW inp \in Inputs, Reserve(inp) PROVE job_caps'[cj] = job_caps[cj]
    <3>1. CASE inp.job_id = NoJob
      BY <2>1, <3>1 DEF Reserve
    <3>2. CASE inp.job_id # NoJob
      <4>1. job_caps[<<inp.caller_id, inp.job_id>>] \in {Unpinned, inp.cap_presented}
        BY <2>1, <3>2 DEF Reserve, RequestCapAllows
      <4>2. job_caps' = [job_caps EXCEPT ![<<inp.caller_id, inp.job_id>>] = inp.cap_presented]
        BY <2>1, <3>2 DEF Reserve
      <4>3. QED
        BY <1>1, <4>1, <4>2 DEF TypeOK
    <3>3. QED
      BY <3>1, <3>2
  <2>2. QED
    BY <1>1, <2>1, OnlyReservePins
<1>2. TypeOK /\ [Next]_vars =>
        [\A cj \in Callers \X Jobs : job_caps[cj] # Unpinned => job_caps'[cj] = job_caps[cj]]_vars
  BY <1>1
<1>3. QED
  BY <1>2, TypeCorrect, PTL DEF Spec, PinsStay

-----------------------------------------------------------------------------
(* The caps without their allowance.  Admission prices a request at its    *)
(* worst case, so that a settlement within the worst case is what a        *)
(* provider that honours the request's own limits reports.                 *)
CoveredSettlements ==
  [][\A i \in 1..Len(requests) :
       requests[i].state = "reserved" /\ requests'[i].state = "settled" =>
         \A b \in Bases : requests'[i].charged[b] <= requests[i].inp.worst[b]]_vars

CoveredRow(row) == row.state = "settled" => \A b \in Bases : row.charged[b] <= row.inp.worst[b]
CoveredRows == \A i \in 1..Len(requests) : CoveredRow(requests[i])

LEMMA CoveredRowsStay ==
  ASSUME TypeOK, CoveredRows, [Next]_vars,
         \A i \in 1..Len(requests) :
           requests[i].state = "reserved" /\ requests'[i].state = "settled" =>
             \A b \in Bases : requests'[i].charged[b] <= requests[i].inp.worst[b]
  PROVE  CoveredRows'
<1>1. ASSUME NEW i \in 1..Len(requests) PROVE CoveredRow(requests'[i])
  <2>0. requests[i] \in Row
    BY DEF TypeOK
  <2>1. requests[i] \in Row /\ RowStep(requests[i], requests'[i])
    BY <2>0, NextRows
  <2>2. CoveredRow(requests[i])
    BY DEF CoveredRows
  <2>3. requests'[i].inp = requests[i].inp
        /\ (requests'[i] = requests[i] \/ requests[i].state = "reserved")
    BY <2>1 DEF RowStep, Closed, Row
  <2>4. QED
    BY <2>2, <2>3 DEF CoveredRow
<1>2. ASSUME NEW i \in 1..Len(requests'), i \notin 1..Len(requests) PROVE CoveredRow(requests'[i])
  <2>1. PICK inp \in Inputs : requests' = Append(requests, NewRow(inp))
    BY <1>2, NextRows
  <2>2. requests'[i] = NewRow(inp)
    BY <1>2, <2>1 DEF TypeOK
  <2>3. QED
    BY <2>2 DEF NewRow, CoveredRow
<1>3. QED
  BY <1>1, <1>2 DEF CoveredRows, CoveredRow

LEMMA CoveredMeansNoOverrun ==
  ASSUME TypeOK, CoveredRows, NoFreeGeneration, NEW a \in Accounts
  PROVE  Overrun(a) = 0
<1> DEFINE n == Len(requests)
           o == [i \in 1..n |-> OverBy(requests[i], a)]
<1>1. n \in Nat /\ \A i \in 1..n : requests[i] \in Row
  BY DEF TypeOK
<1>2. ASSUME NEW i \in 1..n PROVE OverBy(requests[i], a) = 0
  <2> DEFINE row == requests[i]
  <2>1. /\ row.inp.worst[a[2]] \in Nat /\ row.charged[a[2]] \in Nat /\ a[2] \in Bases
    BY <1>1, RowTypes, AccountParts
  <2>2. row.state \in ChargedStates => row.charged[a[2]] <= row.inp.worst[a[2]]
    <3>1. CASE row.state = "settled"
      BY <2>1, <3>1 DEF CoveredRows, CoveredRow
    <3>2. CASE row.state \in ChargedStates \ {"settled"}
      <4>1. row.charged = row.inp.worst
        BY <3>2 DEF NoFreeGeneration
      <4>2. QED
        BY <2>1, <4>1
    <3>3. QED
      BY <3>1, <3>2
  <2> HIDE DEF row
  <2>3. OverBy(row, a) = 0
    BY <2>1, <2>2 DEF OverBy, ChargedBy
  <2>4. QED
    BY <2>3 DEF row
<1>3. \A i \in 1..n : o[i] = 0
  BY <1>2
<1>4. Overrun(a) = SumTo(o, n)
  BY DEF Overrun
<1> HIDE DEF o, n
<1>5. QED
  BY <1>1, <1>3, <1>4, SumToZeros

(* test_properties.py, word for word: "after every commit, for every       *)
(* enforced scope and basis, settled + held <= cap".                       *)
CapsAreNeverCrossed == \A a \in Accounts : Capped(a) => Committed(a) <= CapOfAccount(a)

(* While no provider reports more than its request was priced at, no       *)
(* enforced account is ever above its cap, by any amount.                  *)
THEOREM CapsAreAbsolute == Spec /\ CoveredSettlements => []CapsAreNeverCrossed
<1>1. Init => CoveredRows
  BY DEF Init, CoveredRows
<1>2. TypeOK /\ CoveredRows /\ [Next]_vars
      /\ [\A i \in 1..Len(requests) :
            requests[i].state = "reserved" /\ requests'[i].state = "settled" =>
              \A b \in Bases : requests'[i].charged[b] <= requests[i].inp.worst[b]]_vars
      => CoveredRows'
  <2>1. CASE UNCHANGED vars
    BY <2>1 DEF vars, CoveredRows
  <2>2. QED
    BY <2>1, CoveredRowsStay
<1>3. TypeOK /\ CoveredRows /\ NoFreeGeneration /\ CapsHold => CapsAreNeverCrossed
  <2> SUFFICES ASSUME TypeOK, CoveredRows, NoFreeGeneration, CapsHold, NEW a \in Accounts, Capped(a)
               PROVE  Committed(a) <= CapOfAccount(a)
    BY DEF CapsAreNeverCrossed
  <2>1. Overrun(a) = 0 /\ CapOfAccount(a) \in Nat
    BY CoveredMeansNoOverrun, CapTypes
  <2>2. Committed(a) <= CapOfAccount(a) + Overrun(a)
    BY DEF CapsHold
  <2>3. QED
    BY <2>1, <2>2
<1>4. QED
  BY <1>1, <1>2, <1>3, TypeCorrect, NothingStartedIsFree, CapsAlwaysHold, PTL
  DEF Spec, CoveredSettlements

-----------------------------------------------------------------------------
(* What the violated TripIsForItsOwnDay leaves true: a latch written on    *)
(* the day the refusal was decided is a latch of a full ceiling, so only a *)
(* refusal that is overtaken by midnight closes a lane that has room.      *)
TripsInTheirDayAreEarned ==
  [][\A l \in Lanes :
       brakes'[l].tripped_at # brakes[l].tripped_at /\ Day(clock') = Day(clock) =>
         \E inp \in Inputs :
           inp.lane_used = l /\ ~Fits(BrakeAccount(inp, brakes'[l].tripped_at), inp)]_vars

(* Every other step leaves the latches where they are. *)
LEMMA OnlyTripsLatch ==
  ASSUME TypeOK, [Next]_vars, NEW l \in Lanes, brakes'[l].tripped_at # brakes[l].tripped_at
  PROVE  \E inp \in Inputs, now \in Times : TripBrake(inp, now)
<1>1. ASSUME NEW lane \in Lanes, ResetBrake(lane) PROVE FALSE
  <2>1. brakes' = [brakes EXCEPT ![lane].reset = TRUE]
    BY <1>1 DEF ResetBrake
  <2>2. brakes[lane] \in [tripped_at : Times \cup {NoTime}, reset : BOOLEAN]
    BY DEF TypeOK
  <2>3. brakes'[l].tripped_at = brakes[l].tripped_at
    BY <2>1, <2>2 DEF TypeOK
  <2>4. QED
    BY <2>3
<1>2. brakes' # brakes
  OBVIOUS
<1>3. QED
  BY <1>1, <1>2 DEF Next, Reserve, MarkUpstreamStarted, Settle, Finish, CloseRow, WriteFails,
     Crash, Boot, BootFails, SetClock, vars

(* No lane is closed for a day with room left but by a refusal that        *)
(* midnight overtook.                                                      *)
THEOREM OnlyMidnightMistrips == Spec => TripsInTheirDayAreEarned
<1>1. ASSUME TypeOK, [Next]_vars, NEW l \in Lanes,
             brakes'[l].tripped_at # brakes[l].tripped_at, Day(clock') = Day(clock)
      PROVE  \E inp \in Inputs :
               inp.lane_used = l /\ ~Fits(BrakeAccount(inp, brakes'[l].tripped_at), inp)
  <2>1. PICK inp \in Inputs, now \in Times : TripBrake(inp, now)
    BY <1>1, OnlyTripsLatch
  <2>2. /\ clock' = now /\ ~Fits(BrakeAccount(inp, clock), inp)
        /\ brakes' = [brakes EXCEPT ![inp.lane_used] = [tripped_at |-> now, reset |-> FALSE]]
    BY <2>1 DEF TripBrake
  <2>3. l = inp.lane_used /\ brakes'[l].tripped_at = now
    BY <1>1, <2>2 DEF TypeOK
  <2>4. BrakeAccount(inp, now) = BrakeAccount(inp, clock)
    BY <1>1, <2>2 DEF BrakeAccount
  <2>5. QED
    BY <2>2, <2>3, <2>4
<1>2. TypeOK /\ [Next]_vars =>
        [\A l \in Lanes :
           brakes'[l].tripped_at # brakes[l].tripped_at /\ Day(clock') = Day(clock) =>
             \E inp \in Inputs :
               inp.lane_used = l /\ ~Fits(BrakeAccount(inp, brakes'[l].tripped_at), inp)]_vars
  BY <1>1
<1>3. QED
  BY <1>2, TypeCorrect, PTL DEF Spec, TripsInTheirDayAreEarned
=============================================================================
