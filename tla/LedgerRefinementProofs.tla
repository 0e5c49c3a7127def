----------------------- MODULE LedgerRefinementProofs -----------------------
(***************************************************************************)
(* The ledger implements one Budget per capped account: what the           *)
(* compare-and-add on the materialized counters admits is what the sum     *)
(* over the request rows would admit, for every cap, every set of inputs,  *)
(* every clock and every number of requests.  An account of a project, a   *)
(* caller's day or a lane's day has the cap of the registry or the config; *)
(* a job's account has the cap its first request pinned.                   *)
(***************************************************************************)
EXTENDS LedgerRefinement, LedgerProofs

(* Rows beyond the ledger's, which are free entries, add nothing. *)
LEMMA SumToTail ==
  ASSUME NEW f, NEW m \in Nat, NEW n \in Nat, m <= n, \A i \in (m + 1)..n : f[i] = 0,
         SumTo(f, m) \in Int
  PROVE  SumTo(f, n) = SumTo(f, m)
<1> DEFINE S == {k \in Nat : m + k <= n => SumTo(f, m + k) = SumTo(f, m)}
<1>1. 0 \in S
  OBVIOUS
<1>2. ASSUME NEW k \in Nat, k \in S PROVE k + 1 \in S
  <2>1. SUFFICES ASSUME m + (k + 1) <= n PROVE SumTo(f, m + (k + 1)) = SumTo(f, m)
    OBVIOUS
  <2>2. SumTo(f, m + k) = SumTo(f, m)
    BY <1>2, <2>1
  <2>3. m + k \in Nat /\ m + (k + 1) = (m + k) + 1 /\ f[(m + k) + 1] = 0
    BY <2>1
  <2>4. SumTo(f, (m + k) + 1) = SumTo(f, m + k) + f[(m + k) + 1]
    BY <2>3, SumToStep
  <2>5. QED
    BY <2>2, <2>3, <2>4
<1>3. \A k \in Nat : k \in S
  <2> HIDE DEF S
  <2>1. QED
    BY <1>1, <1>2, InductionOnSet
<1>4. n - m \in Nat /\ m + (n - m) = n
  OBVIOUS
<1>5. QED
  BY <1>3, <1>4

-----------------------------------------------------------------------------
(* The entry one row is. *)
FreeEntry == [phase |-> "free", amount |-> 0]

RowEntry(row, a) ==
  IF a[1] \notin RowScopes(row)
  THEN FreeEntry
  ELSE [phase |-> IF row.state = "reserved" THEN "open" ELSE "closed",
        amount |-> HeldBy(row, a) + ChargedBy(row, a)]

LEMMA EntryIsRow ==
  ASSUME NEW a, NEW i \in Nat, Len(requests) \in Nat
  PROVE  EntryOf(a, i) = IF i <= Len(requests) THEN RowEntry(requests[i], a) ELSE FreeEntry
BY DEF EntryOf, RowEntry, FreeEntry

(* Beside the types and the totals: the rows fit the bound of the table    *)
(* and each was admitted from an input.                                    *)
TableInv ==
  /\ TypeOK /\ TotalsMatchRows
  /\ Len(requests) <= MaxRequests
  /\ \A i \in 1..Len(requests) : requests[i].inp \in Inputs

LEMMA InitTable == Init => TableInv
<1>1. Init => Len(requests) = 0
  BY DEF Init
<1>2. QED
  BY <1>1, InitTypeOK, InitTotals, ConstantsAssumption DEF TableInv

LEMMA NextTable == TableInv /\ [Next]_vars => TableInv'
<1> SUFFICES ASSUME TableInv, [Next]_vars PROVE TableInv'
  OBVIOUS
<1>1. TypeOK' /\ TotalsMatchRows'
  BY NextTypeOK, NextTotals DEF TableInv
<1>2. /\ Len(requests) \in Nat /\ MaxRequests \in Nat
      /\ \A i \in 1..Len(requests) : requests[i] \in Row
  BY ConstantsAssumption DEF TableInv, TypeOK
<1>3. \A i \in 1..Len(requests) : requests'[i].inp \in Inputs
  <2> SUFFICES ASSUME NEW i \in 1..Len(requests) PROVE requests'[i].inp \in Inputs
    OBVIOUS
  <2>1. RowStep(requests[i], requests'[i])
    BY NextRows DEF TableInv
  <2>2. requests'[i].inp = requests[i].inp
    BY <1>2, <2>1 DEF RowStep, Closed, Row
  <2>3. QED
    BY <2>2 DEF TableInv
<1>4. CASE Len(requests') = Len(requests)
  BY <1>1, <1>3, <1>4 DEF TableInv
<1>5. ASSUME NEW inp \in Inputs, Reserve(inp), requests' = Append(requests, NewRow(inp))
      PROVE  TableInv'
  <2>1. Len(requests') = Len(requests) + 1 /\ requests'[Len(requests) + 1] = NewRow(inp)
    BY <1>2, <1>5 DEF TableInv, TypeOK
  <2>2. Len(requests) < MaxRequests
    BY <1>5 DEF Reserve
  <2>3. \A i \in 1..Len(requests') : requests'[i].inp \in Inputs
    BY <1>2, <1>3, <1>5, <2>1 DEF NewRow
  <2>4. QED
    BY <1>1, <1>2, <2>1, <2>2, <2>3 DEF TableInv
<1>6. QED
  BY <1>4, <1>5, NextRows DEF TableInv

-----------------------------------------------------------------------------
(* The account's budget, which sums its entries, is the counter the        *)
(* enforcement statement reads.                                            *)
LEMMA EntriesAddUp ==
  ASSUME TableInv, NEW a \in Accounts
  PROVE  SumTo([i \in 1..MaxRequests |-> EntriesOf(a)[i].amount], MaxRequests) = Committed(a)
<1> DEFINE n == Len(requests)
           h == [i \in 1..n |-> HeldBy(requests[i], a)]
           c == [i \in 1..n |-> ChargedBy(requests[i], a)]
           e == [i \in 1..MaxRequests |-> EntriesOf(a)[i].amount]
<1>1. /\ n \in Nat /\ MaxRequests \in Nat /\ n <= MaxRequests
      /\ \A i \in 1..n : requests[i] \in Row
  BY ConstantsAssumption DEF TableInv, TypeOK
<1>2. \A i \in 1..n : /\ h[i] \in Nat /\ c[i] \in Nat /\ e[i] = c[i] + h[i]
  <2> SUFFICES ASSUME NEW i \in 1..n
               PROVE  /\ h[i] \in Nat /\ c[i] \in Nat
                      /\ e[i] = c[i] + h[i]
    OBVIOUS
  <2>1. HeldBy(requests[i], a) \in Nat /\ ChargedBy(requests[i], a) \in Nat
    BY <1>1, RowTypes
  <2>2. e[i] = RowEntry(requests[i], a).amount
    BY <1>1, EntryIsRow DEF EntriesOf
  <2>3. a[1] \notin RowScopes(requests[i]) =>
          HeldBy(requests[i], a) = 0 /\ ChargedBy(requests[i], a) = 0
    BY DEF HeldBy, ChargedBy
  <2>4. RowEntry(requests[i], a).amount = HeldBy(requests[i], a) + ChargedBy(requests[i], a)
    BY <2>1, <2>3 DEF RowEntry, FreeEntry
  <2>5. QED
    BY <2>1, <2>2, <2>4
<1>3. \A i \in (n + 1)..MaxRequests : e[i] = 0
  <2> SUFFICES ASSUME NEW i \in (n + 1)..MaxRequests PROVE e[i] = 0
    OBVIOUS
  <2>1. i \in 1..MaxRequests /\ i \in Nat /\ ~(i <= n)
    BY <1>1
  <2>2. EntryOf(a, i) = FreeEntry
    BY <1>1, <2>1, EntryIsRow
  <2>3. QED
    BY <2>1, <2>2 DEF EntriesOf, FreeEntry
<1>4. HeldSum(a) = SumTo(h, n) /\ ChargedSum(a) = SumTo(c, n)
  BY DEF HeldSum, ChargedSum
<1>5. held[a] = HeldSum(a) /\ settled[a] = ChargedSum(a)
      /\ HeldSum(a) \in Nat /\ ChargedSum(a) \in Nat
  BY SumTypes DEF TableInv, TotalsMatchRows, TotalsRecompute
<1> HIDE DEF h, c, e
<1>6. SumTo(e, n) = SumTo(c, n) + SumTo(h, n)
  BY <1>1, <1>2, SumToAdd
<1>7. SumTo(e, MaxRequests) = SumTo(e, n)
  BY <1>1, <1>3, <1>4, <1>5, <1>6, SumToTail
<1>8. SumTo(e, MaxRequests) = Committed(a)
  BY <1>4, <1>5, <1>6, <1>7 DEF Committed
<1>9. QED
  BY <1>8 DEF e

(* One row rewritten is one entry rewritten; an appended row is the next   *)
(* entry.                                                                  *)
LEMMA RewrittenRow ==
  ASSUME TableInv, NEW a, NEW k \in 1..Len(requests), NEW row,
         requests' = [requests EXCEPT ![k] = row]
  PROVE  /\ EntriesOf(a)' = [EntriesOf(a) EXCEPT ![k] = RowEntry(row, a)]
         /\ EntriesOf(a)[k] = RowEntry(requests[k], a)
         /\ k \in 1..MaxRequests
<1>1. /\ Len(requests) \in Nat /\ MaxRequests \in Nat /\ Len(requests) <= MaxRequests
      /\ k \in 1..MaxRequests
  BY ConstantsAssumption DEF TableInv, TypeOK
<1>2. /\ Len(requests') = Len(requests)
      /\ \A i \in 1..Len(requests) : requests'[i] = IF i = k THEN row ELSE requests[i]
  BY DEF TableInv, TypeOK
<1>3. \A i \in 1..MaxRequests :
        EntryOf(a, i)' = IF i <= Len(requests') THEN RowEntry(requests'[i], a) ELSE FreeEntry
  BY <1>1, <1>2 DEF EntryOf, RowEntry, FreeEntry, RowScopes, HeldBy, ChargedBy
<1>4. \A i \in 1..MaxRequests : EntryOf(a, i)' = IF i = k THEN RowEntry(row, a) ELSE EntryOf(a, i)
  BY <1>1, <1>2, <1>3, EntryIsRow
<1>5. EntriesOf(a)[k] = RowEntry(requests[k], a)
  BY <1>1, EntryIsRow DEF EntriesOf
<1>6. EntriesOf(a)' = [EntriesOf(a) EXCEPT ![k] = RowEntry(row, a)]
  BY <1>1, <1>4 DEF EntriesOf
<1>7. QED
  BY <1>1, <1>5, <1>6

LEMMA AppendedRow ==
  ASSUME TableInv, NEW a, NEW row, requests' = Append(requests, row),
         Len(requests) < MaxRequests
  PROVE  /\ EntriesOf(a)' = [EntriesOf(a) EXCEPT ![Len(requests) + 1] = RowEntry(row, a)]
         /\ EntriesOf(a)[Len(requests) + 1] = FreeEntry
         /\ Len(requests) + 1 \in 1..MaxRequests
<1> DEFINE k == Len(requests) + 1
<1>1. /\ Len(requests) \in Nat /\ MaxRequests \in Nat
      /\ k \in 1..MaxRequests /\ k \in Nat /\ ~(k <= Len(requests))
  BY ConstantsAssumption DEF TableInv, TypeOK
<1>2. /\ Len(requests') = k
      /\ \A i \in 1..k : requests'[i] = IF i = k THEN row ELSE requests[i]
  BY DEF TableInv, TypeOK
<1>3. \A i \in 1..MaxRequests :
        EntryOf(a, i)' = IF i <= Len(requests') THEN RowEntry(requests'[i], a) ELSE FreeEntry
  BY <1>1, <1>2 DEF EntryOf, RowEntry, FreeEntry, RowScopes, HeldBy, ChargedBy
<1> HIDE DEF k
<1>4. \A i \in 1..MaxRequests : EntryOf(a, i)' = IF i = k THEN RowEntry(row, a) ELSE EntryOf(a, i)
  <2> SUFFICES ASSUME NEW i \in 1..MaxRequests
               PROVE  EntryOf(a, i)' = IF i = k THEN RowEntry(row, a) ELSE EntryOf(a, i)
    OBVIOUS
  <2>1. CASE i = k
    BY <1>1, <1>2, <1>3, <2>1
  <2>2. CASE i # k
    <3>1. i <= k <=> i <= Len(requests)
      BY <1>1, <2>2 DEF k
    <3>2. QED
      BY <1>1, <1>2, <1>3, <2>2, <3>1, EntryIsRow
  <2>3. QED
    BY <2>1, <2>2
<1>5. EntriesOf(a)[k] = FreeEntry
  BY <1>1, EntryIsRow DEF EntriesOf
<1>6. EntriesOf(a)' = [EntriesOf(a) EXCEPT ![k] = RowEntry(row, a)]
  BY <1>1, <1>4 DEF EntriesOf
<1>7. QED
  BY <1>1, <1>5, <1>6 DEF k

-----------------------------------------------------------------------------
(* Each kind of step of the table, seen by one account.                    *)
BudgetAmounts(a) ==
  {inp.worst[a[2]] : inp \in Inputs} \cup {amounts[a[2]] : amounts \in Actuals} \cup {0}

(* An account under a cap: the cap of its scope, or the pin of its job. *)
CappedBudget(a, cap) == INSTANCE Budget WITH
  Entries <- MaxRequests,
  Amounts <- BudgetAmounts(a),
  Cap <- cap,
  entry <- EntriesOf(a)

LEMMA ReserveAdmits ==
  ASSUME TableInv, NEW inp \in Inputs, Reserve(inp), NEW a \in Accounts, Capped(a),
         NEW cap, a[1] \in ScopesFor(inp, clock) => CapOfAccount(a)' = cap
  PROVE  CappedBudget(a, cap)!Next \/ UNCHANGED EntriesOf(a)
<1> DEFINE k == Len(requests) + 1
<1>1. TypeOK /\ inp \in Input
  BY ConstantsAssumption DEF TableInv
<1>2. /\ EntriesOf(a)' = [EntriesOf(a) EXCEPT ![k] = RowEntry(NewRow(inp), a)]
      /\ EntriesOf(a)[k] = FreeEntry
      /\ k \in 1..MaxRequests
  BY AppendedRow DEF Reserve
<1> HIDE DEF k
<1>3. RowScopes(NewRow(inp)) = ScopesFor(inp, clock)
  BY DEF RowScopes, NewRow
<1>4. CASE a[1] \in ScopesFor(inp, clock)
  <2>1. NewRow(inp) \in Row
    BY <1>1, NewRowType
  <2>2. inp.worst[a[2]] \in Nat
    BY <1>1, AccountParts DEF Input
  <2>3. HeldBy(NewRow(inp), a) = inp.worst[a[2]] /\ ChargedBy(NewRow(inp), a) = 0
    BY <1>3, <1>4 DEF HeldBy, ChargedBy, NewRow, ChargedStates
  <2>4. RowEntry(NewRow(inp), a) = [phase |-> "open", amount |-> inp.worst[a[2]]]
    BY <1>3, <1>4, <2>2, <2>3 DEF RowEntry, NewRow
  <2>5. Committed(a) + inp.worst[a[2]] <= cap
    BY <1>1, <1>4, AdmittedFits
  <2>6. CappedBudget(a, cap)!Total = Committed(a)
    <3>1. \A f, n : CappedBudget(a, cap)!SumTo(f, n) = SumTo(f, n)
      BY Zenon DEF CappedBudget!SumTo, SumTo
    <3>2. QED
      BY <1>1, <3>1, EntriesAddUp, Zenon DEF CappedBudget!Total
  <2>7. CappedBudget(a, cap)!Admit(k, inp.worst[a[2]])
    BY <1>2, <2>4, <2>5, <2>6 DEF CappedBudget!Admit, FreeEntry
  <2>8. inp.worst[a[2]] \in BudgetAmounts(a)
    BY DEF BudgetAmounts
  <2>9. QED
    BY <1>2, <2>7, <2>8 DEF CappedBudget!Next, BudgetAmounts
<1>5. CASE a[1] \notin ScopesFor(inp, clock)
  <2>1. RowEntry(NewRow(inp), a) = EntriesOf(a)[k]
    BY <1>2, <1>3, <1>5 DEF RowEntry
  <2>2. QED
    BY <1>2, <2>1 DEF EntriesOf
<1>6. QED
  BY <1>4, <1>5

LEMMA CloseRowCloses ==
  ASSUME TableInv, NEW i \in 1..Len(requests), requests[i].state = "reserved",
         NEW state \in States \ {"reserved"}, NEW amounts \in [Bases -> Nat],
         state = "released" => amounts = [b \in Bases |-> 0],
         CloseRow(i, state, amounts),
         NEW a \in Accounts, NEW cap, amounts[a[2]] \in BudgetAmounts(a)
  PROVE  CappedBudget(a, cap)!Next \/ UNCHANGED EntriesOf(a)
<1> DEFINE row == requests[i]
           closed == Closed(row, state, amounts)
<1>1. row \in Row /\ a \in Accounts /\ a[2] \in Bases
  BY AccountParts DEF TableInv, TypeOK
<1>2. requests' = [requests EXCEPT ![i] = closed]
  BY DEF CloseRow
<1>3. closed.inp = row.inp /\ closed.reserved_at = row.reserved_at /\ closed.state = state
  BY <1>1 DEF Closed, Row
<1>4. RowScopes(closed) = RowScopes(row)
  BY <1>3 DEF RowScopes
<1>5. /\ HeldBy(closed, a) = 0
      /\ ChargedBy(closed, a) = IF a[1] \in RowScopes(row) THEN amounts[a[2]] ELSE 0
  BY <1>1, ClosedContribution
<1> HIDE DEF closed, row
<1>6. /\ EntriesOf(a)' = [EntriesOf(a) EXCEPT ![i] = RowEntry(closed, a)]
      /\ EntriesOf(a)[i] = RowEntry(row, a)
      /\ i \in 1..MaxRequests
  BY <1>2, RewrittenRow DEF row
<1>7. CASE a[1] \in RowScopes(row)
  <2>1. amounts[a[2]] \in Nat /\ row.state = "reserved"
    BY <1>1 DEF row
  <2>2. RowEntry(closed, a) = [phase |-> "closed", amount |-> amounts[a[2]]]
    BY <1>3, <1>4, <1>5, <1>7, <2>1 DEF RowEntry
  <2>3. EntriesOf(a)[i].phase = "open"
    BY <1>6, <1>7, <2>1 DEF RowEntry
  <2>4. CappedBudget(a, cap)!Close(i, amounts[a[2]])
    BY <1>6, <2>2, <2>3 DEF CappedBudget!Close
  <2>5. QED
    BY <1>6, <2>4 DEF CappedBudget!Next, BudgetAmounts
<1>8. CASE a[1] \notin RowScopes(row)
  <2>1. RowEntry(closed, a) = EntriesOf(a)[i]
    BY <1>4, <1>6, <1>8 DEF RowEntry
  <2>2. QED
    BY <1>6, <2>1 DEF EntriesOf
<1>9. QED
  BY <1>7, <1>8

LEMMA MarkIsUnseen ==
  ASSUME TableInv, NEW i \in 1..Len(requests), MarkUpstreamStarted(i), NEW a
  PROVE  UNCHANGED EntriesOf(a)
<1> DEFINE row == requests[i]
           marked == [row EXCEPT !.upstream_started = TRUE]
<1>1. row \in Row /\ requests' = [requests EXCEPT ![i] = marked]
  BY DEF MarkUpstreamStarted, TableInv, TypeOK
<1>2. /\ marked.inp = row.inp /\ marked.state = row.state /\ marked.charged = row.charged
      /\ marked.reserved_at = row.reserved_at
  BY <1>1 DEF Row
<1> HIDE DEF marked
<1>3. RowEntry(marked, a) = RowEntry(row, a)
  BY <1>2 DEF RowEntry, RowScopes, HeldBy, ChargedBy
<1>4. /\ EntriesOf(a)' = [EntriesOf(a) EXCEPT ![i] = RowEntry(marked, a)]
      /\ EntriesOf(a)[i] = RowEntry(row, a)
  BY <1>1, RewrittenRow
<1>5. QED
  BY <1>3, <1>4 DEF EntriesOf

(* The boot sweep closes every open entry at what it held. *)
LEMMA SweepRecovers ==
  ASSUME TableInv, Sweep, NEW a \in Accounts, NEW cap
  PROVE  CappedBudget(a, cap)!Next
<1>1. /\ Len(requests) \in Nat /\ MaxRequests \in Nat /\ Len(requests) <= MaxRequests
      /\ \A i \in 1..Len(requests) : requests[i] \in Row
      /\ a \in Accounts
  BY ConstantsAssumption DEF TableInv, TypeOK
<1>2. /\ Len(requests') = Len(requests)
      /\ \A i \in 1..Len(requests) : requests'[i] = Swept(requests[i])
  BY <1>1 DEF Sweep
<1>3. \A i \in 1..MaxRequests :
        EntryOf(a, i)' = IF i <= Len(requests') THEN RowEntry(requests'[i], a) ELSE FreeEntry
  BY <1>1, <1>2 DEF EntryOf, RowEntry, FreeEntry, RowScopes, HeldBy, ChargedBy
<1> DEFINE Recovered(e) == IF e.phase = "open" THEN [e EXCEPT !.phase = "closed"] ELSE e
<1>4. ASSUME NEW row \in Row PROVE RowEntry(Swept(row), a) = Recovered(RowEntry(row, a))
  <2>1. /\ Swept(row).inp = row.inp /\ Swept(row).reserved_at = row.reserved_at
        /\ row.state # "reserved" => Swept(row) = row
        /\ row.state = "reserved" => Swept(row).state = "swept"
    BY DEF Swept, Closed, Row
  <2>2. RowScopes(Swept(row)) = RowScopes(row)
    BY <2>1 DEF RowScopes
  <2>3. CASE a[1] \notin RowScopes(row)
    BY <2>2, <2>3 DEF RowEntry, FreeEntry
  <2>4. CASE a[1] \in RowScopes(row) /\ row.state # "reserved"
    BY <2>1, <2>4 DEF RowEntry
  <2>5. CASE a[1] \in RowScopes(row) /\ row.state = "reserved"
    <3>1. /\ HeldBy(Swept(row), a) = 0
          /\ ChargedBy(Swept(row), a) = ChargedBy(row, a) + HeldBy(row, a)
      BY <1>1, SweepContribution
    <3>2. HeldBy(row, a) \in Nat /\ ChargedBy(row, a) \in Nat
      BY <1>1, RowTypes
    <3>3. RowEntry(Swept(row), a) = [phase |-> "closed", amount |-> HeldBy(row, a) + ChargedBy(row, a)]
      BY <2>1, <2>2, <2>5, <3>1, <3>2 DEF RowEntry
    <3>4. RowEntry(row, a) = [phase |-> "open", amount |-> HeldBy(row, a) + ChargedBy(row, a)]
      BY <2>5 DEF RowEntry
    <3>5. QED
      BY <3>3, <3>4
  <2>6. QED
    BY <2>3, <2>4, <2>5
<1>5. Recovered(FreeEntry) = FreeEntry
  BY DEF FreeEntry
<1> HIDE DEF Recovered
<1>6. \A i \in 1..MaxRequests : EntryOf(a, i)' = Recovered(EntryOf(a, i))
  BY <1>1, <1>2, <1>3, <1>4, <1>5, EntryIsRow
<1>7. EntriesOf(a)' = [i \in 1..MaxRequests |-> Recovered(EntriesOf(a)[i])]
  BY <1>6 DEF EntriesOf
<1>8. CappedBudget(a, cap)!Recover
  BY <1>7 DEF CappedBudget!Recover, Recovered
<1>9. QED
  BY <1>8 DEF CappedBudget!Next

-----------------------------------------------------------------------------
(* A new ledger's accounts are empty. *)
LEMMA InitFree ==
  ASSUME Init, NEW a
  PROVE  \A i \in 1..MaxRequests : EntryOf(a, i) = FreeEntry
<1>1. Len(requests) = 0
  BY DEF Init
<1>2. QED
  BY <1>1, ConstantsAssumption DEF EntryOf, FreeEntry

LEMMA StepKeepsBudget ==
  ASSUME TableInv, [Next]_vars, NEW a \in Accounts, Capped(a), NEW cap,
         \A inp \in Inputs : Reserve(inp) /\ a[1] \in ScopesFor(inp, clock) => CapOfAccount(a)' = cap
  PROVE  CappedBudget(a, cap)!Next \/ UNCHANGED EntriesOf(a)
<1>0. ASSUME requests' = requests PROVE UNCHANGED EntriesOf(a)
  BY <1>0 DEF EntriesOf, EntryOf, RowScopes, HeldBy, ChargedBy
<1>1. ASSUME NEW inp \in Inputs, Reserve(inp) PROVE CappedBudget(a, cap)!Next \/ UNCHANGED EntriesOf(a)
  BY <1>1, ReserveAdmits
<1>2. ASSUME NEW i \in 1..Len(requests), MarkUpstreamStarted(i) PROVE UNCHANGED EntriesOf(a)
  BY <1>2, MarkIsUnseen
<1>3. ASSUME NEW i \in 1..Len(requests), NEW amounts \in Actuals, Settle(i, amounts)
      PROVE  CappedBudget(a, cap)!Next \/ UNCHANGED EntriesOf(a)
  <2>1. amounts[a[2]] \in BudgetAmounts(a)
    BY DEF BudgetAmounts
  <2>2. QED
    BY <1>3, <2>1, SettleCloses, CloseRowCloses
<1>4. ASSUME NEW i \in 1..Len(requests), NEW outcome \in {"released", "timeout", "aborted"},
             Finish(i, outcome)
      PROVE  CappedBudget(a, cap)!Next \/ UNCHANGED EntriesOf(a)
  <2>1. requests[i].state = "reserved" /\ requests[i].inp \in Inputs /\ TypeOK
    BY <1>4 DEF Finish, StillReserved, TableInv
  <2>2. PICK state \in States \ {"reserved"}, amounts \in [Bases -> Nat] :
          /\ state = "released" => amounts = [b \in Bases |-> 0]
          /\ state # "released" => amounts = requests[i].inp.worst
          /\ CloseRow(i, state, amounts)
    BY <1>4, <2>1, FinishCloses
  <2>3. a[2] \in Bases
    BY AccountParts
  <2>4. amounts[a[2]] \in BudgetAmounts(a)
    BY <2>1, <2>2, <2>3 DEF BudgetAmounts
  <2>5. QED
    BY <2>1, <2>2, <2>4, CloseRowCloses
<1>5. CASE Boot
  BY <1>5, SweepRecovers DEF Boot
<1>6. ASSUME \/ \E inp \in Inputs, now \in Times : TripBrake(inp, now)
             \/ \E lane \in Lanes : ResetBrake(lane)
             \/ WriteFails \/ Crash \/ BootFails
             \/ \E t \in Times : SetClock(t)
             \/ UNCHANGED vars
      PROVE  requests' = requests
  BY <1>6 DEF TripBrake, ResetBrake, WriteFails, Crash, BootFails, SetClock, stored, vars
<1>7. QED
  BY <1>0, <1>1, <1>2, <1>3, <1>4, <1>5, <1>6 DEF Next

-----------------------------------------------------------------------------
LEMMA FixedIsCapped ==
  ASSUME NEW a \in FixedAccounts
  PROVE  a \in Accounts /\ Capped(a) /\ a[1][1] # "job"
BY DEF FixedAccounts

LEMMA FixedCapIsCap ==
  ASSUME NEW a \in FixedAccounts
  PROVE  CapOfAccount(a)' = FixedCap(a)
<1>1. a[1][1] \in {"project", "caller_day", "brake"}
  BY FixedIsCapped, AccountParts DEF Scopes
<1>2. QED
  BY <1>1 DEF CapOfAccount, FixedCap

(* Every account with a fixed cap is a Budget: an empty one at the start,  *)
(* and every step of the ledger admits to it, closes in it, recovers it or *)
(* leaves it alone.                                                        *)
THEOREM LedgerImplementsBudgets == Spec => EveryAccountIsABudget
<1>1. Init => \A a \in FixedAccounts : BudgetOf(a)!Init
  <2> SUFFICES ASSUME Init, NEW a \in FixedAccounts PROVE BudgetOf(a)!Init
    OBVIOUS
  <2>1. \A i \in 1..MaxRequests : EntryOf(a, i) = FreeEntry
    BY InitFree
  <2>2. QED
    BY <2>1 DEF BudgetOf!Init, BudgetOf!Free, EntriesOf, FreeEntry
<1>2. ASSUME TableInv, [Next]_vars, NEW a \in FixedAccounts
      PROVE  BudgetOf(a)!Next \/ UNCHANGED EntriesOf(a)
  <2>1. CappedBudget(a, FixedCap(a))!Next \/ UNCHANGED EntriesOf(a)
    BY <1>2, FixedIsCapped, FixedCapIsCap, StepKeepsBudget
  <2>2. CappedBudget(a, FixedCap(a))!Next => BudgetOf(a)!Next
    BY Zenon DEF BudgetOf!Next, BudgetOf!Admit, BudgetOf!Close, BudgetOf!Recover, BudgetOf!Total,
       BudgetOf!SumTo, CappedBudget!Next, CappedBudget!Admit, CappedBudget!Close,
       CappedBudget!Recover, CappedBudget!Total, CappedBudget!SumTo, BudgetAmounts
  <2>3. QED
    BY <2>1, <2>2
<1>3. TableInv /\ [Next]_vars =>
        [\A a \in FixedAccounts : BudgetOf(a)!Next \/ UNCHANGED EntriesOf(a)]_vars
  BY <1>2
<1>4. QED
  BY <1>1, <1>3, InitTable, NextTable, PTL DEF Spec, EveryAccountIsABudget

-----------------------------------------------------------------------------
(* The accounts of a job, whose cap the job's first request pins.          *)
JobAccounts == {a \in Accounts : a[1][1] = "job"}
JobPin(a) == job_caps[<<a[1][2], a[1][3]>>]

(* Refinement, for the accounts of jobs: under the one cap its job is ever *)
(* pinned at, a job's account is a Budget too.  While the job has no pin   *)
(* its account is empty and stays empty, so the step is one of a budget of *)
(* any cap.                                                                *)
EveryJobIsABudget ==
  /\ \A a \in JobAccounts, cap \in Nat : CappedBudget(a, cap)!Init
  /\ [][\A a \in JobAccounts, cap \in Nat : JobPin(a)' \in {Unpinned, cap} =>
          CappedBudget(a, cap)!Next \/ UNCHANGED EntriesOf(a)]_vars

(* Every job's account starts as an empty budget, and every step of the    *)
(* ledger admits to it under the pin, closes in it, recovers it or leaves  *)
(* it alone; PinsAreForever says that the pin is one and the same for ever.*)
THEOREM JobsAreBudgets == Spec => EveryJobIsABudget
<1>1. Init => \A a \in JobAccounts, cap \in Nat : CappedBudget(a, cap)!Init
  <2> SUFFICES ASSUME Init, NEW a \in JobAccounts, NEW cap \in Nat PROVE CappedBudget(a, cap)!Init
    OBVIOUS
  <2>1. \A i \in 1..MaxRequests : EntryOf(a, i) = FreeEntry
    BY InitFree
  <2>2. QED
    BY <2>1 DEF CappedBudget!Init, CappedBudget!Free, EntriesOf, FreeEntry
<1>2. ASSUME TableInv, [Next]_vars, NEW a \in JobAccounts, NEW cap \in Nat,
             JobPin(a)' \in {Unpinned, cap}
      PROVE  CappedBudget(a, cap)!Next \/ UNCHANGED EntriesOf(a)
  <2>1. a \in Accounts /\ a[1][1] = "job" /\ Capped(a)
    BY DEF JobAccounts, Capped
  <2>2. ASSUME NEW inp \in Inputs, Reserve(inp), a[1] \in ScopesFor(inp, clock)
        PROVE  CapOfAccount(a)' = cap
    <3>1. inp \in Input /\ job_caps \in [Callers \X Jobs -> Nat \cup {Unpinned}]
      BY <1>2, ConstantsAssumption DEF TableInv, TypeOK
    <3>2. inp.job_id # NoJob /\ a[1] = <<"job", inp.caller_id, inp.job_id>>
      BY <2>1, <2>2 DEF ScopesFor
    <3>3. JobPin(a)' = inp.cap_presented /\ inp.cap_presented # Unpinned
      BY <2>2, <3>1, <3>2 DEF JobPin, Reserve, Input, Unpinned
    <3>4. QED
      BY <1>2, <2>1, <3>3 DEF CapOfAccount, JobPin
  <2>3. QED
    BY <1>2, <2>1, <2>2, StepKeepsBudget
<1>3. TableInv /\ [Next]_vars =>
        [\A a \in JobAccounts, cap \in Nat : JobPin(a)' \in {Unpinned, cap} =>
           CappedBudget(a, cap)!Next \/ UNCHANGED EntriesOf(a)]_vars
  BY <1>2
<1>4. QED
  BY <1>1, <1>3, InitTable, NextTable, PTL DEF Spec, EveryJobIsABudget
=============================================================================
