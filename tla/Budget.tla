------------------------------- MODULE Budget -------------------------------
(***************************************************************************)
(* What the ledger promises of one capped account (docs/specs/gateway.md   *)
(* section 5): the entries are the account, there is no counter.  An entry *)
(* is admitted only while everything held or charged so far leaves room    *)
(* for it, it is closed once, and a restart charges whatever was open at   *)
(* what it held.                                                           *)
(***************************************************************************)
EXTENDS Integers, Sums

CONSTANTS
  Entries,   \* bound: the entries are 1..Entries
  Amounts,   \* the natural numbers an entry may hold or be charged
  Cap        \* a natural number

VARIABLE entry

Free == [phase |-> "free", amount |-> 0]

Total == SumTo([i \in 1..Entries |-> entry[i].amount], Entries)

Init == entry = [i \in 1..Entries |-> Free]

Admit(i, n) ==
  /\ entry[i].phase = "free"
  /\ Total + n <= Cap
  /\ entry' = [entry EXCEPT ![i] = [phase |-> "open", amount |-> n]]

Close(i, n) ==
  /\ entry[i].phase = "open"
  /\ entry' = [entry EXCEPT ![i] = [phase |-> "closed", amount |-> n]]

Recover ==
  entry' = [i \in 1..Entries |->
              IF entry[i].phase = "open" THEN [entry[i] EXCEPT !.phase = "closed"] ELSE entry[i]]

Next ==
  \/ \E i \in 1..Entries, n \in Amounts : Admit(i, n) \/ Close(i, n)
  \/ Recover

Spec == Init /\ [][Next]_entry
=============================================================================
