-------------------------- MODULE LedgerRefinement --------------------------
(***************************************************************************)
(* Every account whose cap the registry or the config fixes is a Budget:   *)
(* the compare-and-add on the materialized counter admits exactly what the *)
(* sum over the request rows would.                                        *)
(***************************************************************************)
EXTENDS Ledger

FixedAccounts == {a \in Accounts : Capped(a) /\ a[1][1] # "job"}

EntryOf(a, i) ==
  IF i > Len(requests) \/ a[1] \notin RowScopes(requests[i])
  THEN [phase |-> "free", amount |-> 0]
  ELSE [phase |-> IF requests[i].state = "reserved" THEN "open" ELSE "closed",
        amount |-> HeldBy(requests[i], a) + ChargedBy(requests[i], a)]

FixedCap(a) ==
  CASE a[1][1] = "caller_day" -> CallerDayCap[a[1][2]]
    [] a[1][1] = "project"    -> ProjectCap[a[1][2]]
    [] a[1][1] = "brake"      -> BrakeCap[a[1][2]]

EntriesOf(a) == [i \in 1..MaxRequests |-> EntryOf(a, i)]

BudgetOf(a) == INSTANCE Budget WITH
  Entries <- MaxRequests,
  Amounts <- {inp.worst[a[2]] : inp \in Inputs} \cup {amounts[a[2]] : amounts \in Actuals} \cup {0},
  Cap <- FixedCap(a),
  entry <- EntriesOf(a)

(* Refinement, for all accounts at once: seen through the rows, every     *)
(* account starts as an empty budget and every step of the ledger is a     *)
(* step of its budget or leaves it alone (\A a : BudgetOf(a)!Spec).        *)
EveryAccountIsABudget ==
  /\ \A a \in FixedAccounts : BudgetOf(a)!Init
  /\ [][\A a \in FixedAccounts : BudgetOf(a)!Next \/ UNCHANGED EntriesOf(a)]_vars
=============================================================================
