----------------------------- MODULE Admission ------------------------------
(***************************************************************************)
(* The money side of one request after another: service.py's prepare (the  *)
(* pre-admission on a floor, count_tokens or its fallback, the reserve),   *)
(* the request-cap refusal of ledger.py with the max_tokens it offers, and *)
(* _settle.  What the ledger does with the amounts is module Ledger.       *)
(***************************************************************************)
EXTENDS Money

CONSTANTS
  Asks,    \* requests: [counted, bytes, max_tokens, cap]
  Usages   \* what a provider may report: [Components -> Nat]

Ask == [counted : Nat, bytes : Nat, max_tokens : Nat \ {0}, cap : Nat]

ASSUME AdmissionConstants == Asks \subseteq Ask /\ Usages \subseteq [Components -> Nat]

VARIABLES
  ask,    \* the request in progress, with the max_tokens it asks for now
  phase,  \* "asked", "preadmitted", "estimated", "reserved", "settled",
          \* or refused: "turned_away" at the floor, "refused" at the estimate
  tokens, \* the input tokens it was last priced at
  usage,  \* what the provider reported
  offer   \* affordable_max_tokens of the last refusal

vars == <<ask, phase, tokens, usage, offer>>

NoUsage == [c \in Components |-> 0]

(* No estimate by count_tokens is lower than the margin.                   *)
FloorInputTokens_ByBytes(a) == HeuristicInputTokens(a.bytes)
FloorInputTokens(a) == ReserveInputTokens(0)

Fits(a, in_tokens, max_tokens) ==
  \A b \in Bases : WorstCase(in_tokens, max_tokens, b) <= a.cap

(* Refused on the billed basis if that does not fit, else on list.         *)
RefusedBasis(a, in_tokens) ==
  IF WorstCase(in_tokens, a.max_tokens, "billed") > a.cap THEN "billed" ELSE "list"
Offer(a, in_tokens) ==
  LET b == RefusedBasis(a, in_tokens)
  IN AffordableTokens(a.cap - Cost("input", in_tokens, b), b)

Init ==
  /\ ask \in Asks /\ phase = "asked"
  /\ tokens = 0 /\ usage = NoUsage /\ offer = 0

(* The floor and the estimate pass the same test.                          *)
Refused == phase \in {"turned_away", "refused"}
Tests(in_tokens, passed, failed) ==
  /\ tokens' = in_tokens
  /\ \/ Fits(ask, in_tokens, ask.max_tokens) /\ phase' = passed /\ UNCHANGED offer
     \/ /\ ~Fits(ask, in_tokens, ask.max_tokens)
        /\ phase' = failed /\ offer' = Offer(ask, in_tokens)
  /\ UNCHANGED <<ask, usage>>

Preadmits == phase = "asked" /\ Tests(FloorInputTokens(ask), "preadmitted", "turned_away")

Estimates(in_tokens) ==
  /\ phase = "preadmitted"
  /\ phase' = "estimated" /\ tokens' = in_tokens
  /\ UNCHANGED <<ask, usage, offer>>
Counts == Estimates(ReserveInputTokens(ask.counted))
CountFails == Estimates(HeuristicInputTokens(ask.bytes))

Reserves == phase = "estimated" /\ Tests(tokens, "reserved", "refused")

Settles(u) ==
  /\ phase = "reserved"
  /\ phase' = "settled" /\ usage' = u
  /\ UNCHANGED <<ask, tokens, offer>>

(* A refused caller may ask again for what it was offered, within the      *)
(* schema's max_tokens >= 1; or another request comes.                     *)
AsksOffered ==
  /\ Refused /\ offer >= 1
  /\ ask' = [ask EXCEPT !.max_tokens = offer] /\ phase' = "asked"
  /\ tokens' = 0 /\ UNCHANGED <<usage, offer>>
AsksAnew ==
  /\ Refused \/ phase = "settled"
  /\ ask' \in Asks /\ phase' = "asked"
  /\ tokens' = 0 /\ usage' = NoUsage /\ offer' = 0

Next ==
  \/ Preadmits \/ Counts \/ CountFails \/ Reserves
  \/ \E u \in Usages : Settles(u)
  \/ AsksOffered \/ AsksAnew

Spec == Init /\ [][Next]_vars

(***************************************************************************)
(* Properties.                                                             *)
(***************************************************************************)
(* A provider that stays within the estimate and max_tokens, and reports   *)
(* no cache tokens (the gateway sends no cache_control), is never settled  *)
(* above the reservation, on either basis, although every component is     *)
(* rounded up on its own (money.py:121-140, service.py:596-597).  Only     *)
(* then does holding the reservation hold the caps.                        *)
WithinReservation ==
  /\ usage["input"] <= tokens /\ usage["output"] <= ask.max_tokens
  /\ \A c \in Components \ {"input", "output"} : usage[c] = 0
SettlesWithinReservation ==
  phase = "settled" /\ WithinReservation =>
    \A b \in Bases : UsageCost(usage, b) <= WorstCase(tokens, ask.max_tokens, b)

(* The max_tokens a refusal offers is exact: priced at the same estimate   *)
(* the request fits with it, on both bases although it was computed on     *)
(* one, and does not fit with a single token more; an offer of 0 says that *)
(* nothing fits (money.py:79-85, ledger.py:302-306, 376-387).              *)
OfferIsExact ==
  Refused =>
    /\ offer >= 1 => Fits(ask, tokens, offer)
    /\ ~Fits(ask, tokens, offer + 1)

(* The floor turns away only requests that their own token count would     *)
(* have turned away too (service.py:61, 386-393).  It says nothing of the  *)
(* fallback: HeuristicInputTokens may be lower than the floor.             *)
FloorRefusesOnlyHopeless ==
  phase = "turned_away" => ~Fits(ask, ReserveInputTokens(ask.counted), ask.max_tokens)
=============================================================================
