------------------------------- MODULE Money --------------------------------
(***************************************************************************)
(* services/gateway/src/gateway/money.py: integer micro-USD arithmetic.    *)
(* Micro stands for MICRO, so that a small instance can round as often as  *)
(* the real one.  Operators named X_Bug are X with a plausible mistake.    *)
(***************************************************************************)
EXTENDS Integers

CONSTANTS
  Micro,       \* micro-USD per USD, and tokens per MTok
  Prices,      \* [Components -> micro-USD per MTok] of the model
  Multiplier   \* BILLED_PRICE_MULTIPLIER_PCT, 100 to 200 (config.py:161)

Components == {"input", "output", "cache_write_5m", "cache_write_1h", "cache_read"}

ASSUME MoneyConstants ==
  /\ Micro \in Nat \ {0} /\ Prices \in [Components -> Nat \ {0}]
  /\ Multiplier \in Nat /\ Multiplier >= 100

CeilDiv(n, d) == -((-n) \div d)

(* The two bases an amount is kept on, as percentages of the list price.   *)
Bases == {"billed", "list"}
Pct(basis) == IF basis = "billed" THEN Multiplier ELSE 100

Cost(component, tokens, basis) ==
  CeilDiv(tokens * Prices[component] * Pct(basis), Micro * 100)

AffordableTokens_RoundedUp(budget, basis) ==
  IF budget <= 0 THEN 0 ELSE CeilDiv(budget * Micro * 100, Prices["output"] * Pct(basis))
AffordableTokens(budget, basis) ==
  IF budget <= 0 THEN 0 ELSE (budget * Micro * 100) \div (Prices["output"] * Pct(basis))

UsageCost(usage, basis) ==
  Cost("input", usage["input"], basis) + Cost("output", usage["output"], basis)
  + Cost("cache_write_5m", usage["cache_write_5m"], basis)
  + Cost("cache_write_1h", usage["cache_write_1h"], basis)
  + Cost("cache_read", usage["cache_read"], basis)

(* One ceiling over the sum would save a micro-USD.                        *)
WorstCase_OneCeiling(in_tokens, max_tokens, basis) ==
  CeilDiv((in_tokens * Prices["input"] + max_tokens * Prices["output"]) * Pct(basis), Micro * 100)
WorstCase(in_tokens, max_tokens, basis) ==
  Cost("input", in_tokens, basis) + Cost("output", max_tokens, basis)

ReserveInputTokens(counted) == CeilDiv(counted * 105, 100) + 32
HeuristicInputTokens(nbytes) == CeilDiv(nbytes * 2, 5)
=============================================================================
