-------------------------- MODULE AdmissionProofs ---------------------------
(***************************************************************************)
(* Proofs about Admission and the arithmetic of Money, for any prices,     *)
(* caps, requests, usages and multiplier of at least 100.                  *)
(***************************************************************************)
EXTENDS Admission, TLAPS

-----------------------------------------------------------------------------
(* Arithmetic. *)
LEMMA DivMod ==
  ASSUME NEW n \in Int, NEW d \in Nat \ {0}
  PROVE  n \div d \in Int /\ (n \div d) * d <= n /\ n < (n \div d) * d + d
OBVIOUS

LEMMA TimesMonotone ==
  ASSUME NEW a \in Int, NEW b \in Int, NEW k \in Nat, a <= b
  PROVE  a * k <= b * k
OBVIOUS

LEMMA TimesPositive == ASSUME NEW a \in Nat \ {0}, NEW b \in Nat \ {0} PROVE a * b \in Nat \ {0}
OBVIOUS

(* x is n / d, rounded down. *)
LEMMA RoundedDown ==
  ASSUME NEW n \in Int, NEW d \in Nat \ {0}, NEW q \in Int, NEW x \in Int,
         x * d <= n, n < x * d + d
  PROVE  q <= x <=> q * d <= n
<1>1. CASE q <= x
  <2>1. q * d <= x * d
    BY <1>1, TimesMonotone
  <2>2. QED
    BY <1>1, <2>1
<1>2. CASE q > x
  <2>1. (x + 1) * d <= q * d
    BY <1>2, TimesMonotone
  <2>2. (x + 1) * d = x * d + d
    OBVIOUS
  <2>3. QED
    BY <1>2, <2>1, <2>2
<1>3. QED
  BY <1>1, <1>2

LEMMA FloorBound ==
  ASSUME NEW n \in Int, NEW d \in Nat \ {0}, NEW q \in Int
  PROVE  n \div d \in Int /\ (q <= n \div d <=> q * d <= n)
<1>1. n \div d \in Int /\ (n \div d) * d <= n /\ n < (n \div d) * d + d
  BY DivMod
<1> DEFINE x == n \div d
<1>2. x \in Int /\ x * d <= n /\ n < x * d + d
  BY <1>1
<1> HIDE DEF x
<1>3. q <= x <=> q * d <= n
  BY <1>2, RoundedDown
<1>4. QED
  BY <1>1, <1>3 DEF x

(* A ceiling is bounded by exactly the numbers its quotient is. *)
LEMMA CeilBound ==
  ASSUME NEW n \in Int, NEW d \in Nat \ {0}, NEW q \in Int
  PROVE  CeilDiv(n, d) \in Int /\ (CeilDiv(n, d) <= q <=> n <= q * d)
<1> DEFINE m == -n
           x == m \div d
           r == -q
<1>1. m \in Int /\ r \in Int
  OBVIOUS
<1>2. x \in Int /\ (r <= x <=> r * d <= m)
  BY <1>1, FloorBound
<1>3. CeilDiv(n, d) = -x
  BY DEF CeilDiv
<1>4. r * d = -(q * d)
  OBVIOUS
<1>5. q * d \in Int
  OBVIOUS
<1> HIDE DEF x
<1>6. QED
  BY <1>2, <1>3, <1>4, <1>5

LEMMA CeilMonotone ==
  ASSUME NEW n \in Int, NEW m \in Int, NEW d \in Nat \ {0}, n <= m
  PROVE  CeilDiv(n, d) <= CeilDiv(m, d)
<1> DEFINE q == CeilDiv(m, d)
<1>1. q \in Int
  BY CeilBound
<1> HIDE DEF q
<1>2. q <= q => m <= q * d
  BY <1>1, CeilBound DEF q
<1>3. n <= q * d
  BY <1>1, <1>2
<1>4. CeilDiv(n, d) <= q
  BY <1>1, <1>3, CeilBound
<1>5. QED
  BY <1>4 DEF q

-----------------------------------------------------------------------------
(* Costs. *)
Scale == Micro * 100
Rate(component, basis) == Prices[component] * Pct(basis)

LEMMA ScalePositive == Scale \in Nat \ {0}
BY MoneyConstants, TimesPositive DEF Scale

LEMMA RatePositive ==
  ASSUME NEW c \in Components, NEW b \in Bases
  PROVE  Rate(c, b) \in Nat \ {0}
<1>1. Prices[c] \in Nat \ {0} /\ Pct(b) \in Nat \ {0}
  BY MoneyConstants DEF Pct
<1>2. QED
  BY <1>1, TimesPositive DEF Rate

LEMMA CostIsRate ==
  ASSUME NEW c \in Components, NEW b \in Bases, NEW n \in Nat
  PROVE  Cost(c, n, b) = CeilDiv(n * Rate(c, b), Scale) /\ n * Rate(c, b) \in Nat
<1>1. Prices[c] \in Nat /\ Pct(b) \in Nat
  BY MoneyConstants DEF Pct
<1>2. n * Prices[c] * Pct(b) = n * (Prices[c] * Pct(b))
  BY <1>1
<1>3. QED
  BY <1>2, RatePositive DEF Cost, Rate, Scale

LEMMA CostBound ==
  ASSUME NEW c \in Components, NEW b \in Bases, NEW n \in Nat, NEW q \in Int
  PROVE  Cost(c, n, b) \in Int /\ (Cost(c, n, b) <= q <=> n * Rate(c, b) <= q * Scale)
BY CostIsRate, CeilBound, ScalePositive

LEMMA CostMonotone ==
  ASSUME NEW c \in Components, NEW b \in Bases, NEW n \in Nat, NEW m \in Nat, n <= m
  PROVE  Cost(c, n, b) <= Cost(c, m, b)
<1> DEFINE r == Rate(c, b)
<1>1. r \in Nat
  BY RatePositive
<1> HIDE DEF r
<1>2. n * r <= m * r /\ n * r \in Int /\ m * r \in Int
  BY <1>1, TimesMonotone
<1>3. QED
  BY <1>2, CostIsRate, CeilMonotone, ScalePositive DEF r

LEMMA CeilSigns ==
  ASSUME NEW n \in Nat, NEW d \in Nat \ {0}
  PROVE  CeilDiv(n, d) \in Nat /\ (CeilDiv(n, d) = 0 <=> n = 0)
<1> DEFINE x == CeilDiv(n, d)
<1>1. x \in Int /\ (x <= 0 <=> n <= 0 * d) /\ (x <= -1 <=> n <= (-1) * d)
  BY CeilBound
<1>2. 0 * d = 0 /\ (-1) * d < 0
  OBVIOUS
<1> DEFINE z == 0 * d
           m == (-1) * d
<1>3. z = 0 /\ m < 0 /\ m \in Int
  BY <1>2
<1> HIDE DEF x, z, m
<1>4. x \in Nat /\ (x = 0 <=> n = 0)
  BY <1>1, <1>3 DEF z, m
<1>5. QED
  BY <1>4 DEF x

LEMMA CostSigns ==
  ASSUME NEW c \in Components, NEW b \in Bases, NEW n \in Nat
  PROVE  Cost(c, n, b) \in Nat /\ (Cost(c, n, b) = 0 <=> n = 0)
<1> DEFINE r == Rate(c, b)
           p == n * r
<1>1. r \in Nat \ {0}
  BY RatePositive
<1>2. p \in Nat /\ Cost(c, n, b) = CeilDiv(p, Scale)
  BY CostIsRate
<1> HIDE DEF r
<1>3. p = 0 <=> n = 0
  BY <1>1
<1> HIDE DEF p
<1>4. QED
  BY <1>2, <1>3, CeilSigns, ScalePositive

(* The list price is never above the billed one. *)
LEMMA ListIsCheaper ==
  ASSUME NEW c \in Components, NEW n \in Nat
  PROVE  Cost(c, n, "list") <= Cost(c, n, "billed")
<1>1. Prices[c] \in Nat /\ Multiplier \in Nat /\ 100 <= Multiplier
  BY MoneyConstants
<1>2. 100 * Prices[c] <= Multiplier * Prices[c]
  BY <1>1, TimesMonotone
<1>3. Rate(c, "list") <= Rate(c, "billed")
  BY <1>1, <1>2 DEF Rate, Pct
<1>4. "list" \in Bases /\ "billed" \in Bases
  BY DEF Bases
<1> DEFINE x == Rate(c, "list")
           y == Rate(c, "billed")
<1>5. x \in Nat /\ y \in Nat /\ x <= y
  BY <1>3, <1>4, RatePositive
<1> HIDE DEF x, y
<1>6. x * n <= y * n /\ n * x = x * n /\ n * y = y * n
  BY <1>5, TimesMonotone
<1>7. n * x <= n * y /\ n * x \in Int /\ n * y \in Int
  BY <1>5, <1>6
<1>8. CeilDiv(n * x, Scale) <= CeilDiv(n * y, Scale)
  BY <1>7, CeilMonotone, ScalePositive
<1>9. QED
  BY <1>4, <1>8, CostIsRate DEF x, y

LEMMA WorstCaseTyped ==
  ASSUME NEW i \in Nat, NEW o \in Nat, NEW b \in Bases
  PROVE  WorstCase(i, o, b) \in Nat
BY CostSigns DEF WorstCase, Components

(* Pricing is monotone in the input tokens: what the floor refuses, every  *)
(* higher estimate refuses.                                                *)
LEMMA FitsLess ==
  ASSUME NEW a, NEW i \in Nat, NEW j \in Nat, i <= j, NEW o \in Nat, a.cap \in Nat, Fits(a, j, o)
  PROVE  Fits(a, i, o)
<1>1. SUFFICES ASSUME NEW b \in Bases PROVE WorstCase(i, o, b) <= a.cap
  BY DEF Fits
<1>2. WorstCase(j, o, b) <= a.cap
  BY DEF Fits
<1>3. Cost("input", i, b) <= Cost("input", j, b)
  BY CostMonotone DEF Components
<1>4. /\ Cost("input", i, b) \in Nat /\ Cost("input", j, b) \in Nat
      /\ Cost("output", o, b) \in Nat
  BY CostSigns DEF Components
<1>5. QED
  BY <1>2, <1>3, <1>4 DEF WorstCase

(* The offer is exact on the basis it is computed on, and no other basis   *)
(* can refuse it.                                                          *)
LEMMA OfferExact ==
  ASSUME NEW a, a.cap \in Nat, a.max_tokens \in Nat, NEW i \in Nat, ~Fits(a, i, a.max_tokens)
  PROVE  /\ Offer(a, i) \in Nat
         /\ Offer(a, i) >= 1 => Fits(a, i, Offer(a, i))
         /\ ~Fits(a, i, Offer(a, i) + 1)
<1> DEFINE C(o, b) == Cost("output", o, b)
           I(b) == Cost("input", i, b)
           B == a.cap - I("billed")
           r == Rate("output", "billed")
           f == Offer(a, i)
<1>1. "billed" \in Bases /\ "list" \in Bases /\ \A b \in Bases : b = "billed" \/ b = "list"
  BY DEF Bases
<1>2. "input" \in Components /\ "output" \in Components
  BY DEF Components
<1>3. /\ \A b \in Bases : I(b) \in Nat /\ \A o \in Nat : C(o, b) \in Nat
      /\ I("list") <= I("billed") /\ \A o \in Nat : C(o, "list") <= C(o, "billed")
  BY <1>1, <1>2, CostSigns, ListIsCheaper
<1>4. \A o \in Nat, b \in Bases : WorstCase(i, o, b) = I(b) + C(o, b)
  BY DEF WorstCase
<1> HIDE DEF C, I
<1>5. \A o \in Nat : Fits(a, i, o) <=> C(o, "billed") <= B
  <2>1. SUFFICES ASSUME NEW o \in Nat PROVE Fits(a, i, o) <=> C(o, "billed") <= B
    OBVIOUS
  <2>2. Fits(a, i, o) <=> WorstCase(i, o, "billed") <= a.cap /\ WorstCase(i, o, "list") <= a.cap
    BY <1>1 DEF Fits
  <2>3. /\ I("billed") \in Nat /\ I("list") \in Nat /\ C(o, "billed") \in Nat
        /\ C(o, "list") \in Nat /\ I("list") <= I("billed") /\ C(o, "list") <= C(o, "billed")
    BY <1>1, <1>3
  <2>4. /\ WorstCase(i, o, "billed") = I("billed") + C(o, "billed")
        /\ WorstCase(i, o, "list") = I("list") + C(o, "list")
    BY <1>1, <1>4
  <2>5. QED
    BY <2>2, <2>3, <2>4
<1>6. RefusedBasis(a, i) = "billed"
  BY <1>1, <1>3, <1>4, <1>5 DEF RefusedBasis
<1>7. B \in Int
  BY <1>1, <1>3
<1>8. f = AffordableTokens(B, "billed")
  BY <1>6 DEF Offer, I
<1> HIDE DEF B, f
<1>9. \A o \in Nat : C(o, "billed") <= B <=> o * r <= B * Scale
  BY <1>1, <1>2, <1>7, CostBound DEF C
<1>10. r \in Nat \ {0} /\ Scale \in Nat \ {0}
  BY <1>1, <1>2, RatePositive, ScalePositive
<1>11. CASE B <= 0
  <2>1. f = 0
    BY <1>8, <1>11 DEF AffordableTokens
  <2>2. C(1, "billed") > 0
    BY <1>1, <1>2, <1>3, CostSigns DEF C
  <2>3. ~(C(f + 1, "billed") <= B)
    BY <1>1, <1>3, <1>7, <1>11, <2>1, <2>2
  <2>4. ~Fits(a, i, f + 1)
    BY <1>5, <2>1, <2>3
  <2>5. QED
    BY <2>1, <2>4 DEF f
<1>12. CASE B > 0
  <2> DEFINE n == B * Scale
  <2>1. n \in Nat
    BY <1>7, <1>10, <1>12
  <2>2. B * Micro * 100 = n
    BY <1>7, MoneyConstants DEF Scale
  <2>3. f = n \div r
    <3>1. f = (B * Micro * 100) \div (Prices["output"] * Pct("billed"))
      BY <1>7, <1>8, <1>12 DEF AffordableTokens
    <3>2. r = Prices["output"] * Pct("billed")
      BY DEF Rate
    <3>3. QED
      BY <2>2, <3>1, <3>2, Zenon
  <2> HIDE DEF n, r
  <2>4. f \in Int /\ (0 <= f <=> 0 * r <= n) /\ (f <= f <=> f * r <= n)
        /\ (f + 1 <= f <=> (f + 1) * r <= n)
    <3>1. f \in Int
      BY <1>10, <2>1, <2>3, FloorBound
    <3>2. \A q \in Int : q <= f <=> q * r <= n
      BY <1>10, <2>1, <2>3, FloorBound
    <3>3. QED
      BY <3>1, <3>2
  <2>5. 0 * r = 0
    BY <1>10
  <2>6. f \in Nat /\ f * r <= n /\ ~((f + 1) * r <= n)
    BY <2>1, <2>4, <2>5
  <2>7. C(f, "billed") <= B /\ ~(C(f + 1, "billed") <= B)
    BY <1>9, <2>6 DEF n
  <2>8. Fits(a, i, f) /\ ~Fits(a, i, f + 1)
    BY <1>5, <2>6, <2>7
  <2>9. QED
    BY <2>6, <2>8 DEF f
<1>13. QED
  BY <1>7, <1>11, <1>12

LEMMA EstimatesTyped ==
  ASSUME NEW n \in Nat
  PROVE  /\ ReserveInputTokens(n) \in Nat /\ HeuristicInputTokens(n) \in Nat
         /\ ReserveInputTokens(0) <= ReserveInputTokens(n)
<1>1. /\ CeilDiv(n * 105, 100) \in Nat /\ CeilDiv(0 * 105, 100) \in Nat
      /\ CeilDiv(n * 2, 5) \in Nat
  BY CeilSigns
<1>2. CeilDiv(0 * 105, 100) <= CeilDiv(n * 105, 100)
  BY CeilMonotone
<1>3. QED
  BY <1>1, <1>2 DEF ReserveInputTokens, HeuristicInputTokens

-----------------------------------------------------------------------------
(* Inv is inductive: a refusal offers what its own basis affords, and the  *)
(* floor is the estimate of an empty request.                              *)
AdmissionTypeOK ==
  /\ ask \in Ask /\ tokens \in Nat /\ usage \in [Components -> Nat] /\ offer \in Nat

Inv ==
  /\ AdmissionTypeOK
  /\ Refused => ~Fits(ask, tokens, ask.max_tokens) /\ offer = Offer(ask, tokens)
  /\ phase = "turned_away" => tokens = ReserveInputTokens(0)

LEMMA AskFields ==
  ASSUME NEW a \in Ask
  PROVE  /\ a.counted \in Nat /\ a.bytes \in Nat /\ a.max_tokens \in Nat /\ a.cap \in Nat
BY DEF Ask

LEMMA NoUsageTyped == NoUsage \in [Components -> Nat]
BY DEF NoUsage

(* The test that the floor and the estimate share. *)
LEMMA TestsKeep ==
  ASSUME Inv, NEW in_tokens \in Nat, NEW passed, NEW failed, Tests(in_tokens, passed, failed),
         passed \notin {"turned_away", "refused"},
         failed = "turned_away" => in_tokens = ReserveInputTokens(0)
  PROVE  Inv'
<1>1. ask' = ask /\ usage' = usage /\ tokens' = in_tokens
  BY DEF Tests
<1>2. ask \in Ask /\ ask.cap \in Nat /\ ask.max_tokens \in Nat
  BY AskFields DEF Inv, AdmissionTypeOK
<1>3. CASE Fits(ask, in_tokens, ask.max_tokens) /\ phase' = passed /\ UNCHANGED offer
  <2>1. AdmissionTypeOK'
    BY <1>1, <1>3 DEF Inv, AdmissionTypeOK
  <2>2. ~Refused' /\ phase' # "turned_away"
    BY <1>3 DEF Refused
  <2>3. QED
    BY <2>1, <2>2 DEF Inv
<1>4. CASE /\ ~Fits(ask, in_tokens, ask.max_tokens)
           /\ phase' = failed /\ offer' = Offer(ask, in_tokens)
  <2>1. offer' \in Nat
    BY <1>2, <1>4, OfferExact
  <2>2. AdmissionTypeOK'
    BY <1>1, <2>1 DEF Inv, AdmissionTypeOK
  <2>3. ~Fits(ask, tokens, ask.max_tokens)' /\ offer' = Offer(ask, tokens)'
    BY <1>1, <1>4 DEF Fits, Offer, RefusedBasis
  <2>4. phase' = "turned_away" => tokens' = ReserveInputTokens(0)
    BY <1>1, <1>4
  <2>5. QED
    BY <2>2, <2>3, <2>4 DEF Inv
<1>5. QED
  BY <1>3, <1>4 DEF Tests

LEMMA PreadmitsKeep ==
  ASSUME Inv, Preadmits
  PROVE  Inv'
<1>1. FloorInputTokens(ask) = ReserveInputTokens(0) /\ ReserveInputTokens(0) \in Nat
  BY EstimatesTyped, 0 \in Nat DEF FloorInputTokens
<1>2. Tests(ReserveInputTokens(0), "preadmitted", "turned_away")
  BY <1>1 DEF Preadmits
<1>3. QED
  BY <1>1, <1>2, TestsKeep

LEMMA EstimatesKeep ==
  ASSUME Inv, Counts \/ CountFails
  PROVE  Inv'
<1>1. /\ phase' = "estimated" /\ UNCHANGED <<ask, usage, offer>>
      /\ tokens' = ReserveInputTokens(ask.counted) \/ tokens' = HeuristicInputTokens(ask.bytes)
  BY DEF Counts, CountFails, Estimates
<1>2. tokens' \in Nat
  BY <1>1, EstimatesTyped, AskFields DEF Inv, AdmissionTypeOK
<1>3. AdmissionTypeOK'
  BY <1>1, <1>2 DEF Inv, AdmissionTypeOK
<1>4. ~Refused' /\ phase' # "turned_away"
  BY <1>1 DEF Refused
<1>5. QED
  BY <1>3, <1>4 DEF Inv

LEMMA ReservesKeep ==
  ASSUME Inv, Reserves
  PROVE  Inv'
<1>1. tokens \in Nat /\ Tests(tokens, "reserved", "refused")
  BY DEF Reserves, Inv, AdmissionTypeOK
<1>2. QED
  BY <1>1, TestsKeep

LEMMA AsksKeep ==
  ASSUME Inv, AsksOffered \/ AsksAnew \/ \E u \in Usages : Settles(u)
  PROVE  Inv'
<1>1. AdmissionTypeOK'
  <2>1. CASE AsksOffered
    <3>1. /\ offer \in Nat /\ offer >= 1 /\ ask' = [ask EXCEPT !.max_tokens = offer]
          /\ tokens' = 0 /\ UNCHANGED <<usage, offer>>
      BY <2>1 DEF AsksOffered, Inv, AdmissionTypeOK
    <3>2. ask' \in Ask
      BY <3>1 DEF Inv, AdmissionTypeOK, Ask
    <3>3. QED
      BY <3>1, <3>2 DEF Inv, AdmissionTypeOK
  <2>2. CASE AsksAnew
    BY <2>2, NoUsageTyped, AdmissionConstants DEF AsksAnew, AdmissionTypeOK
  <2>3. CASE \E u \in Usages : Settles(u)
    BY <2>3, AdmissionConstants DEF Settles, Inv, AdmissionTypeOK
  <2>4. QED
    BY <2>1, <2>2, <2>3
<1>2. ~Refused' /\ phase' # "turned_away"
  BY DEF AsksOffered, AsksAnew, Settles, Refused
<1>3. QED
  BY <1>1, <1>2 DEF Inv

LEMMA StillKeep ==
  ASSUME Inv, UNCHANGED vars
  PROVE  Inv'
BY DEF Inv, vars, AdmissionTypeOK, Refused, Fits, Offer, RefusedBasis

LEMMA InvNext == Inv /\ [Next]_vars => Inv'
BY PreadmitsKeep, EstimatesKeep, ReservesKeep, AsksKeep, StillKeep DEF Next

LEMMA InvInit == Init => Inv
<1> SUFFICES ASSUME Init PROVE Inv
  OBVIOUS
<1>1. AdmissionTypeOK
  BY NoUsageTyped, AdmissionConstants DEF Init, AdmissionTypeOK
<1>2. ~Refused /\ phase # "turned_away"
  BY DEF Init, Refused
<1>3. QED
  BY <1>1, <1>2 DEF Inv

(* A request that is refused really does not fit by the tokens it was last *)
(* priced at, and one turned away early was priced at the floor.           *)
THEOREM SpecInv == Spec => []Inv
BY InvInit, InvNext, PTL DEF Spec

(* What is settled is covered by what was reserved, on both bases, however *)
(* the components round.                                                   *)
THEOREM SettlementsAreCovered == Spec => []SettlesWithinReservation
<1>1. Inv => SettlesWithinReservation
  <2> SUFFICES ASSUME Inv, WithinReservation, NEW b \in Bases
               PROVE  UsageCost(usage, b) <= WorstCase(tokens, ask.max_tokens, b)
    BY DEF SettlesWithinReservation
  <2>1. \A c \in Components : usage[c] \in Nat
    BY DEF Inv, AdmissionTypeOK
  <2>2. tokens \in Nat /\ ask.max_tokens \in Nat
    BY AskFields DEF Inv, AdmissionTypeOK
  <2>3. /\ usage["input"] <= tokens /\ usage["output"] <= ask.max_tokens
        /\ \A c \in {"cache_write_5m", "cache_write_1h", "cache_read"} :
             c \in Components /\ usage[c] = 0
        /\ "input" \in Components /\ "output" \in Components
    BY DEF WithinReservation, Components
  <2>4. \A c \in {"cache_write_5m", "cache_write_1h", "cache_read"} : Cost(c, usage[c], b) = 0
    BY <2>1, <2>3, CostSigns
  <2>5. /\ Cost("input", usage["input"], b) <= Cost("input", tokens, b)
        /\ Cost("output", usage["output"], b) <= Cost("output", ask.max_tokens, b)
    BY <2>1, <2>2, <2>3, CostMonotone
  <2>6. /\ Cost("input", usage["input"], b) \in Nat /\ Cost("input", tokens, b) \in Nat
        /\ Cost("output", usage["output"], b) \in Nat
        /\ Cost("output", ask.max_tokens, b) \in Nat
    BY <2>1, <2>2, <2>3, CostSigns
  <2>7. QED
    BY <2>4, <2>5, <2>6 DEF UsageCost, WorstCase
<1>2. QED
  BY <1>1, SpecInv, PTL

(* The max_tokens a refusal offers is the most that fits. *)
THEOREM OffersAreExact == Spec => []OfferIsExact
<1>1. Inv => OfferIsExact
  <2> SUFFICES ASSUME Inv, Refused
               PROVE  /\ offer >= 1 => Fits(ask, tokens, offer)
                      /\ ~Fits(ask, tokens, offer + 1)
    BY DEF OfferIsExact
  <2>1. /\ ask.cap \in Nat /\ ask.max_tokens \in Nat /\ tokens \in Nat
        /\ ~Fits(ask, tokens, ask.max_tokens) /\ offer = Offer(ask, tokens)
    BY AskFields DEF Inv, AdmissionTypeOK
  <2>2. QED
    BY <2>1, OfferExact
<1>2. QED
  BY <1>1, SpecInv, PTL

(* The floor never turns away what its own count would admit. *)
THEOREM FloorIsSafe == Spec => []FloorRefusesOnlyHopeless
<1>1. Inv => FloorRefusesOnlyHopeless
  <2> SUFFICES ASSUME Inv, phase = "turned_away",
                      Fits(ask, ReserveInputTokens(ask.counted), ask.max_tokens)
               PROVE  FALSE
    BY DEF FloorRefusesOnlyHopeless
  <2>1. ask.cap \in Nat /\ ask.max_tokens \in Nat /\ ask.counted \in Nat
    BY AskFields DEF Inv, AdmissionTypeOK
  <2>2. /\ ReserveInputTokens(0) \in Nat /\ ReserveInputTokens(ask.counted) \in Nat
        /\ ReserveInputTokens(0) <= ReserveInputTokens(ask.counted)
    BY <2>1, EstimatesTyped, 0 \in Nat
  <2>3. Fits(ask, ReserveInputTokens(0), ask.max_tokens)
    BY <2>1, <2>2, FitsLess
  <2>4. QED
    BY <2>3 DEF Inv, Refused
<1>2. QED
  BY <1>1, SpecInv, PTL
=============================================================================
