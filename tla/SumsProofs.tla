----------------------------- MODULE SumsProofs -----------------------------
(***************************************************************************)
(* What a running sum over the request rows does when rows change.  These  *)
(* are the facts behind every proof that a materialized counter of         *)
(* scope_totals equals the sum over the rows it was derived from.          *)
(*                                                                         *)
(* Induction is first-order here: NatLessThanWellFounded with WFMin gives  *)
(* a least element of every non-empty set of naturals.                     *)
(***************************************************************************)
EXTENDS Sums, WellFoundedInduction, TLAPS

LEMMA LeastElement ==
  ASSUME NEW T, T \subseteq Nat, T # {}
  PROVE  \E x \in T : \A y \in T : x <= y
<1>1. \E x \in T : \A y \in T : ~ (<<y, x>> \in OpToRel(<, Nat))
  BY NatLessThanWellFounded, WFMin, Zenon
<1>2. \A x, y \in T : ~ (<<y, x>> \in OpToRel(<, Nat)) => x <= y
  BY DEF OpToRel
<1>3. QED
  BY <1>1, <1>2

LEMMA InductionOnSet ==
  ASSUME NEW S, 0 \in S, \A n \in Nat : n \in S => n + 1 \in S
  PROVE  \A n \in Nat : n \in S
<1> DEFINE T == Nat \ S
<1>1. SUFFICES ASSUME T # {} PROVE FALSE
  OBVIOUS
<1>2. PICK x \in T : \A y \in T : x <= y
  BY <1>1, LeastElement
<1>3. x # 0 /\ x - 1 \in Nat /\ x - 1 \in S
  BY <1>2
<1>4. QED
  BY <1>3

-----------------------------------------------------------------------------
(* SumTo picks the one function that satisfies its recursion equation.     *)
IsRunning(acc, f, n) ==
  acc = [i \in 0..n |-> IF i = 0 THEN 0 ELSE acc[i - 1] + f[i]]

LEMMA RunningExists ==
  ASSUME NEW f
  PROVE  \A n \in Nat : \E acc : IsRunning(acc, f, n)
<1> DEFINE S == {n \in Nat : \E acc : IsRunning(acc, f, n)}
<1>1. 0 \in S
  <2>1. IsRunning([i \in 0..0 |-> 0], f, 0)
    BY DEF IsRunning
  <2>2. QED
    BY <2>1
<1>2. ASSUME NEW n \in Nat, n \in S PROVE n + 1 \in S
  <2>1. PICK acc : IsRunning(acc, f, n)
    BY <1>2
  <2> DEFINE new == [i \in 0..(n + 1) |->
                       IF i = n + 1 THEN acc[n] + f[n + 1] ELSE acc[i]]
  <2>2. ASSUME NEW i \in 0..(n + 1)
        PROVE  new[i] = IF i = 0 THEN 0 ELSE new[i - 1] + f[i]
    <3>1. CASE i = n + 1
      BY <3>1
    <3>2. CASE i # n + 1
      <4>1. i \in 0..n /\ new[i] = acc[i]
        BY <3>2
      <4>2. acc[i] = IF i = 0 THEN 0 ELSE acc[i - 1] + f[i]
        BY <4>1, <2>1 DEF IsRunning
      <4>3. i # 0 => new[i - 1] = acc[i - 1]
        BY <4>1
      <4>4. QED
        BY <4>1, <4>2, <4>3
    <3>3. QED
      BY <3>1, <3>2
  <2>3. new = [i \in 0..(n + 1) |-> IF i = 0 THEN 0 ELSE new[i - 1] + f[i]]
    BY <2>2
  <2>4. IsRunning(new, f, n + 1)
    BY <2>3, Zenon DEF IsRunning
  <2>5. n + 1 \in Nat
    OBVIOUS
  <2> HIDE DEF new
  <2>6. QED
    BY <2>4, <2>5
<1>3. \A n \in Nat : n \in S
  <2> HIDE DEF S
  <2>1. QED
    BY <1>1, <1>2, InductionOnSet
<1>4. QED
  BY <1>3

LEMMA SumToRunning ==
  ASSUME NEW f, NEW n \in Nat
  PROVE  \E acc : IsRunning(acc, f, n) /\ SumTo(f, n) = acc[n]
<1> DEFINE acc == CHOOSE a : IsRunning(a, f, n)
<1>1. IsRunning(acc, f, n)
  BY RunningExists, Zenon
<1>2. SumTo(f, n) = acc[n]
  BY Zenon DEF SumTo, IsRunning
<1>3. QED
  BY <1>1, <1>2

LEMMA RunningUnique ==
  ASSUME NEW f, NEW m \in Nat, NEW n \in Nat, m <= n, NEW a, NEW b,
         IsRunning(a, f, m), IsRunning(b, f, n)
  PROVE  a[m] = b[m]
<1> DEFINE S == {i \in Nat : i <= m => a[i] = b[i]}
<1>1. 0 \in S
  BY DEF IsRunning
<1>2. ASSUME NEW i \in Nat, i \in S PROVE i + 1 \in S
  <2>1. CASE i + 1 <= m
    <3>1. a[i + 1] = a[i] + f[i + 1]
      <4>1. i + 1 \in 0..m /\ i + 1 # 0 /\ (i + 1) - 1 = i
        BY <2>1
      <4>2. QED
        BY <4>1 DEF IsRunning
    <3>2. b[i + 1] = b[i] + f[i + 1]
      <4>1. i + 1 \in 0..n /\ i + 1 # 0 /\ (i + 1) - 1 = i
        BY <2>1
      <4>2. QED
        BY <4>1 DEF IsRunning
    <3>3. a[i] = b[i]
      BY <1>2, <2>1
    <3>4. QED
      BY <3>1, <3>2, <3>3
  <2>2. CASE ~(i + 1 <= m)
    BY <2>2
  <2>3. QED
    BY <2>1, <2>2
<1>3. m \in S
  <2> HIDE DEF S
  <2>1. QED
    BY <1>1, <1>2, InductionOnSet
<1>4. QED
  BY <1>3

(* The two equations every later lemma uses. *)
LEMMA SumToZero ==
  ASSUME NEW f
  PROVE  SumTo(f, 0) = 0
<1>1. PICK acc : IsRunning(acc, f, 0) /\ SumTo(f, 0) = acc[0]
  BY SumToRunning
<1>2. QED
  BY <1>1 DEF IsRunning

LEMMA SumToStep ==
  ASSUME NEW f, NEW n \in Nat
  PROVE  SumTo(f, n + 1) = SumTo(f, n) + f[n + 1]
<1>1. PICK a : IsRunning(a, f, n) /\ SumTo(f, n) = a[n]
  BY SumToRunning
<1>2. PICK b : IsRunning(b, f, n + 1) /\ SumTo(f, n + 1) = b[n + 1]
  BY SumToRunning
<1>3. a[n] = b[n]
  BY <1>1, <1>2, RunningUnique
<1>4. b[n + 1] = b[n] + f[n + 1]
  <2>1. n + 1 \in 0..(n + 1) /\ n + 1 # 0 /\ (n + 1) - 1 = n
    OBVIOUS
  <2>2. QED
    BY <2>1, <1>2 DEF IsRunning
<1>5. QED
  BY <1>1, <1>2, <1>3, <1>4

-----------------------------------------------------------------------------
(* A sum of integers is an integer. *)
LEMMA SumToInt ==
  ASSUME NEW f, NEW n \in Nat, \A i \in 1..n : f[i] \in Int
  PROVE  SumTo(f, n) \in Int
<1> DEFINE S == {m \in Nat : m <= n => SumTo(f, m) \in Int}
<1>1. 0 \in S
  BY SumToZero
<1>2. ASSUME NEW m \in Nat, m \in S PROVE m + 1 \in S
  <2>1. SumTo(f, m + 1) = SumTo(f, m) + f[m + 1]
    BY SumToStep
  <2>2. m + 1 <= n => m + 1 \in 1..n /\ m <= n
    OBVIOUS
  <2>3. QED
    BY <1>2, <2>1, <2>2
<1>3. n \in S
  <2> HIDE DEF S
  <2>1. QED
    BY <1>1, <1>2, InductionOnSet
<1>4. QED
  BY <1>3

(* Sums add up row by row. *)
LEMMA SumToAdd ==
  ASSUME NEW f, NEW d, NEW g, NEW n \in Nat,
         \A i \in 1..n : f[i] \in Int /\ d[i] \in Int /\ g[i] = f[i] + d[i]
  PROVE  SumTo(g, n) = SumTo(f, n) + SumTo(d, n)
<1> DEFINE S == {m \in Nat : m <= n => SumTo(g, m) = SumTo(f, m) + SumTo(d, m)}
<1>1. 0 \in S
  <2>1. SumTo(f, 0) = 0 /\ SumTo(d, 0) = 0 /\ SumTo(g, 0) = 0
    BY SumToZero
  <2>2. QED
    BY <2>1
<1>2. ASSUME NEW m \in Nat, m \in S PROVE m + 1 \in S
  <2>1. CASE m + 1 <= n
    <3>1. /\ SumTo(f, m + 1) = SumTo(f, m) + f[m + 1]
          /\ SumTo(d, m + 1) = SumTo(d, m) + d[m + 1]
          /\ SumTo(g, m + 1) = SumTo(g, m) + g[m + 1]
      BY SumToStep
    <3>2. SumTo(f, m) \in Int /\ SumTo(d, m) \in Int
      <4>1. \A i \in 1..m : i \in 1..n
        BY <2>1
      <4>2. QED
        BY <4>1, SumToInt
    <3>3. SumTo(g, m) = SumTo(f, m) + SumTo(d, m)
      BY <1>2, <2>1
    <3>4. m + 1 \in 1..n
      BY <2>1
    <3>5. f[m + 1] \in Int /\ d[m + 1] \in Int /\ g[m + 1] = f[m + 1] + d[m + 1]
      BY <3>4
    <3>6. QED
      BY <3>1, <3>2, <3>3, <3>5
  <2>2. CASE ~(m + 1 <= n)
    BY <2>2
  <2>3. QED
    BY <2>1, <2>2
<1>3. n \in S
  <2> HIDE DEF S
  <2>1. QED
    BY <1>1, <1>2, InductionOnSet
<1>4. QED
  BY <1>3

(* A sum whose rows are all zero but the k-th is that row's value. *)
LEMMA SumToSingle ==
  ASSUME NEW d, NEW n \in Nat, NEW k \in 1..n, d[k] \in Int,
         \A i \in 1..n : i # k => d[i] = 0
  PROVE  SumTo(d, n) = d[k]
<1> DEFINE S == {m \in Nat : m <= n => SumTo(d, m) = IF m < k THEN 0 ELSE d[k]}
<1>1. 0 \in S
  BY SumToZero
<1>2. ASSUME NEW m \in Nat, m \in S PROVE m + 1 \in S
  <2>1. SumTo(d, m + 1) = SumTo(d, m) + d[m + 1]
    BY SumToStep
  <2>2. CASE m + 1 <= n
    <3>1. m + 1 \in 1..n /\ m <= n
      BY <2>2
    <3>2. CASE m + 1 = k
      BY <1>2, <2>1, <3>1, <3>2
    <3>3. CASE m + 1 # k
      <4>1. d[m + 1] = 0
        BY <3>1, <3>3
      <4>2. QED
        BY <1>2, <2>1, <3>1, <3>3, <4>1
    <3>4. QED
      BY <3>2, <3>3
  <2>3. CASE ~(m + 1 <= n)
    BY <2>3
  <2>4. QED
    BY <2>2, <2>3
<1>3. n \in S
  <2> HIDE DEF S
  <2>1. QED
    BY <1>1, <1>2, InductionOnSet
<1>4. QED
  BY <1>3

(* Changing one row changes the sum by what that row changed. *)
LEMMA SumToUpdate ==
  ASSUME NEW f, NEW g, NEW n \in Nat, NEW k \in 1..n,
         \A i \in 1..n : f[i] \in Int /\ g[i] \in Int,
         \A i \in 1..n : i # k => g[i] = f[i]
  PROVE  SumTo(g, n) = SumTo(f, n) + g[k] - f[k]
<1> DEFINE d == [i \in 1..n |-> IF i = k THEN g[k] - f[k] ELSE 0]
<1>1. \A i \in 1..n : f[i] \in Int /\ d[i] \in Int /\ g[i] = f[i] + d[i]
  OBVIOUS
<1>2. d[k] = g[k] - f[k] /\ \A i \in 1..n : i # k => d[i] = 0
  OBVIOUS
<1> HIDE DEF d
<1>3. SumTo(g, n) = SumTo(f, n) + SumTo(d, n)
  BY <1>1, SumToAdd
<1>4. SumTo(d, n) = d[k]
  BY <1>1, <1>2, SumToSingle
<1>5. SumTo(f, n) \in Int
  BY <1>1, SumToInt
<1>6. QED
  BY <1>2, <1>3, <1>4, <1>5

(* Two functions with the same rows have the same sum. *)
LEMMA SumToSame ==
  ASSUME NEW f, NEW g, NEW n \in Nat,
         \A i \in 1..n : f[i] = g[i]
  PROVE  SumTo(f, n) = SumTo(g, n)
<1> DEFINE S == {m \in Nat : m <= n => SumTo(f, m) = SumTo(g, m)}
<1>1. 0 \in S
  BY SumToZero
<1>2. ASSUME NEW m \in Nat, m \in S PROVE m + 1 \in S
  <2>1. SumTo(f, m + 1) = SumTo(f, m) + f[m + 1] /\ SumTo(g, m + 1) = SumTo(g, m) + g[m + 1]
    BY SumToStep
  <2>2. m + 1 <= n => m + 1 \in 1..n /\ m <= n
    OBVIOUS
  <2>3. QED
    BY <1>2, <2>1, <2>2
<1>3. n \in S
  <2> HIDE DEF S
  <2>1. QED
    BY <1>1, <1>2, InductionOnSet
<1>4. QED
  BY <1>3

(* Appending a row adds its value. *)
LEMMA SumToAppend ==
  ASSUME NEW f, NEW g, NEW n \in Nat, \A i \in 1..n : g[i] = f[i]
  PROVE  SumTo(g, n + 1) = SumTo(f, n) + g[n + 1]
BY SumToStep, SumToSame

(* A sum of naturals is a natural. *)
LEMMA SumToNat ==
  ASSUME NEW f, NEW n \in Nat, \A i \in 1..n : f[i] \in Nat
  PROVE  SumTo(f, n) \in Nat
<1> DEFINE S == {m \in Nat : m <= n => SumTo(f, m) \in Nat}
<1>1. 0 \in S
  BY SumToZero
<1>2. ASSUME NEW m \in Nat, m \in S PROVE m + 1 \in S
  <2>1. SumTo(f, m + 1) = SumTo(f, m) + f[m + 1]
    BY SumToStep
  <2>2. m + 1 <= n => m + 1 \in 1..n /\ m <= n
    OBVIOUS
  <2>3. QED
    BY <1>2, <2>1, <2>2
<1>3. n \in S
  <2> HIDE DEF S
  <2>1. QED
    BY <1>1, <1>2, InductionOnSet
<1>4. QED
  BY <1>3

(* A sum of zeros is zero. *)
LEMMA SumToZeros ==
  ASSUME NEW f, NEW n \in Nat, \A i \in 1..n : f[i] = 0
  PROVE  SumTo(f, n) = 0
<1> DEFINE S == {m \in Nat : m <= n => SumTo(f, m) = 0}
<1>1. 0 \in S
  BY SumToZero
<1>2. ASSUME NEW m \in Nat, m \in S PROVE m + 1 \in S
  <2>1. SumTo(f, m + 1) = SumTo(f, m) + f[m + 1]
    BY SumToStep
  <2>2. m + 1 <= n => m + 1 \in 1..n /\ m <= n
    OBVIOUS
  <2>3. QED
    BY <1>2, <2>1, <2>2
<1>3. n \in S
  <2> HIDE DEF S
  <2>1. QED
    BY <1>1, <1>2, InductionOnSet
<1>4. QED
  BY <1>3
=============================================================================
