------------------------- MODULE CalculationProofs -------------------------
(***************************************************************************)
(* That what the server answers is right, whatever it was built with: for  *)
(* every document the loader accepts, every request and every width of the *)
(* integers.  First the arithmetic of the money crate, sums over finite    *)
(* sets, and that the worksheet of a rate schedule always comes out, with  *)
(* what it consists of; then the lines of a worksheet that came out; then  *)
(* what the loader makes of a table and what the view makes of that, which *)
(* is why a schedule in force is one the constructor accepts; then the     *)
(* invariant of the server, and the theorems.                              *)
(***************************************************************************)
EXTENDS Calculation, FiniteSets, FiniteSetTheorems, WellFoundedInduction, TLAPS

-----------------------------------------------------------------------------
(* Arithmetic                                                              *)

(* Division with a remainder, for a divisor that is no numeral.            *)
LEMMA Division ==
  ASSUME NEW x \in Int, NEW d \in Int, d > 0
  PROVE  /\ x \div d \in Int /\ x % d \in Int
         /\ x = d * (x \div d) + (x % d) /\ 0 <= (x % d) /\ (x % d) < d
  OBVIOUS

(* Multiplication by what is not negative preserves the order.             *)
LEMMA Scaling ==
  ASSUME NEW a \in Int, NEW b \in Int, NEW c \in Int, a <= b, 0 <= c
  PROVE  a * c <= b * c /\ c * a <= c * b
  OBVIOUS

LEMMA Cancelling ==
  ASSUME NEW a \in Int, NEW b \in Int, NEW c \in Int, 0 < c
  PROVE  /\ a * c <= b * c => a <= b
         /\ a * c < b * c => a < b
  OBVIOUS

-----------------------------------------------------------------------------
(* The multiple that RoundRational picks                                   *)

(* It is one of the two around the exact amount, and the upper one only    *)
(* when the amount is above the lower one; rounding down takes the lower,  *)
(* up the upper, and the half rules a nearest one.                         *)
LEMMA MultipleIsNear ==
  ASSUME NEW direction \in RoundingDirections, NEW x \in Int, NEW step \in Int, step > 0,
         NEW m, m = Multiple(direction, x \div step, x % step, step)
  PROVE  /\ m \in Int
         /\ m * step - x < step /\ x - m * step < step
         /\ direction = "down" => m * step <= x
         /\ direction = "up" => x <= m * step
         /\ direction \in {"halfUp", "halfEven", "nearest"} =>
              2 * (m * step - x) <= step /\ 2 * (x - m * step) <= step
<1> DEFINE q == x \div step
           r == x % step
<1>1. /\ q \in Int /\ r \in Int
      /\ x = step * q + r /\ 0 <= r /\ r < step
  BY Division
<1> HIDE DEF q, r
<1>2. m = IF RoundsUp(direction, q, r, step) THEN q + 1 ELSE q
  BY DEF Multiple, q, r
<1>3. /\ RoundsUp(direction, q, r, step) => r > 0 /\ direction # "down"
      /\ direction = "up" => (RoundsUp(direction, q, r, step) <=> r # 0)
      /\ direction \in {"halfUp", "halfEven", "nearest"} =>
           /\ RoundsUp(direction, q, r, step) => 2 * r >= step
           /\ ~RoundsUp(direction, q, r, step) => 2 * r <= step
  BY <1>1 DEF RoundsUp, RoundingDirections
<1>4. m \in Int /\ (q + 1) * step = step * q + step /\ q * step = step * q
  BY <1>1, <1>2
<1>5. CASE RoundsUp(direction, q, r, step)
  <2>1. m * step = step * q + step
    BY <1>2, <1>4, <1>5
  <2>2. m * step \in Int /\ step * q \in Int
    BY <1>1, <1>4
  <2>3. m * step - x = step - r
    BY <2>1, <2>2, <1>1
  <2> QED BY <2>2, <2>3, <1>1, <1>3, <1>4, <1>5
<1>6. CASE ~RoundsUp(direction, q, r, step)
  <2>1. m * step = step * q
    BY <1>2, <1>4, <1>6
  <2>2. m * step \in Int /\ step * q \in Int
    BY <1>1, <1>4
  <2>3. x - m * step = r
    BY <2>1, <2>2, <1>1
  <2> QED BY <2>2, <2>3, <1>1, <1>3, <1>4, <1>6
<1> QED BY <1>5, <1>6

(* What RoundRational returns when it returns an amount.                   *)
LEMMA Rounded ==
  ASSUME NEW rule, rule.increment \in Int, rule.direction \in RoundingDirections,
         NEW x \in Int, NEW d \in Int, d > 0,
         RoundRational(rule, x, d).ok
  PROVE  LET step == d * rule.increment
         IN  /\ rule.increment > 0 /\ step \in Int /\ step > 0
             /\ RoundRational(rule, x, d).value =
                  Multiple(rule.direction, x \div step, x % step, step) * rule.increment
<1> DEFINE step == d * rule.increment
           m == Multiple(rule.direction, x \div step, x % step, step)
<1>2. rule.increment > 0
  BY DEF RoundRational, Err
<1>3. step \in Int /\ step > 0
  BY <1>2
<1> HIDE DEF m
<1>4. RoundRational(rule, x, d).value = m * rule.increment
  BY <1>2 DEF RoundRational, Err, Ok, CheckedWide, m
<1> QED BY <1>2, <1>3, <1>4 DEF m

(* One rounding moves an amount by less than one increment, to a multiple  *)
(* of it; "down" and "up" never cross it, the half rules by half of one.   *)
THEOREM RoundsToANeighbour ==
  ASSUME NEW rule, rule.increment \in Int, rule.direction \in RoundingDirections,
         NEW x \in Int, NEW d \in Int, d > 0,
         RoundRational(rule, x, d).ok
  PROVE  LET rounded == RoundRational(rule, x, d).value
             step == d * rule.increment
         IN  /\ \E k \in Int : rounded = k * rule.increment
             /\ rounded * d - x < step /\ x - rounded * d < step
             /\ rule.direction = "down" => rounded * d <= x
             /\ rule.direction = "up" => x <= rounded * d
             /\ rule.direction \in {"halfUp", "halfEven", "nearest"} =>
                  2 * (rounded * d - x) <= step /\ 2 * (x - rounded * d) <= step
<1> DEFINE step == d * rule.increment
           m == Multiple(rule.direction, x \div step, x % step, step)
           rounded == RoundRational(rule, x, d).value
<1>1. rule.increment \in Int /\ rule.direction \in RoundingDirections
  OBVIOUS
<1>2. step \in Int /\ step > 0 /\ rounded = m * rule.increment
  BY Rounded
<1> HIDE DEF rounded
<1>3. /\ m \in Int
      /\ m * step - x < step /\ x - m * step < step
      /\ rule.direction = "down" => m * step <= x
      /\ rule.direction = "up" => x <= m * step
      /\ rule.direction \in {"halfUp", "halfEven", "nearest"} =>
           2 * (m * step - x) <= step /\ 2 * (x - m * step) <= step
  <2> HIDE DEF step
  <2> QED BY <1>1, <1>2, MultipleIsNear
<1> HIDE DEF m
<1>4. rounded * d = m * step
  BY <1>1, <1>2, <1>3
<1> HIDE DEF step
<1> QED BY <1>1, <1>2, <1>3, <1>4 DEF rounded, step

(* Rounding keeps the order of two amounts.                                *)
THEOREM RoundingIsMonotone ==
  ASSUME NEW rule, rule.increment \in Int, rule.direction \in RoundingDirections,
         NEW a \in Int, NEW b \in Int, NEW d \in Int, d > 0, a <= b,
         RoundRational(rule, a, d).ok, RoundRational(rule, b, d).ok
  PROVE  RoundRational(rule, a, d).value <= RoundRational(rule, b, d).value
<1> DEFINE step == d * rule.increment
           p == a \div step
           q == b \div step
           r == a % step
           s == b % step
           k == Multiple(rule.direction, p, r, step)
           m == Multiple(rule.direction, q, s, step)
<1>1. rule.increment \in Int /\ rule.direction \in RoundingDirections
  OBVIOUS
<1>2. /\ rule.increment > 0 /\ step \in Int /\ step > 0
      /\ RoundRational(rule, a, d).value = k * rule.increment
      /\ RoundRational(rule, b, d).value = m * rule.increment
  BY Rounded
<1> HIDE DEF step
<1>3. /\ p \in Int /\ r \in Int /\ a = step * p + r /\ 0 <= r /\ r < step
      /\ q \in Int /\ s \in Int /\ b = step * q + s /\ 0 <= s /\ s < step
  BY <1>2, Division
<1> HIDE DEF p, q, r, s
<1>4. /\ k \in Int /\ m \in Int /\ p <= k /\ k <= p + 1 /\ q <= m /\ m <= q + 1
  BY <1>3 DEF Multiple
<1>5. k <= m
  <2>1. CASE p < q
    BY <2>1, <1>3, <1>4
  <2>2. CASE p = q
    <3>1. r <= s
      <4>1. step * p = step * q /\ step * p \in Int
        BY <2>2, <1>2, <1>3
      <4> QED BY <4>1, <1>3
    <3>2. RoundsUp(rule.direction, p, r, step) => RoundsUp(rule.direction, q, s, step)
      BY <3>1, <2>2, <1>1, <1>2, <1>3 DEF RoundsUp, RoundingDirections
    <3> QED BY <3>2, <2>2, <1>3 DEF Multiple
  <2>3. CASE q < p
    <3>1. step * (q + 1) <= step * p
      BY <2>3, <1>2, <1>3, Scaling
    <3>2. step * (q + 1) = step * q + step /\ step * q \in Int /\ step * p \in Int
      BY <1>2, <1>3
    <3> QED BY <3>1, <3>2, <1>2, <1>3
  <2> QED BY <2>1, <2>2, <2>3, <1>3
<1> HIDE DEF k, m
<1> QED BY <1>1, <1>2, <1>4, <1>5, Scaling

-----------------------------------------------------------------------------
(* The wide intermediate                                                   *)

LEMMA MaxWideInt == MaxInt \in Int /\ MaxWide \in Int /\ MaxInt * MaxInt <= MaxWide /\ MaxInt <= MaxWide
BY MoneyAssumption DEF MaxWide

(* cents.rs, mul_ratio: "The i128 intermediate itself cannot overflow":    *)
(* for every base and ratio, of either sign, the product and the increase  *)
(* both fit.                                                               *)
THEOREM WideNeverOverflows ==
  ASSUME NEW base \in Int64, NEW num \in Int64, NEW den \in Int64 \ {0},
         NEW basis \in RoundingBases
  PROVE  FitsWide(Exact(basis, base, IF den < 0 THEN -num ELSE num, IF den < 0 THEN -den ELSE den))
<1> DEFINE u == IF den < 0 THEN -num ELSE num
           v == IF den < 0 THEN -den ELSE den
           w == IF basis = "Amount" THEN u ELSE u - v
           E == MaxInt + 1
<1>1. /\ base \in Int /\ -E <= base /\ base <= E
      /\ w \in Int /\ -(2 * E - 1) <= w /\ w <= 2 * E - 1
      /\ E \in Int /\ E > 0
  BY MoneyAssumption DEF Int64, MinInt
<1>2. Exact(basis, base, u, v) = base * w
  BY DEF Exact
<1> HIDE DEF w, u, v
<1>3. /\ base * w <= E * (2 * E - 1)
      /\ -(E * (2 * E - 1)) <= base * w
  <2>1. CASE 0 <= w
    <3>1. base * w <= E * w /\ (-E) * w <= base * w
      BY <2>1, <1>1, Scaling
    <3>2. E * w <= E * (2 * E - 1)
      BY <1>1, Scaling
    <3>3. (-E) * w = -(E * w) /\ E * w \in Int /\ base * w \in Int /\ E * (2 * E - 1) \in Int
      BY <1>1
    <3> QED BY <3>1, <3>2, <3>3
  <2>2. CASE w < 0
    <3>1. base * (-w) <= E * (-w) /\ (-E) * (-w) <= base * (-w)
      BY <2>2, <1>1, Scaling
    <3>2. E * (-w) <= E * (2 * E - 1)
      BY <1>1, Scaling
    <3>3. /\ (-E) * (-w) = -(E * (-w)) /\ base * (-w) = -(base * w)
          /\ E * (-w) \in Int /\ base * w \in Int /\ E * (2 * E - 1) \in Int
      BY <1>1
    <3> QED BY <3>1, <3>2, <3>3
  <2> QED BY <2>1, <2>2, <1>1
<1>4. E * (2 * E - 1) <= MaxWide /\ E * (2 * E - 1) \in Int /\ base * w \in Int /\ MaxWide \in Int
  BY <1>1 DEF MaxWide
<1>5. FitsWide(base * w)
  BY <1>3, <1>4 DEF FitsWide
<1> QED BY <1>2, <1>5 DEF u, v

(* A share of an amount, for a rate from zero to one, is computed without  *)
(* an error and is from zero to the amount.                                *)
LEMMA ShareOfAmount ==
  ASSUME NEW rule, rule = [increment |-> 1, direction |-> "halfEven", basis |-> "Amount"],
         NEW amount \in Int, 0 <= amount, amount <= MaxInt,
         NEW rate, rate.num \in Int, rate.den \in Int, 0 < rate.den, rate.den <= MaxInt,
         0 <= rate.num, rate.num <= rate.den
  PROVE  LET tax == MulRatio(rule, amount, rate)
         IN  tax.ok /\ tax.value \in Int /\ 0 <= tax.value /\ tax.value <= amount
<1> DEFINE d == rate.den
           exact == amount * rate.num
           q == exact \div d
           r == exact % d
           m == Multiple("halfEven", q, r, d)
<1>1. exact \in Int /\ 0 <= exact /\ exact <= amount * d /\ amount * d \in Int
  BY Scaling
<1>2. exact <= MaxWide
  <2>1. amount * d <= MaxInt * MaxInt
    <3>1. amount * d <= MaxInt * d /\ MaxInt * d <= MaxInt * MaxInt
      BY MaxWideInt, Scaling
    <3>2. amount * d \in Int /\ MaxInt * d \in Int /\ MaxInt * MaxInt \in Int
      BY MaxWideInt
    <3> QED BY <3>1, <3>2
  <2> QED BY <2>1, <1>1, MaxWideInt
<1> HIDE DEF exact
<1>3. q \in Int /\ r \in Int /\ exact = d * q + r /\ 0 <= r /\ r < d
  BY <1>1, Division
<1>4. 0 <= q
  <2>1. SUFFICES ASSUME q <= -1 PROVE FALSE
    BY <1>3
  <2>2. d \in Int /\ 0 <= d /\ q + 1 \in Int /\ q + 1 <= 0
    BY <2>1, <1>3
  <2> HIDE DEF d
  <2>3. d * (q + 1) <= d * 0
    BY ONLY <2>2, Scaling
  <2>4. d * (q + 1) = d * q + d /\ d * 0 = 0 /\ d * q \in Int
    BY <1>3, <2>2
  <2> QED BY <2>2, <2>3, <2>4, <1>1, <1>3
<1> HIDE DEF q, r
<1>5. d * q <= amount * d /\ (r > 0 => d * q < amount * d) /\ d * q = q * d /\ q * d \in Int
  BY <1>1, <1>3
<1>6. q <= amount /\ (r > 0 => q < amount)
  BY <1>3, <1>5, Cancelling
<1>7. RoundsUp("halfEven", q, r, d) => r > 0
  BY <1>3 DEF RoundsUp
<1>8. m \in Int /\ 0 <= m /\ m <= amount
  BY <1>3, <1>4, <1>6, <1>7 DEF Multiple
<1> HIDE DEF m
<1>9. RoundRational(rule, exact, d) = Ok(m)
  <2>1. d * 1 = d /\ m * 1 = m /\ FitsWide(d) /\ FitsWide(m)
    BY <1>8, MaxWideInt DEF FitsWide
  <2>2. /\ rule.increment = 1 /\ rule.direction = "halfEven"
        /\ ~TieUnspecified("halfEven", exact)
    BY DEF TieUnspecified
  <2> QED BY <2>1, <2>2 DEF RoundRational, CheckedWide, m, q, r
<1>10. MulRatio(rule, amount, rate) = Checked(m)
  <2>1. FitsWide(exact) /\ FitsWide(m + 0) /\ m + 0 = m /\ ~(d < 0) /\ d # 0
    BY <1>1, <1>2, <1>8, MaxWideInt DEF FitsWide
  <2>2. Exact(rule.basis, amount, rate.num, d) = exact /\ AddedBack(rule.basis, amount) = 0
    BY DEF Exact, AddedBack, exact
  <2> QED BY <2>1, <2>2, <1>9 DEF MulRatio, Ok
<1> QED BY <1>8, <1>10, MaxWideInt DEF Checked, Ok, FitsInt, Int64, MinInt

-----------------------------------------------------------------------------
(* Induction over the naturals                                             *)

(* A nonempty set of naturals has a least element.                         *)
LEMMA LeastElement ==
  ASSUME NEW T \in SUBSET Nat, T # {}
  PROVE  \E size \in T : \A m \in T : size <= m
<1> DEFINE R == OpToRel(<, Nat)
<1>1. IsWellFoundedOn(R, Nat)
  BY NatLessThanWellFounded
<1> HIDE DEF R
<1>2. PICK x \in T : \A y \in T : ~(<<y, x>> \in R)
  BY <1>1, WFMin
<1>3. \A a, b \in Nat : a < b => <<a, b>> \in R
  BY DEF R, OpToRel
<1>4. ASSUME NEW y \in T PROVE x <= y
  <2>1. x \in Nat /\ y \in Nat
    OBVIOUS
  <2>2. ~(y < x)
    BY <1>2, <1>3, <2>1, Zenon
  <2> QED BY <2>1, <2>2
<1> QED BY <1>4

(* Induction over the naturals, for a set of them.                         *)
LEMMA Induction ==
  ASSUME NEW T, 0 \in T, \A size \in Nat : size \in T => size + 1 \in T
  PROVE  \A size \in Nat : size \in T
<1> SUFFICES ASSUME Nat \ T # {} PROVE FALSE
  OBVIOUS
<1>1. PICK size \in Nat \ T : \A m \in Nat \ T : size <= m
  BY LeastElement
<1>2. size # 0 /\ size - 1 \in Nat
  BY <1>1
<1>3. size - 1 \in T
  BY <1>1, <1>2
<1> QED BY <1>1, <1>2, <1>3

-----------------------------------------------------------------------------
(* Sums over finite sets                                                   *)

Picked(s) == CHOOSE x \in s : TRUE
Rest(s) == s \ {Picked(s)}
Adds(f, sums, s) == IF s = {} THEN 0 ELSE f[Picked(s)] + sums[Rest(s)]
Summing(f, sums, D) == sums = [s \in SUBSET D |-> Adds(f, sums, s)]

LEMMA RestIsSmaller ==
  ASSUME NEW s, IsFiniteSet(s), s # {}
  PROVE  /\ Picked(s) \in s /\ Rest(s) \subseteq s /\ IsFiniteSet(Rest(s))
         /\ Cardinality(s) \in Nat /\ Cardinality(Rest(s)) = Cardinality(s) - 1
         /\ Cardinality(Rest(s)) \in Nat
BY FS_RemoveElement, FS_CardinalityType, FS_EmptySet DEF Picked, Rest

(* The recursive function that the fold is defined by exists.              *)
LEMMA SumsExist ==
  ASSUME NEW f, NEW D, IsFiniteSet(D)
  PROVE  \E sums : Summing(f, sums, D)
<1> DEFINE Upto(g, size) == \A s \in SUBSET D : Cardinality(s) <= size => g[s] = Adds(f, g, s)
           T == {size \in Nat : \E g : Upto(g, size)}
<1>1. \A s \in SUBSET D : IsFiniteSet(s) /\ Cardinality(s) \in Nat /\ (Cardinality(s) = 0 <=> s = {})
  BY FS_Subset, FS_CardinalityType, FS_EmptySet
<1>2. 0 \in T
  <2>1. Upto([s \in SUBSET D |-> 0], 0)
    BY <1>1 DEF Adds
  <2> QED BY <2>1
<1>3. ASSUME NEW size \in Nat, size \in T PROVE size + 1 \in T
  <2>1. PICK g : Upto(g, size)
    BY <1>3
  <2> DEFINE h == [s \in SUBSET D |-> IF Cardinality(s) <= size THEN g[s] ELSE Adds(f, g, s)]
  <2>2. ASSUME NEW s \in SUBSET D, Cardinality(s) <= size + 1 PROVE h[s] = Adds(f, h, s)
    <3>1. h[s] = Adds(f, g, s)
      BY <2>1
    <3>2. CASE s = {}
      BY <3>1, <3>2 DEF Adds
    <3>3. CASE s # {}
      <4>1. Rest(s) \in SUBSET D /\ Cardinality(Rest(s)) <= size
        BY <1>1, <2>2, <3>3, RestIsSmaller
      <4>2. h[Rest(s)] = g[Rest(s)]
        BY <4>1
      <4> HIDE DEF h
      <4> QED BY <3>1, <3>3, <4>2 DEF Adds
    <3> QED BY <3>2, <3>3
  <2> HIDE DEF h
  <2>3. Upto(h, size + 1)
    BY <2>2
  <2> QED BY <2>3
<1>4. Cardinality(D) \in T
  <2> HIDE DEF T
  <2> QED BY <1>1, <1>2, <1>3, Induction
<1>5. PICK g : Upto(g, Cardinality(D))
  BY <1>4
<1> DEFINE sums == [s \in SUBSET D |-> g[s]]
<1>6. ASSUME NEW s \in SUBSET D PROVE sums[s] = Adds(f, sums, s)
  <2>1. sums[s] = Adds(f, g, s)
    BY <1>5, FS_Subset
  <2>2. s # {} => Rest(s) \in SUBSET D
    BY DEF Rest
  <2> QED BY <2>1, <2>2 DEF Adds
<1>7. sums = [s \in SUBSET D |-> sums[s]]
  OBVIOUS
<1> HIDE DEF sums
<1>8. sums = [s \in SUBSET D |-> Adds(f, sums, s)]
  BY <1>6, <1>7
<1> QED BY <1>8 DEF Summing

LEMMA SumUnfolds ==
  ASSUME NEW f, NEW D, IsFiniteSet(D)
  PROVE  \E sums : Summing(f, sums, D) /\ SumFunctionOnSet(f, D) = sums[D]
<1> DEFINE chosen == CHOOSE sums : Summing(f, sums, D)
<1>1. Summing(f, chosen, D)
  BY SumsExist
<1>2. SumFunctionOnSet(f, D) = chosen[D]
  BY DEF SumFunctionOnSet, FoldFunctionOnSet, MapThenFoldSet, Summing, Adds, Picked, Rest
<1> HIDE DEF chosen
<1> QED BY <1>1, <1>2

(* Two functions that add up in this way agree where both are defined.     *)
LEMMA SumsAgree ==
  ASSUME NEW f, NEW D, IsFiniteSet(D), NEW E, E \in SUBSET D,
         NEW a, Summing(f, a, D), NEW b, Summing(f, b, E)
  PROVE  \A s \in SUBSET E : a[s] = b[s]
<1> DEFINE T == {size \in Nat : \A s \in SUBSET E : Cardinality(s) = size => a[s] = b[s]}
<1>1. \A s \in SUBSET E : IsFiniteSet(s) /\ Cardinality(s) \in Nat /\ (Cardinality(s) = 0 <=> s = {})
  BY FS_Subset, FS_CardinalityType, FS_EmptySet
<1>2. \A s \in SUBSET E : a[s] = Adds(f, a, s) /\ b[s] = Adds(f, b, s)
  <2>1. \A s \in SUBSET E : s \in SUBSET D
    OBVIOUS
  <2> QED BY <2>1 DEF Summing
<1>3. 0 \in T
  BY <1>1, <1>2 DEF Adds
<1>4. ASSUME NEW size \in Nat, size \in T PROVE size + 1 \in T
  <2> SUFFICES ASSUME NEW s \in SUBSET E, Cardinality(s) = size + 1 PROVE a[s] = b[s]
    OBVIOUS
  <2>1. s # {} /\ Rest(s) \in SUBSET E /\ Cardinality(Rest(s)) = size
    BY <1>1, RestIsSmaller
  <2>2. a[Rest(s)] = b[Rest(s)]
    BY <1>4, <2>1
  <2> QED BY <1>2, <2>1, <2>2 DEF Adds
<1>5. \A size \in Nat : size \in T
  <2> HIDE DEF T
  <2> QED BY <1>3, <1>4, Induction
<1> QED BY <1>1, <1>5

(* The total over a set is that over the rest of it and the one picked.    *)
LEMMA SumByPicking ==
  ASSUME NEW f, NEW D, IsFiniteSet(D)
  PROVE  SumFunctionOnSet(f, D) =
           IF D = {} THEN 0 ELSE f[Picked(D)] + SumFunctionOnSet(f, Rest(D))
<1>1. PICK a : Summing(f, a, D) /\ SumFunctionOnSet(f, D) = a[D]
  BY SumUnfolds
<1>2. a[D] = Adds(f, a, D)
  BY <1>1 DEF Summing
<1>3. CASE D = {}
  BY <1>1, <1>2, <1>3 DEF Adds
<1>4. CASE D # {}
  <2>1. Rest(D) \in SUBSET D /\ IsFiniteSet(Rest(D))
    BY <1>4, RestIsSmaller
  <2>2. PICK b : /\ Summing(f, b, Rest(D))
                 /\ SumFunctionOnSet(f, Rest(D)) = b[Rest(D)]
    BY <2>1, SumUnfolds
  <2>3. a[Rest(D)] = b[Rest(D)]
    BY <1>1, <2>1, <2>2, SumsAgree
  <2> QED BY <1>1, <1>2, <1>4, <2>2, <2>3 DEF Adds
<1> QED BY <1>3, <1>4

(* ... and that over the rest of it and any of its elements.               *)
LEMMA SumByElement ==
  ASSUME NEW f, NEW D, IsFiniteSet(D), \A x \in D : f[x] \in Int
  PROVE  /\ SumFunctionOnSet(f, D) \in Int
         /\ \A x \in D : SumFunctionOnSet(f, D) = f[x] + SumFunctionOnSet(f, D \ {x})
<1> DEFINE total(s) == SumFunctionOnSet(f, s)
           T == {size \in Nat : \A s \in SUBSET D : Cardinality(s) <= size =>
                   total(s) \in Int /\ \A x \in s : total(s) = f[x] + total(s \ {x})}
<1>1. \A s \in SUBSET D : IsFiniteSet(s) /\ Cardinality(s) \in Nat /\ (Cardinality(s) = 0 <=> s = {})
  BY FS_Subset, FS_CardinalityType, FS_EmptySet
<1>2. \A s \in SUBSET D : total(s) = IF s = {} THEN 0 ELSE f[Picked(s)] + total(Rest(s))
  BY <1>1, SumByPicking
<1> HIDE DEF total
<1>3. 0 \in T
  BY <1>1, <1>2
<1>4. ASSUME NEW size \in Nat, size \in T PROVE size + 1 \in T
  <2> SUFFICES ASSUME NEW s \in SUBSET D, Cardinality(s) <= size + 1
               PROVE  total(s) \in Int /\ \A x \in s : total(s) = f[x] + total(s \ {x})
    OBVIOUS
  <2>1. CASE Cardinality(s) <= size
    BY <1>4, <2>1
  <2>2. CASE Cardinality(s) = size + 1
    <3> DEFINE y == Picked(s)
    <3>1. s # {} /\ IsFiniteSet(s) /\ Cardinality(s) \in Nat
      BY <1>1, <2>2
    <3>2. y \in s /\ Rest(s) = s \ {y} /\ Cardinality(Rest(s)) = size
      BY <3>1, <2>2, RestIsSmaller DEF Rest
    <3> HIDE DEF y
    <3>3. /\ total(s) = f[y] + total(s \ {y}) /\ f[y] \in Int /\ total(s \ {y}) \in Int
          /\ \A x \in s \ {y} : total(s \ {y}) = f[x] + total((s \ {y}) \ {x})
      <4>1. total(s) = f[y] + total(s \ {y}) /\ f[y] \in Int
        BY <1>2, <3>1, <3>2 DEF y
      <4>2. s \ {y} \in SUBSET D /\ Cardinality(s \ {y}) <= size
        BY <3>2
      <4> QED BY <1>4, <4>1, <4>2
    <3>4. ASSUME NEW x \in s, x # y PROVE total(s) = f[x] + total(s \ {x})
      <4>1. Cardinality(s \ {x}) = size /\ y \in s \ {x} /\ s \ {x} \in SUBSET D
        BY <2>2, <3>1, <3>2, <3>4, FS_RemoveElement
      <4>2. total(s \ {x}) = f[y] + total((s \ {x}) \ {y})
        BY <1>4, <4>1
      <4>3. (s \ {x}) \ {y} = (s \ {y}) \ {x}
        OBVIOUS
      <4>4. (s \ {x}) \ {y} \in SUBSET D /\ Cardinality((s \ {x}) \ {y}) <= size
        <5>1. IsFiniteSet(s \ {x})
          BY <1>1, <4>1
        <5>2. Cardinality((s \ {x}) \ {y}) = size - 1
          BY <4>1, <5>1, FS_RemoveElement
        <5> QED BY <5>2, <4>1
      <4>5. total((s \ {x}) \ {y}) \in Int
        BY <1>4, <4>4
      <4>6. total(s \ {y}) = f[x] + total((s \ {x}) \ {y}) /\ f[x] \in Int
        BY <3>3, <3>4, <4>3
      <4> QED BY <3>3, <4>2, <4>5, <4>6
    <3> QED BY <3>2, <3>3, <3>4
  <2> QED BY <2>1, <2>2, <1>1
<1>5. \A size \in Nat : size \in T
  <2> HIDE DEF T
  <2> QED BY <1>3, <1>4, Induction
<1>6. Cardinality(D) \in T /\ D \in SUBSET D
  BY <1>1, <1>5
<1> QED BY <1>6 DEF total

(* The total over the first size numbers, by its partial sums.             *)
LEMMA SumOfPrefix ==
  ASSUME NEW size \in Nat, NEW f, \A b \in 1 .. size : f[b] \in Int,
         NEW part, part[0] = 0, \A b \in 1 .. size : part[b] = part[b - 1] + f[b]
  PROVE  SumFunctionOnSet(f, 1 .. size) = part[size] /\ part[size] \in Int
<1> DEFINE T == {k \in Nat : k <= size => SumFunctionOnSet(f, 1 .. k) = part[k] /\ part[k] \in Int}
<1>1. 0 \in T
  <2>1. SumFunctionOnSet(f, {}) = 0
    BY FS_EmptySet, SumByPicking
  <2>2. 1 .. 0 = {}
    OBVIOUS
  <2> QED BY <2>1, <2>2
<1>2. ASSUME NEW k \in Nat, k \in T PROVE k + 1 \in T
  <2> SUFFICES ASSUME k + 1 <= size PROVE SumFunctionOnSet(f, 1 .. k + 1) = part[k + 1] /\ part[k + 1] \in Int
    OBVIOUS
  <2>1. IsFiniteSet(1 .. k + 1) /\ (1 .. k + 1) \ {k + 1} = 1 .. k /\ k + 1 \in 1 .. k + 1
    <3>1. IsFiniteSet(1 .. k + 1)
      BY FS_Interval
    <3>2. (1 .. k + 1) \ {k + 1} = 1 .. k /\ k + 1 \in 1 .. k + 1
      BY ONLY k \in Nat
    <3> QED BY <3>1, <3>2
  <2>2. \A b \in 1 .. k + 1 : f[b] \in Int
    OBVIOUS
  <2>3. SumFunctionOnSet(f, 1 .. k + 1) = f[k + 1] + SumFunctionOnSet(f, 1 .. k)
    BY SMTT(30), <2>1, <2>2, SumByElement
  <2>4. SumFunctionOnSet(f, 1 .. k) = part[k] /\ part[k] \in Int
    BY <1>2
  <2>5. part[k + 1] = part[k] + f[k + 1] /\ f[k + 1] \in Int
    OBVIOUS
  <2> QED BY <2>3, <2>4, <2>5
<1>3. \A k \in Nat : k \in T
  <2> HIDE DEF T
  <2> QED BY <1>1, <1>2, Induction
<1> QED BY <1>3
LEMMA SumNotNegative ==
  ASSUME NEW f, NEW D, IsFiniteSet(D), \A x \in D : f[x] \in Int /\ 0 <= f[x]
  PROVE  SumFunctionOnSet(f, D) \in Int /\ 0 <= SumFunctionOnSet(f, D)
<1> DEFINE total(s) == SumFunctionOnSet(f, s)
           T == {size \in Nat : \A s \in SUBSET D : Cardinality(s) = size => 0 <= total(s)}
<1>1. \A s \in SUBSET D : IsFiniteSet(s) /\ Cardinality(s) \in Nat /\ (Cardinality(s) = 0 <=> s = {})
  BY FS_Subset, FS_CardinalityType, FS_EmptySet
<1>2. 0 \in T
  <2>1. total({}) = 0
    BY FS_EmptySet, SumByPicking
  <2> QED BY SMTT(30), <1>1, <2>1
<1>3. ASSUME NEW size \in Nat, size \in T PROVE size + 1 \in T
  <2> SUFFICES ASSUME NEW s \in SUBSET D, Cardinality(s) = size + 1 PROVE 0 <= total(s)
    OBVIOUS
  <2>1. s # {} /\ IsFiniteSet(s)
    BY <1>1
  <2>2. Rest(s) \in SUBSET D /\ Cardinality(Rest(s)) = size /\ Picked(s) \in D /\ IsFiniteSet(Rest(s))
    BY <2>1, RestIsSmaller
  <2>3. 0 <= total(Rest(s))
    BY <1>3, <2>2
  <2>4. total(s) = f[Picked(s)] + total(Rest(s))
    BY <2>1, SumByPicking
  <2>5. total(Rest(s)) \in Int
    BY <2>2, SumByElement
  <2> HIDE DEF total
  <2> QED BY <2>2, <2>3, <2>4, <2>5
<1>4. \A size \in Nat : size \in T
  <2> HIDE DEF T
  <2> QED BY <1>2, <1>3, Induction
<1>5. 0 <= total(D)
  BY <1>1, <1>4
<1> QED BY <1>5, SumByElement

-----------------------------------------------------------------------------
(* The greatest common divisor                                             *)

Divides(d, x) == \E k \in Int : x = d * k
Divisors(a, b) == {d \in Nat \ {0} : Divides(d, a) /\ Divides(d, b)}
CommonDivisor(a, b) ==
  IF b = 0 THEN a ELSE CHOOSE d \in Divisors(a, b) : \A e \in Divisors(a, b) : e <= d
Euclid(g) == g = [p \in Nat \X Nat |-> IF p[2] = 0 THEN p[1] ELSE g[<<p[2], p[1] % p[2]>>]]

LEMMA DivisorsOfARemainder ==
  ASSUME NEW a \in Nat, NEW b \in Nat \ {0} PROVE Divisors(a, b) = Divisors(b, a % b)
<1> DEFINE q == a \div b
           r == a % b
<1>1. q \in Int /\ r \in Nat /\ a = b * q + r
  BY Division
<1> HIDE DEF q, r
<1>2. ASSUME NEW d \in Nat \ {0}, NEW x \in Int, NEW y \in Int, b = d * x, r = d * y
      PROVE  Divides(d, a)
  <2>1. b * q = d * (x * q) /\ x * q \in Int
    BY <1>1, <1>2
  <2> DEFINE z == x * q
  <2> HIDE DEF z
  <2>2. a = d * z + d * y /\ z \in Int
    BY <1>1, <1>2, <2>1 DEF z
  <2>3. a = d * (z + y) /\ z + y \in Int
    BY <1>2, <2>2
  <2> QED BY <2>3 DEF Divides
<1>3. ASSUME NEW d \in Nat \ {0}, NEW x \in Int, NEW y \in Int, b = d * x, a = d * y
      PROVE  Divides(d, r)
  <2>1. b * q = d * (x * q) /\ x * q \in Int
    BY <1>1, <1>3
  <2> DEFINE z == x * q
  <2> HIDE DEF z
  <2>2. r = d * y - d * z /\ z \in Int
    BY <1>1, <1>3, <2>1 DEF z
  <2>3. r = d * (y - z) /\ y - z \in Int
    BY <1>3, <2>2
  <2> QED BY <2>3 DEF Divides
<1>4. \A d \in Nat \ {0} : Divides(d, b) => (Divides(d, a) <=> Divides(d, r))
  BY <1>2, <1>3 DEF Divides
<1>5. Divisors(a, b) = Divisors(b, r)
  BY <1>4 DEF Divisors
<1> QED BY <1>5 DEF r

LEMMA CommonDivisorStep ==
  ASSUME NEW a \in Nat, NEW b \in Nat \ {0}
  PROVE  a % b \in Nat /\ CommonDivisor(a, b) = CommonDivisor(b, a % b)
<1> DEFINE r == a % b
<1>1. r \in Nat
  BY Division
<1>2. Divisors(a, b) = Divisors(b, r)
  BY DivisorsOfARemainder
<1> HIDE DEF r
<1>3. CASE r # 0
  BY <1>1, <1>2, <1>3 DEF CommonDivisor, r
<1>4. CASE r = 0
  <2>1. b \in Divisors(b, r)
    <3>1. b = b * 1 /\ r = b * 0
      BY <1>4
    <3> QED BY <3>1 DEF Divisors, Divides
  <2>2. \A e \in Divisors(b, r) : e <= b
    <3> SUFFICES ASSUME NEW e \in Nat \ {0}, NEW k \in Int, b = e * k PROVE e <= b
      BY DEF Divisors, Divides
    <3>1. k >= 1
      OBVIOUS
    <3>2. e * 1 <= e * k
      BY <3>1, Scaling
    <3> QED BY <3>2
  <2>3. ASSUME NEW e \in Divisors(b, r), \A f \in Divisors(b, r) : f <= e PROVE e = b
    <3>1. e <= b /\ b <= e /\ e \in Nat
      BY <2>1, <2>2, <2>3 DEF Divisors
    <3> QED BY <3>1
  <2>4. (CHOOSE d \in Divisors(b, r) : \A e \in Divisors(b, r) : e <= d) = b
    BY <2>1, <2>2, <2>3
  <2> QED BY <1>1, <1>2, <1>4, <2>4 DEF CommonDivisor, r
<1> QED BY <1>3, <1>4

(* The recursive function that Gcd is defined by exists.                   *)
LEMMA GcdUnfolds == Euclid(Gcd)
<1> DEFINE g == [p \in Nat \X Nat |-> CommonDivisor(p[1], p[2])]
<1>1. ASSUME NEW p \in Nat \X Nat
      PROVE  g[p] = IF p[2] = 0 THEN p[1] ELSE g[<<p[2], p[1] % p[2]>>]
  <2> DEFINE a == p[1]
             b == p[2]
             q == <<b, a % b>>
  <2>1. a \in Nat /\ b \in Nat /\ g[p] = CommonDivisor(a, b)
    OBVIOUS
  <2>2. CASE b = 0
    BY <2>1, <2>2 DEF CommonDivisor
  <2>3. CASE b # 0
    <3> HIDE DEF a, b
    <3>1. a % b \in Nat /\ CommonDivisor(a, b) = CommonDivisor(b, a % b)
      BY <2>1, <2>3, CommonDivisorStep
    <3>2. q \in Nat \X Nat /\ q[1] = b /\ q[2] = a % b
      BY <2>1, <3>1
    <3> HIDE DEF q
    <3>3. g[q] = CommonDivisor(b, a % b)
      BY <3>2
    <3> QED BY <2>1, <2>3, <3>1, <3>3 DEF a, b, q
  <2> QED BY <2>2, <2>3
<1>2. g = [p \in Nat \X Nat |-> g[p]]
  OBVIOUS
<1> HIDE DEF g
<1>3. g = [p \in Nat \X Nat |-> IF p[2] = 0 THEN p[1] ELSE g[<<p[2], p[1] % p[2]>>]]
  <2> DEFINE h == [p \in Nat \X Nat |-> IF p[2] = 0 THEN p[1] ELSE g[<<p[2], p[1] % p[2]>>]]
  <2>1. \A p \in Nat \X Nat : g[p] = h[p]
    BY <1>1
  <2>2. [p \in Nat \X Nat |-> g[p]] = h
    BY <1>1
  <2> QED BY <1>2, <2>2
<1>4. \E f : Euclid(f)
  BY <1>3 DEF Euclid
<1>5. Euclid(CHOOSE f : Euclid(f))
  BY <1>4
<1>6. Gcd = CHOOSE f : Euclid(f)
  BY DEF Gcd, Euclid
<1> QED BY <1>5, <1>6

LEMMA GcdDivides ==
  ASSUME NEW a \in Nat, NEW b \in Nat
  PROVE  LET g == Gcd[<<a, b>>]
         IN  g \in Nat /\ Divides(g, a) /\ Divides(g, b) /\ (a # 0 \/ b # 0 => g # 0)
<1> DEFINE Good(x, y) == /\ Gcd[<<x, y>>] \in Nat /\ Divides(Gcd[<<x, y>>], x) /\ Divides(Gcd[<<x, y>>], y)
                         /\ (x # 0 \/ y # 0 => Gcd[<<x, y>>] # 0)
           Bad == {y \in Nat : \E x \in Nat : ~Good(x, y)}
<1>1. SUFFICES ASSUME Bad # {} PROVE FALSE
  OBVIOUS
<1>2. PICK y \in Bad : \A z \in Bad : y <= z
  BY <1>1, LeastElement
<1>3. PICK x \in Nat : ~Good(x, y)
  BY <1>2
<1>4. Gcd[<<x, y>>] = IF y = 0 THEN x ELSE Gcd[<<y, x % y>>]
  <2>1. \A i, j \in Nat : Gcd[<<i, j>>] = IF j = 0 THEN i ELSE Gcd[<<j, i % j>>]
    BY GcdUnfolds DEF Euclid
  <2> QED BY <2>1, <1>2
<1>5. CASE y = 0
  <2>1. x = x * 1 /\ y = x * 0
    BY <1>5
  <2>2. Divides(x, x) /\ Divides(x, y)
    BY <2>1 DEF Divides
  <2> QED BY <1>3, <1>4, <1>5, <2>2
<1>6. CASE y # 0
  <2> DEFINE r == x % y
             g == Gcd[<<y, r>>]
  <2>1. r \in Nat /\ r < y /\ y \in Nat
    BY <1>2, <1>6, Division
  <2>2. r \notin Bad
    BY <1>2, <2>1
  <2>3. Good(y, r)
    BY <2>1, <2>2
  <2>4. g \in Nat /\ g # 0 /\ Divides(g, y) /\ Divides(g, r) /\ Gcd[<<x, y>>] = g
    BY <1>4, <1>6, <2>3
  <2>5. Divisors(x, y) = Divisors(y, r)
    BY <1>6, <2>1, DivisorsOfARemainder
  <2> HIDE DEF r, g
  <2>6. g \in Divisors(x, y)
    BY <2>4, <2>5 DEF Divisors
  <2> QED BY <1>3, <2>4, <2>6 DEF Divisors
<1> QED BY <1>5, <1>6
(* Division by a divisor leaves nothing.                                   *)
LEMMA DividesEvenly ==
  ASSUME NEW d \in Int, 0 < d, NEW k \in Int
  PROVE  (d * k) \div d = k /\ (d * k) % d = 0
<1> DEFINE x == d * k
           q == x \div d
           r == x % d
<1>1. x \in Int
  OBVIOUS
<1> HIDE DEF x
<1>2. q \in Int /\ r \in Int /\ x = d * q + r /\ 0 <= r /\ r < d
  BY <1>1, Division
<1> HIDE DEF q, r
<1>3. d * (k - q) = r /\ k - q \in Int
  BY <1>2 DEF x
<1> DEFINE e == k - q
<1>4. e * d = r /\ 0 * d <= e * d /\ e * d < 1 * d /\ e \in Int
  BY <1>2, <1>3
<1> HIDE DEF e
<1>5. 0 <= e /\ e < 1
  BY <1>4, Cancelling
<1>6. e = 0 /\ r = 0
  BY <1>4, <1>5
<1>7. k = q
  BY <1>2, <1>6 DEF e
<1> QED BY <1>6, <1>7 DEF x, q, r

-----------------------------------------------------------------------------
(* The worksheet                                                           *)

Failed(e) == \/ e \in {"NegativeTaxableIncome", "Id"}
             \/ income > MaxInt - CentsPerDollar \div 2

-----------------------------------------------------------------------------
(* The inductive invariant                                                 *)

\* The income below the upper edge of bracket k, and the edge itself
Reached(k) ==
  IF k = 0 THEN 0 ELSE IF k > Len(table.tops) THEN income ELSE Least(income, table.tops[k])
Edge(k) == IF k = 0 THEN 0 ELSE table.tops[k]

IsTrace(trace) == trace \in Seq({trace[i] : i \in DOMAIN trace})
BracketIds(k) == {TI} \cup {AmountId(b) : b \in 1 .. k} \cup {TaxId(b) : b \in 1 .. k}

Phases == pc \in {"idle", "brackets", "done", "failed"}

ScheduleGood ==
  /\ table \in Schedules /\ IsSchedule(table.tops, table.edgeNames, table.rates)
  /\ income \in Int /\ 0 <= income /\ income <= MaxInt
  /\ n \in 0 .. Len(table.rates)

SumsGood ==
  /\ covered \in Int /\ covered = Reached(n)
  /\ sum \in Int /\ 0 <= sum /\ sum <= covered
  /\ n < Len(table.rates) => bottom \in Int /\ 0 <= bottom /\ bottom = Edge(n)

TraceGood == IsTrace(lines) /\ Ids(lines) = BracketIds(n)

Inv ==
  /\ Phases
  /\ pc \in {"brackets", "done"} => ScheduleGood /\ SumsGood
  /\ pc = "brackets" => TraceGood
  /\ pc = "done" => n = Len(table.rates)
  /\ pc = "failed" => Failed(error)

-----------------------------------------------------------------------------
(* The lines                                                               *)

(* A line with a new id, computed from lines that are there, is taken.     *)
LEMMA PushTakes ==
  ASSUME NEW trace, NEW line, IsTrace(trace),
         line.id \notin Ids(trace), InputsOf(line) \subseteq Ids(trace)
  PROVE  LET pushed == Push(trace, line)
         IN  /\ pushed.ok /\ IsTrace(pushed.value)
             /\ Ids(pushed.value) = Ids(trace) \cup {line.id}
<1> DEFINE longer == Append(trace, line)
           S == {trace[i] : i \in DOMAIN trace}
<1>1. Push(trace, line) = [ok |-> TRUE, value |-> longer]
  BY DEF Push, Ok
<1>2. trace \in Seq(S \cup {line}) /\ trace \in Seq(S)
  BY DEF IsTrace
<1>3. /\ DOMAIN trace = 1 .. Len(trace) /\ Len(trace) \in Nat
      /\ DOMAIN longer = 1 .. Len(trace) + 1
      /\ \A i \in 1 .. Len(trace) : longer[i] = trace[i]
      /\ longer[Len(trace) + 1] = line
      /\ longer \in Seq(S \cup {line})
  BY <1>2
<1> HIDE DEF longer
<1>4. \A i \in DOMAIN longer : i \in DOMAIN trace \/ i = Len(trace) + 1
  BY <1>3
<1>5. {longer[i] : i \in DOMAIN longer} = S \cup {line}
  BY <1>3, <1>4
<1>6. Ids(longer) = Ids(trace) \cup {line.id}
  BY <1>3, <1>4 DEF Ids
<1> QED BY <1>1, <1>3, <1>5, <1>6 DEF IsTrace

LEMMA RoundedLine ==
  ASSUME NEW id, NEW value, NEW input, NEW rule
  PROVE  LET line == RoundedBy(Input(Line(id, value), input), rule)
         IN  line.id = id /\ InputsOf(line) = {input}
BY DEF Input, Line, InputsOf, RoundedBy

LEMMA LinesOfABracket ==
  ASSUME NEW t, NEW b, NEW amount, NEW refs, NEW tax
  PROVE  /\ AmountLine(b, amount, refs).id = AmountId(b)
         /\ InputsOf(AmountLine(b, amount, refs)) = {TI}
         /\ TaxLine(t, b, tax).id = TaxId(b)
         /\ InputsOf(TaxLine(t, b, tax)) = {AmountId(b)}
BY DEF Input, Line, InputsOf, RoundedBy, Param, AmountLine, TaxLine

LEMMA SumLine ==
  ASSUME NEW total, NEW k \in Nat
  PROVE  LET line == Inputs(Line(Sum, total), BracketTaxes(k))
         IN  line.id = Sum /\ InputsOf(line) = {TaxId(b) : b \in 1 .. k}
<1> DEFINE taxes == BracketTaxes(k)
           T == {TaxId(b) : b \in 1 .. k}
<1>1. taxes \in Seq(T) /\ Len(taxes) = k /\ DOMAIN taxes = 1 .. k
  BY DEF BracketTaxes
<1>2. \A b \in 1 .. k : taxes[b] = TaxId(b)
  BY DEF BracketTaxes
<1>3. <<>> \o taxes = taxes
  BY <1>1
<1> HIDE DEF taxes
<1>4. Inputs(Line(Sum, total), taxes).inputs = taxes /\ Inputs(Line(Sum, total), taxes).id = Sum
  BY <1>3 DEF Inputs, Line
<1> QED BY <1>1, <1>2, <1>4 DEF InputsOf, taxes

(* Ids of different brackets, and of different kinds, differ.              *)
LEMMA IdsDiffer ==
  ASSUME NEW k \in Nat
  PROVE  /\ AmountId(k + 1) \notin BracketIds(k)
         /\ TaxId(k + 1) \notin BracketIds(k) \cup {AmountId(k + 1)}
         /\ Sum \notin BracketIds(k) /\ Tax \notin BracketIds(k) \cup {Sum}
         /\ BracketIds(k + 1) = BracketIds(k) \cup {AmountId(k + 1), TaxId(k + 1)}
         /\ BracketIds(0) = {TI}
<1>1. 1 .. k + 1 = (1 .. k) \cup {k + 1} /\ k + 1 \notin 1 .. k /\ 1 .. 0 = {}
  OBVIOUS
<1>2. \A b \in 1 .. k : AmountId(b) # AmountId(k + 1) /\ TaxId(b) # TaxId(k + 1)
  BY <1>1 DEF AmountId, TaxId
<1>3. \A b, c : AmountId(b) # TaxId(c) /\ AmountId(b) # TI /\ TaxId(b) # TI
                /\ Sum # AmountId(b) /\ Sum # TaxId(b) /\ Tax # AmountId(b) /\ Tax # TaxId(b)
  BY DEF AmountId, TaxId, TI, Sum, Tax
<1>4. Sum # TI /\ Tax # TI /\ Tax # Sum
  BY DEF TI, Sum, Tax
<1> QED BY <1>1, <1>2, <1>3, <1>4 DEF BracketIds

\* The cell of an edge has a part that is no identifier
UnfitName(t, b) ==
  \/ ~ValidId(OrdinaryBrackets, Lower, TRUE)
  \/ ~ValidId(t.status, Mixed, FALSE)
  \/ ~ValidId(t.edgeNames[b], Mixed, TRUE)

LEMMA CellNamesTheFault ==
  ASSUME NEW t, NEW b
  PROVE  \/ TopRef(t, b).ok
         \/ ~TopRef(t, b).ok /\ TopRef(t, b).error = "Id" /\ ~(b > Len(t.tops)) /\ UnfitName(t, b)
<1> DEFINE cell == Cell(t, t.edgeNames[b])
<1>1. cell.ok \/ (cell.error = "Id" /\ UnfitName(t, b))
  BY DEF Cell, WithKey, WithElement, Err, Ok, UnfitName
<1>2. TopRef(t, b) = IF b > Len(t.tops) THEN Ok(<<>>) ELSE IF cell.ok THEN Ok(<<cell.value>>) ELSE cell
  BY DEF TopRef
<1> HIDE DEF cell
<1> QED BY <1>1, <1>2 DEF Ok

-----------------------------------------------------------------------------
(* The amounts                                                             *)

(* The edges and rates of a schedule, with their types.                    *)
LEMMA TypesOfASchedule ==
  ASSUME NEW t \in Schedules, IsSchedule(t.tops, t.edgeNames, t.rates)
  PROVE  /\ Len(t.tops) \in Nat /\ Len(t.rates) = Len(t.tops) + 1
         /\ \A i \in 1 .. Len(t.tops) : t.tops[i] \in Int /\ t.tops[i] <= MaxInt
         /\ Len(t.tops) > 0 => t.tops[1] >= 0
         /\ \A i \in 1 .. Len(t.tops) - 1 : t.tops[i] < t.tops[i + 1]
         /\ \A i \in 1 .. Len(t.rates) :
              /\ t.rates[i].num \in Int /\ t.rates[i].den \in Int
              /\ t.rates[i].den > 0 /\ t.rates[i].den <= MaxInt
              /\ 0 <= t.rates[i].num /\ t.rates[i].num <= t.rates[i].den
<1> DEFINE Rate == [num : Int64, den : Int64]
<1>1. t.tops \in Seq(Int64) /\ t.rates \in Seq(Rate)
  BY DEF Schedules
<1>2. \A i \in 1 .. Len(t.tops) : t.tops[i] \in Int64
  BY <1>1
<1> HIDE DEF Rate
<1>3. \A i \in 1 .. Len(t.rates) : t.rates[i] \in Rate
  BY <1>1
<1>4. DOMAIN t.rates = 1 .. Len(t.rates) /\ Len(t.tops) \in Nat /\ Len(t.rates) \in Nat
  BY <1>1
<1>5. \A i \in Int64 : i \in Int /\ i <= MaxInt
  BY MaxWideInt DEF Int64, MinInt
<1>6. \A i \in 1 .. Len(t.rates) :
        /\ t.rates[i].num \in Int /\ t.rates[i].den \in Int /\ t.rates[i].den <= MaxInt
  BY <1>3, <1>5 DEF Rate
<1>7. /\ Len(t.rates) = Len(t.tops) + 1
      /\ Len(t.tops) > 0 => t.tops[1] >= 0
      /\ \A i \in 1 .. Len(t.tops) - 1 : t.tops[i] < t.tops[i + 1]
  BY DEF IsSchedule
<1>8. \A i \in 1 .. Len(t.rates) :
        t.rates[i].den > 0 /\ 0 <= t.rates[i].num /\ t.rates[i].num <= t.rates[i].den
  BY <1>4 DEF IsSchedule
<1>9. \A i \in 1 .. Len(t.tops) : t.tops[i] \in Int /\ t.tops[i] <= MaxInt
  BY <1>2, <1>5
<1> QED BY <1>4, <1>6, <1>7, <1>8, <1>9

LEMMA ScheduleTypes ==
  ASSUME ScheduleGood
  PROVE  /\ Len(table.tops) \in Nat /\ Len(table.rates) = Len(table.tops) + 1
         /\ \A i \in 1 .. Len(table.tops) : table.tops[i] \in Int /\ table.tops[i] <= MaxInt
         /\ Len(table.tops) > 0 => table.tops[1] >= 0
         /\ \A i \in 1 .. Len(table.tops) - 1 : table.tops[i] < table.tops[i + 1]
         /\ \A i \in 1 .. Len(table.rates) :
              /\ table.rates[i].num \in Int /\ table.rates[i].den \in Int
              /\ table.rates[i].den > 0 /\ table.rates[i].den <= MaxInt
              /\ 0 <= table.rates[i].num /\ table.rates[i].num <= table.rates[i].den
         /\ n \in Nat /\ n <= Len(table.rates)
<1>1. table \in Schedules /\ IsSchedule(table.tops, table.edgeNames, table.rates) /\ n \in 0 .. Len(table.rates)
  BY DEF ScheduleGood
<1> QED BY <1>1, TypesOfASchedule

(* What falls in bracket n + 1 is what lies between the income reached     *)
(* before it and after it.                                                 *)
LEMMA AmountOfBracket ==
  ASSUME ScheduleGood, SumsGood, n < Len(table.rates)
  PROVE  LET reached == IF n + 1 > Len(table.tops) THEN income ELSE Least(income, table.tops[n + 1])
             above == CheckedSub(reached, bottom)
             amount == Greatest(above.value, 0)
         IN  /\ Above(table, income, n + 1, bottom) = above
             /\ above.ok /\ amount \in Int /\ 0 <= amount /\ amount <= MaxInt
             /\ covered + amount = Reached(n + 1) /\ Reached(n + 1) \in Int
             /\ Reached(n + 1) <= income
             /\ n + 1 < Len(table.rates) =>
                  table.tops[n + 1] \in Int /\ 0 <= table.tops[n + 1]
<1> DEFINE reached == IF n + 1 > Len(table.tops) THEN income ELSE Least(income, table.tops[n + 1])
           above == CheckedSub(reached, bottom)
           amount == Greatest(above.value, 0)
<1>1. /\ Len(table.tops) \in Nat /\ n \in Nat /\ n <= Len(table.tops)
      /\ income \in Int /\ 0 <= income /\ income <= MaxInt /\ MaxInt \in Int
      /\ n > 0 => bottom = table.tops[n]
      /\ n = 0 => bottom = 0 /\ covered = 0
      /\ n > 0 => covered = Least(income, bottom)
      /\ bottom \in Int /\ 0 <= bottom
  BY SMTT(30), ScheduleTypes, MaxWideInt DEF ScheduleGood, SumsGood, Reached, Edge
<1>2. n + 1 <= Len(table.tops) =>
        /\ table.tops[n + 1] \in Int /\ bottom <= table.tops[n + 1] /\ table.tops[n + 1] <= MaxInt
  <2>1. CASE n = 0
    BY <2>1, <1>1, ScheduleTypes
  <2>2. CASE n > 0
    BY <2>2, <1>1, ScheduleTypes
  <2> QED BY <2>1, <2>2, <1>1
<1>3. bottom <= MaxInt
  BY <1>1, ScheduleTypes
<1>4. /\ reached = Reached(n + 1) /\ reached \in Int /\ 0 <= reached /\ reached <= income
  BY <1>1, <1>2 DEF Reached, Least
<1> HIDE DEF reached
<1>5. above = [ok |-> TRUE, value |-> reached - bottom]
  BY <1>1, <1>3, <1>4 DEF CheckedSub, Checked, FitsInt, Int64, MinInt, Ok
<1>6. amount = Greatest(reached - bottom, 0)
  BY <1>5
<1>7. amount \in Int /\ 0 <= amount /\ amount <= MaxInt
  BY <1>1, <1>4, <1>6 DEF Greatest
<1>8. covered + amount = reached
  <2>1. CASE n = 0
    BY <2>1, <1>1, <1>4, <1>6 DEF Greatest
  <2>2. CASE n > 0 /\ income <= bottom
    <3>1. covered = income
      BY <2>2, <1>1 DEF Least
    <3>2. reached = income
      BY <2>2, <1>1, <1>2 DEF reached, Least
    <3> QED BY <2>2, <3>1, <3>2, <1>1, <1>6 DEF Greatest
  <2>3. CASE n > 0 /\ income > bottom
    <3>1. covered = bottom
      BY <2>3, <1>1 DEF Least
    <3>2. bottom <= reached
      BY <2>3, <1>1, <1>2 DEF reached, Least
    <3> QED BY <3>1, <3>2, <1>1, <1>4, <1>6 DEF Greatest
  <2> QED BY <2>1, <2>2, <2>3, <1>1
<1>9. n + 1 < Len(table.rates) => table.tops[n + 1] \in Int /\ 0 <= table.tops[n + 1]
  BY <1>1, <1>2, ScheduleTypes
<1>10. Above(table, income, n + 1, bottom) = above
  BY DEF Above, reached
<1> QED BY <1>4, <1>5, <1>7, <1>8, <1>9, <1>10 DEF reached

-----------------------------------------------------------------------------
(* The steps of the loop                                                   *)

\* What the code computes of bracket b of a schedule, for an income
ReachedIn(t, ti, k) ==
  IF k = 0 THEN 0 ELSE IF k > Len(t.tops) THEN ti ELSE Least(ti, t.tops[k])
BracketAmount(t, ti, b) == ReachedIn(t, ti, b) - ReachedIn(t, ti, b - 1)
BracketTax(t, ti, b) == MulRatio(CentHalfEven, BracketAmount(t, ti, b), t.rates[b]).value

IsLine(line, id, value, inputs) == line.id = id /\ line.value = value /\ line.inputs = inputs

\* The two lines of bracket b
BracketPair(amountLine, taxLine, t, ti, b) ==
  /\ IsLine(amountLine, AmountId(b), BracketAmount(t, ti, b), <<TI>>)
  /\ IsLine(taxLine, TaxId(b), BracketTax(t, ti, b), <<AmountId(b)>>)

(* A round fails for the name of an edge and for nothing else, and when it *)
(* does not fail it restores the invariant for the next bracket.           *)
LEMMA RoundComesOut ==
  ASSUME ScheduleGood, SumsGood, TraceGood, n < Len(table.rates)
  PROVE  LET round == Round(table, income, n + 1, bottom, bottomRef, sum, lines)
         IN  \/ /\ ~round.ok /\ round.error = "Id"
                /\ n + 1 <= Len(table.tops) /\ UnfitName(table, n + 1)
             \/ /\ round.ok
                /\ covered + round.value.amount = Reached(n + 1)
                /\ Reached(n + 1) \in Int /\ round.value.sum \in Int
                /\ 0 <= round.value.sum /\ round.value.sum <= Reached(n + 1)
                /\ IsTrace(round.value.lines) /\ Ids(round.value.lines) = BracketIds(n + 1)
                /\ round.value.sum = sum + BracketTax(table, income, n + 1)
                /\ \E a, x : /\ BracketPair(a, x, table, income, n + 1)
                             /\ round.value.lines = Append(Append(lines, a), x)
                /\ n + 1 < Len(table.rates) =>
                     /\ round.value.bottom = table.tops[n + 1]
                     /\ table.tops[n + 1] \in Int /\ 0 <= table.tops[n + 1]
<1> DEFINE b == n + 1
           topRef == TopRef(table, b)
           above == Above(table, income, b, bottom)
           amount == Greatest(above.value, 0)
           amountLine == AmountLine(b, amount, bottomRef \o topRef.value)
           pushed == Push(lines, amountLine)
           tax == MulRatio(CentHalfEven, amount, table.rates[b])
           taxLine == TaxLine(table, b, tax.value)
           pushedTax == Push(pushed.value, taxLine)
           added == CheckedAdd(sum, tax.value)
           round == Round(table, income, b, bottom, bottomRef, sum, lines)
<1>1. n \in Nat /\ b \in 1 .. Len(table.rates) /\ Len(table.tops) \in Nat /\ Len(table.rates) = Len(table.tops) + 1
  BY ScheduleTypes
<1>2. \/ topRef.ok
      \/ ~topRef.ok /\ topRef.error = "Id" /\ b <= Len(table.tops) /\ UnfitName(table, b)
  BY <1>1, CellNamesTheFault
<1>3. /\ above.ok /\ amount \in Int /\ 0 <= amount /\ amount <= MaxInt
      /\ covered + amount = Reached(b) /\ Reached(b) \in Int /\ Reached(b) <= income
      /\ b < Len(table.rates) => table.tops[b] \in Int /\ 0 <= table.tops[b]
  BY AmountOfBracket
<1> HIDE DEF above, amount, topRef
<1>4. /\ pushed.ok /\ IsTrace(pushed.value)
      /\ Ids(pushed.value) = BracketIds(n) \cup {AmountId(b)}
  <2>1. amountLine.id = AmountId(b) /\ InputsOf(amountLine) = {TI}
    BY LinesOfABracket
  <2>2. AmountId(b) \notin Ids(lines) /\ {TI} \subseteq Ids(lines)
    BY <1>1, IdsDiffer DEF TraceGood, BracketIds
  <2> HIDE DEF amountLine
  <2> QED BY <2>1, <2>2, PushTakes DEF TraceGood
<1>10. pushed.value = Append(lines, amountLine)
  BY <1>4 DEF pushed, Push, Err, Ok
<1>5. tax.ok /\ tax.value \in Int /\ 0 <= tax.value /\ tax.value <= amount
  BY <1>1, <1>3, ScheduleTypes, ShareOfAmount DEF CentHalfEven
<1> HIDE DEF pushed, tax
<1>6. /\ pushedTax.ok /\ IsTrace(pushedTax.value)
      /\ Ids(pushedTax.value) = BracketIds(b)
  <2>1. taxLine.id = TaxId(b) /\ InputsOf(taxLine) = {AmountId(b)}
    BY LinesOfABracket
  <2>2. TaxId(b) \notin Ids(pushed.value) /\ {AmountId(b)} \subseteq Ids(pushed.value)
    BY <1>1, <1>4, IdsDiffer
  <2>3. BracketIds(b) = Ids(pushed.value) \cup {TaxId(b)}
    BY ZenonT(30), <1>1, <1>4, IdsDiffer
  <2> HIDE DEF taxLine
  <2> QED BY <1>4, <2>1, <2>2, <2>3, PushTakes
<1>11. pushedTax.value = Append(pushed.value, taxLine)
  <2> HIDE DEF taxLine
  <2> QED BY <1>6 DEF Push, Err, Ok
<1> HIDE DEF pushedTax
<1>7. /\ added = [ok |-> TRUE, value |-> sum + tax.value]
      /\ sum + tax.value \in Int /\ 0 <= sum + tax.value /\ sum + tax.value <= Reached(b)
  <2>1. /\ sum \in Int /\ 0 <= sum /\ sum <= covered /\ covered \in Int
        /\ income \in Int /\ income <= MaxInt
    BY DEF SumsGood, ScheduleGood
  <2>2. sum + tax.value \in Int /\ 0 <= sum + tax.value /\ sum + tax.value <= Reached(b)
    BY <2>1, <1>3, <1>5
  <2>3. FitsInt(sum + tax.value)
    BY <2>1, <2>2, <1>3, MaxWideInt DEF FitsInt, Int64, MinInt
  <2> QED BY <2>2, <2>3 DEF CheckedAdd, Checked, Ok
<1> HIDE DEF added
<1>8. CASE ~topRef.ok
  <2>1. round = topRef
    BY <1>8 DEF Round, topRef
  <2> HIDE DEF round
  <2>2. ~round.ok /\ round.error = "Id" /\ b <= Len(table.tops) /\ UnfitName(table, b)
    BY <2>1, <1>2, <1>8
  <2> QED BY <2>2 DEF round
<1>9. CASE topRef.ok
  <2>1. round = Ok([sum |-> added.value, lines |-> pushedTax.value, amount |-> amount,
                    bottom |-> IF b > Len(table.tops) THEN bottom ELSE table.tops[b], bottomRef |-> topRef.value])
    <3>1. above.ok /\ pushed.ok /\ tax.ok /\ pushedTax.ok /\ added.ok
      BY <1>3, <1>4, <1>5, <1>6, <1>7
    <3> QED BY <1>9, <3>1 DEF Round, topRef, above, amount, pushed, tax, pushedTax, added
  <2> HIDE DEF round
  <2>2. /\ round.ok /\ round.value.sum = sum + tax.value /\ round.value.lines = pushedTax.value
        /\ round.value.amount = amount
        /\ b < Len(table.rates) => round.value.bottom = table.tops[b]
    BY <2>1, <1>1, <1>7 DEF Ok
  <2>3. /\ covered + round.value.amount = Reached(b) /\ Reached(b) \in Int
        /\ round.value.sum \in Int /\ 0 <= round.value.sum /\ round.value.sum <= Reached(b)
        /\ IsTrace(round.value.lines) /\ Ids(round.value.lines) = BracketIds(b)
    BY <2>2, <1>3, <1>6, <1>7
  <2>4. amount = BracketAmount(table, income, b) /\ tax.value = BracketTax(table, income, b)
    <3>1. covered = ReachedIn(table, income, n) /\ covered \in Int
      BY DEF SumsGood, Reached, ReachedIn
    <3>2. Reached(b) = ReachedIn(table, income, b) /\ b - 1 = n
      BY <1>1 DEF Reached, ReachedIn
    <3>3. amount = BracketAmount(table, income, b)
      BY <1>3, <3>1, <3>2 DEF BracketAmount
    <3> QED BY <3>3 DEF BracketTax, tax
  <2>5. BracketPair(amountLine, taxLine, table, income, b)
    BY <2>4 DEF BracketPair, IsLine, AmountLine, TaxLine, Line, Input, Param, RoundedBy
  <2>6. round.value.sum = sum + BracketTax(table, income, b)
    BY <2>2, <2>4
  <2> HIDE DEF amountLine, taxLine
  <2>7. \E a, x : BracketPair(a, x, table, income, b) /\ round.value.lines = Append(Append(lines, a), x)
    BY <2>2, <2>5, <1>10, <1>11
  <2> QED BY <2>2, <2>3, <2>6, <2>7, <1>3 DEF round
<1> QED BY <1>2, <1>8, <1>9

(* The whole-dollar amount of a tax overflows only within half a dollar of *)
(* the end of the range.                                                   *)
LEMMA WholeDollarFits ==
  ASSUME NEW total \in Int, 0 <= total, total <= MaxInt, ~CheckedRound(WholeDollar, total).ok
  PROVE  total > MaxInt - CentsPerDollar \div 2
<1> DEFINE q == total \div 100
           r == total % 100
           m == Multiple("halfUp", q, r, 100)
<1>1. q \in Int /\ r \in Int /\ total = 100 * q + r /\ 0 <= q /\ 0 <= r /\ r < 100
  OBVIOUS
<1> HIDE DEF q, r
<1>2. m \in Int /\ 0 <= m * 100 /\ m * 100 <= total + 50
  BY <1>1 DEF Multiple, RoundsUp
<1> HIDE DEF m
<1>3. SUFFICES ASSUME total <= MaxInt - 50 PROVE FALSE
  BY MaxWideInt DEF CentsPerDollar
<1>4. FitsWide(1 * 100) /\ FitsWide(m * 100) /\ FitsInt(m * 100)
  <2>1. 50 <= MaxInt /\ m * 100 <= MaxInt
    BY <1>2, <1>3, MaxWideInt
  <2>2. 50 * 50 <= MaxInt * MaxInt
    BY <2>1, MaxWideInt, Scaling
  <2>3. 100 <= MaxWide /\ m * 100 <= MaxWide
    BY <2>1, <2>2, <1>2, MaxWideInt
  <2> QED BY <2>1, <2>3, <1>2, MaxWideInt DEF FitsWide, FitsInt, Int64, MinInt
<1>5. RoundRational(WholeDollar, total, 1) = Ok(m * 100)
  <2>1. /\ WholeDollar.increment = 100 /\ WholeDollar.direction = "halfUp"
        /\ ~TieUnspecified("halfUp", total)
    BY DEF WholeDollar, CentsPerDollar, TieUnspecified
  <2>2. 1 * 100 = 100
    OBVIOUS
  <2> QED BY <2>1, <2>2, <1>4 DEF RoundRational, CheckedWide, m, q, r
<1>6. CheckedRound(WholeDollar, total).ok
  BY <1>4, <1>5 DEF CheckedRound, Checked, Ok
<1> QED BY <1>6

(* The last two lines are taken, and only the rounding may overflow.       *)
LEMMA TotalsComeOut ==
  ASSUME ScheduleGood, SumsGood, TraceGood, ~Totals(sum, n, lines).ok
  PROVE  /\ Failed(Totals(sum, n, lines).error)
         /\ Totals(sum, n, lines).error \in {"Overflow", "UnspecifiedTie", "NonPositiveIncrement"}
<1> DEFINE sumLine == Inputs(Line(Sum, sum), BracketTaxes(n))
           pushed == Push(lines, sumLine)
           rounded == CheckedRound(WholeDollar, sum)
           taxLine == RoundedBy(Input(Line(Tax, rounded.value), Sum), "irs.whole_dollar")
<1>1. n \in Nat
  BY ScheduleTypes
<1>2. pushed.ok /\ IsTrace(pushed.value) /\ Ids(pushed.value) = BracketIds(n) \cup {Sum}
  <2>1. sumLine.id = Sum /\ InputsOf(sumLine) = {TaxId(b) : b \in 1 .. n}
    BY <1>1, SumLine
  <2>2. Sum \notin Ids(lines) /\ {TaxId(b) : b \in 1 .. n} \subseteq Ids(lines)
    BY <1>1, IdsDiffer DEF TraceGood, BracketIds
  <2> HIDE DEF sumLine
  <2> QED BY <2>1, <2>2, PushTakes DEF TraceGood
<1> HIDE DEF pushed
<1>3. Push(pushed.value, taxLine).ok
  <2>1. taxLine.id = Tax /\ InputsOf(taxLine) = {Sum}
    BY RoundedLine
  <2>2. Tax \notin Ids(pushed.value) /\ {Sum} \subseteq Ids(pushed.value)
    BY <1>1, <1>2, IdsDiffer
  <2> HIDE DEF taxLine
  <2> QED BY <1>2, <2>1, <2>2, PushTakes
<1>4. ~rounded.ok /\ Totals(sum, n, lines) = rounded
  <2>1. Totals(sum, n, lines) =
          IF ~pushed.ok THEN pushed
          ELSE IF ~rounded.ok THEN rounded
          ELSE Push(pushed.value, taxLine)
    BY DEF Totals, pushed
  <2> HIDE DEF rounded, taxLine
  <2> QED BY <1>2, <1>3, <2>1
<1>5. /\ sum \in Int /\ 0 <= sum /\ sum <= income /\ income \in Int /\ income <= MaxInt
  <2>1. Reached(n) <= income
    <3>1. income \in Int /\ 0 <= income
      BY DEF ScheduleGood
    <3>2. CASE n = 0
      BY <3>1, <3>2 DEF Reached
    <3>3. CASE n > Len(table.tops)
      BY <3>1, <3>3, <1>1, ScheduleTypes DEF Reached
    <3>4. CASE n > 0 /\ n <= Len(table.tops)
      <4>1. table.tops[n] \in Int
        BY <3>4, <1>1, ScheduleTypes
      <4>2. Reached(n) = Least(income, table.tops[n])
        BY <3>4, <1>1, ScheduleTypes DEF Reached
      <4> QED BY <3>1, <4>1, <4>2 DEF Least
    <3> QED BY <3>2, <3>3, <3>4, <1>1, ScheduleTypes
  <2> QED BY <2>1 DEF SumsGood, ScheduleGood
<1> HIDE DEF rounded
<1>6. sum > MaxInt - CentsPerDollar \div 2
  BY <1>4, <1>5, WholeDollarFits, MaxWideInt DEF rounded
<1>7. rounded.error \in {"Overflow", "UnspecifiedTie", "NonPositiveIncrement"}
  BY <1>4 DEF rounded, CheckedRound, RoundRational, CheckedWide, Checked, Err, Ok
<1> QED BY <1>4, <1>5, <1>6, <1>7, MaxWideInt DEF Failed, CentsPerDollar

-----------------------------------------------------------------------------
(* The invariant holds of every step                                       *)

LEMMA BeginKeeps ==
  ASSUME Inv, AnyBegin PROVE Inv'
<1>1. pc' = "failed" => Failed(error)'
  BY DEF AnyBegin, Begin, Failed
<1>2. CASE income' < 0
  BY <1>1, <1>2 DEF AnyBegin, Begin, Inv, Phases
<1>3. CASE ~(income' < 0)
  <2>1. pc' = "brackets" /\ lines' = <<Line(TI, income')>> /\ n' = 0 /\ covered' = 0 /\ sum' = 0 /\ bottom' = 0
    BY <1>3 DEF AnyBegin, Begin
  <2>2. ScheduleGood'
    <3>1. table' \in Schedules /\ IsSchedule(table'.tops, table'.edgeNames, table'.rates)
      BY DEF AnyBegin
    <3>2. income' \in Int /\ 0 <= income' /\ income' <= MaxInt
      BY <1>3, MaxWideInt DEF AnyBegin, Int64, MinInt
    <3>3. Len(table'.rates) \in Nat
      <4>1. table'.rates \in Seq([num : Int64, den : Int64])
        BY <3>1 DEF Schedules
      <4> QED BY <4>1
    <3>4. n' \in 0 .. Len(table'.rates)
      BY <2>1, <3>3
    <3> QED BY <3>1, <3>2, <3>4 DEF ScheduleGood
  <2>3. SumsGood'
    BY <2>1 DEF SumsGood, Reached, Edge
  <2>4. TraceGood'
    <3> DEFINE line == Line(TI, income')
    <3>1. line.id = TI
      BY DEF Line
    <3> HIDE DEF line
    <3>2. lines' = <<line>> /\ DOMAIN <<line>> = {1} /\ <<line>>[1] = line /\ <<line>> \in Seq({line})
      BY <2>1 DEF line
    <3>3. IsTrace(lines') /\ Ids(lines') = {TI}
      BY <3>1, <3>2 DEF IsTrace, Ids
    <3>4. BracketIds(n') = {TI}
      BY <2>1, IdsDiffer
    <3> QED BY <3>3, <3>4 DEF TraceGood
  <2> QED BY <2>1, <2>2, <2>3, <2>4 DEF Inv, Phases
<1> QED BY <1>2, <1>3

LEMMA BracketKeeps ==
  ASSUME Inv, Bracket PROVE Inv'
<1> DEFINE round == Round(table, income, n + 1, bottom, bottomRef, sum, lines)
<1>1. pc = "brackets" /\ n < Len(table.rates) /\ ScheduleGood /\ SumsGood /\ TraceGood
  BY DEF Inv, Bracket
<1>2. \/ ~round.ok /\ round.error = "Id"
      \/ /\ round.ok
         /\ covered + round.value.amount = Reached(n + 1)
         /\ Reached(n + 1) \in Int /\ round.value.sum \in Int
         /\ 0 <= round.value.sum /\ round.value.sum <= Reached(n + 1)
         /\ IsTrace(round.value.lines) /\ Ids(round.value.lines) = BracketIds(n + 1)
         /\ n + 1 < Len(table.rates) =>
              /\ round.value.bottom = table.tops[n + 1]
              /\ table.tops[n + 1] \in Int /\ 0 <= table.tops[n + 1]
  BY <1>1, RoundComesOut
<1>3. n \in Nat /\ n + 1 \in 0 .. Len(table.rates)
  BY <1>1, ScheduleTypes
<1>4. CASE round.ok
  <2>1. /\ n' = n + 1 /\ sum' = round.value.sum /\ lines' = round.value.lines
        /\ bottom' = round.value.bottom /\ covered' = covered + round.value.amount
        /\ UNCHANGED <<pc, table, income, error>>
    BY <1>4 DEF Bracket
  <2> HIDE DEF round
  <2>2. ScheduleGood'
    BY <1>1, <1>3, <2>1 DEF ScheduleGood
  <2>3. Reached(n)' = Reached(n + 1)
    BY <2>1 DEF Reached
  <2>4. SumsGood'
    BY <1>2, <1>3, <1>4, <2>1, <2>3 DEF SumsGood, Edge
  <2>5. TraceGood'
    BY <1>2, <1>4, <2>1 DEF TraceGood
  <2> QED BY <1>1, <2>1, <2>2, <2>4, <2>5 DEF Inv, Phases
<1>5. CASE ~round.ok
  <2>1. pc' = "failed" /\ error' = round.error
    BY <1>5 DEF Bracket, Fail
  <2>2. error' = "Id"
    <3> HIDE DEF round
    <3> QED BY <1>2, <1>5, <2>1
  <2> QED BY <2>1, <2>2 DEF Inv, Phases, Failed
<1> QED BY <1>4, <1>5

LEMMA TotalKeeps ==
  ASSUME Inv, Total PROVE Inv'
<1> DEFINE totals == Totals(sum, n, lines)
<1>1. pc = "brackets" /\ n = Len(table.rates) /\ ScheduleGood /\ SumsGood /\ TraceGood
  BY DEF Inv, Total
<1>2. CASE totals.ok
  <2>1. pc' = "done" /\ UNCHANGED <<table, income, n, bottom, bottomRef, sum, covered, error>>
    BY <1>2 DEF Total
  <2>2. ScheduleGood' /\ SumsGood'
    BY <1>1, <2>1 DEF ScheduleGood, SumsGood, Reached, Edge
  <2> QED BY <1>1, <2>1, <2>2 DEF Inv, Phases
<1>3. CASE ~totals.ok
  <2>1. pc' = "failed" /\ error' = totals.error /\ income' = income
    BY <1>3 DEF Total, Fail
  <2>2. Failed(totals.error)
    BY <1>1, <1>3, TotalsComeOut
  <2>3. Failed(error)'
    <3> HIDE DEF totals
    <3> QED BY <2>1, <2>2 DEF Failed
  <2> QED BY <2>1, <2>3 DEF Inv, Phases
<1> QED BY <1>2, <1>3

(* At the end every bracket has been filled with what it holds.            *)
LEMMA InvImplies == Inv => WorksheetIsTotal
<1> SUFFICES ASSUME Inv PROVE WorksheetIsTotal
  OBVIOUS
<1>1. ASSUME pc = "done" PROVE covered = income /\ 0 <= sum /\ sum <= income
  <2>1. ScheduleGood /\ SumsGood /\ n = Len(table.rates)
    BY <1>1 DEF Inv
  <2>2. n > Len(table.tops) /\ n # 0
    BY <2>1, ScheduleTypes
  <2> QED BY <2>1, <2>2 DEF SumsGood, Reached
<1> QED BY <1>1 DEF Inv, Failed, WorksheetIsTotal

(* The worksheet always comes out, and accounts for the whole income: the  *)
(* brackets may be any number, of any widths and at any rates.             *)
THEOREM Totality == WorksheetSpec => []WorksheetIsTotal
<1>1. WorksheetInit => Inv
  BY DEF WorksheetInit, Inv, Phases
<1>2. Inv /\ [WorksheetNext]_worksheet => Inv'
  <2> SUFFICES ASSUME Inv, [WorksheetNext]_worksheet PROVE Inv'
    OBVIOUS
  <2>1. CASE AnyBegin
    BY <2>1, BeginKeeps
  <2>2. CASE Bracket
    BY <2>2, BracketKeeps
  <2>3. CASE Total
    BY <2>3, TotalKeeps
  <2>4. CASE Return
    BY <2>4 DEF Return, Inv, Phases
  <2>5. CASE UNCHANGED worksheet
    BY <2>5 DEF worksheet, Inv, Phases, ScheduleGood, SumsGood, TraceGood, Reached, Edge, Failed
  <2> QED BY <2>1, <2>2, <2>3, <2>4, <2>5 DEF WorksheetNext
<1> QED BY <1>1, <1>2, InvImplies, PTL DEF WorksheetSpec

-----------------------------------------------------------------------------
(* What a worksheet that came out consists of                              *)

\* The lines of the first k brackets, each in its place
BracketLines(t, ti, k, trace) ==
  /\ IsTrace(trace)
  /\ IsLine(trace[1], TI, ti, <<>>)
  /\ \A b \in 1 .. k : BracketPair(trace[2 * b], trace[2 * b + 1], t, ti, b)

\* What the taxes of the first k brackets come to
Tallied(t, ti, k, total) ==
  \E part : /\ part[0] = 0 /\ part[k] = total
            /\ \A b \in 1 .. k : part[b] = part[b - 1] + BracketTax(t, ti, b)

GoodSchedule(t, ti) ==
  /\ t \in Schedules /\ IsSchedule(t.tops, t.edgeNames, t.rates)
  /\ ti \in Int /\ 0 <= ti /\ ti <= MaxInt

Complete(t, ti, total, trace) ==
  LET k == Len(t.rates)
      tax == CheckedRound(WholeDollar, total)
  IN  /\ GoodSchedule(t, ti)
      /\ total \in Int /\ 0 <= total /\ total <= ti /\ Tallied(t, ti, k, total)
      /\ BracketLines(t, ti, k, trace) /\ Len(trace) = 2 * k + 3 /\ tax.ok
      /\ IsLine(trace[2 * k + 2], Sum, total, BracketTaxes(k))
      /\ IsLine(trace[2 * k + 3], Tax, tax.value, <<Sum>>)

LoopGood ==
  /\ BracketLines(table, income, n, lines) /\ Len(lines) = 2 * n + 1
  /\ Tallied(table, income, n, sum)

\* What a worksheet that did not come out is blamed on
FaultyName(t) == \E b \in 1 .. Len(t.tops) : UnfitName(t, b)
Blamed ==
  \/ error \in {"NegativeTaxableIncome", "Overflow", "UnspecifiedTie", "NonPositiveIncrement"}
  \/ error = "Id" /\ FaultyName(table)

SheetInv ==
  /\ Inv
  /\ pc = "failed" => Blamed
  /\ pc = "brackets" => LoopGood
  /\ pc = "done" => Complete(table, income, sum, lines)

(* Two lines put at the end of a trace.                                    *)
LEMMA TwoMore ==
  ASSUME NEW trace, IsTrace(trace), NEW a, NEW x
  PROVE  LET longer == Append(Append(trace, a), x)
         IN  /\ Len(trace) \in Nat /\ Len(longer) = Len(trace) + 2 /\ IsTrace(longer)
             /\ \A i \in 1 .. Len(trace) : longer[i] = trace[i]
             /\ longer[Len(trace) + 1] = a /\ longer[Len(trace) + 2] = x
<1> DEFINE S == {trace[i] : i \in DOMAIN trace} \cup {a, x}
           longer == Append(Append(trace, a), x)
<1>1. trace \in Seq(S) /\ a \in S /\ x \in S
  BY DEF IsTrace
<1> HIDE DEF S
<1>2. Append(trace, a) \in Seq(S) /\ Len(Append(trace, a)) = Len(trace) + 1 /\ Len(trace) \in Nat
  BY <1>1
<1>3. longer \in Seq(S) /\ Len(longer) = Len(trace) + 2
  BY <1>1, <1>2
<1>4. /\ \A i \in 1 .. Len(trace) : longer[i] = trace[i]
      /\ longer[Len(trace) + 1] = a /\ longer[Len(trace) + 2] = x
  BY <1>1, <1>2
<1>5. IsTrace(longer)
  <2> HIDE DEF longer
  <2> QED BY <1>3 DEF IsTrace
<1> QED BY <1>2, <1>3, <1>4, <1>5

(* The totals that come out are the tax of all brackets, rounded once.     *)
LEMMA TotalsAppend ==
  ASSUME NEW total, NEW k, NEW trace, Totals(total, k, trace).ok
  PROVE  /\ CheckedRound(WholeDollar, total).ok
         /\ \E a, x : /\ IsLine(a, Sum, total, <<>> \o BracketTaxes(k))
                      /\ IsLine(x, Tax, CheckedRound(WholeDollar, total).value, <<Sum>>)
                      /\ Totals(total, k, trace).value = Append(Append(trace, a), x)
<1> DEFINE sumLine == Inputs(Line(Sum, total), BracketTaxes(k))
           pushed == Push(trace, sumLine)
           rounded == CheckedRound(WholeDollar, total)
           taxLine == RoundedBy(Input(Line(Tax, rounded.value), Sum), "irs.whole_dollar")
<1>1. Totals(total, k, trace) =
        IF ~pushed.ok THEN pushed
        ELSE IF ~rounded.ok THEN rounded
        ELSE Push(pushed.value, taxLine)
  BY DEF Totals
<1>2. IsLine(sumLine, Sum, total, <<>> \o BracketTaxes(k))
  BY DEF IsLine, Inputs, Line
<1>3. IsLine(taxLine, Tax, rounded.value, <<Sum>>)
  BY DEF IsLine, Input, Line, RoundedBy
<1> HIDE DEF sumLine, taxLine, rounded
<1>4. pushed.ok /\ rounded.ok /\ Totals(total, k, trace) = Push(pushed.value, taxLine)
  <2> HIDE DEF pushed
  <2> QED BY <1>1
<1>5. pushed.value = Append(trace, sumLine)
  BY <1>4 DEF Push, Err, Ok
<1>6. Push(pushed.value, taxLine).value = Append(pushed.value, taxLine)
  <2> HIDE DEF pushed
  <2> QED BY <1>4 DEF Push, Err, Ok
<1>7. Totals(total, k, trace).value = Append(Append(trace, sumLine), taxLine)
  <2> HIDE DEF pushed
  <2> QED BY <1>4, <1>5, <1>6
<1> QED BY <1>2, <1>3, <1>4, <1>7 DEF rounded

(* One more bracket.                                                       *)
LEMMA OneMoreBracket ==
  ASSUME NEW t, NEW ti, NEW k \in Nat, NEW trace, NEW a, NEW x,
         BracketLines(t, ti, k, trace), Len(trace) = 2 * k + 1, BracketPair(a, x, t, ti, k + 1)
  PROVE  LET longer == Append(Append(trace, a), x)
         IN  BracketLines(t, ti, k + 1, longer) /\ Len(longer) = 2 * (k + 1) + 1
<1> DEFINE longer == Append(Append(trace, a), x)
<1>4. IsTrace(trace)
  BY DEF BracketLines
<1>5. /\ Len(longer) = Len(trace) + 2 /\ IsTrace(longer)
      /\ \A i \in 1 .. Len(trace) : longer[i] = trace[i]
      /\ longer[Len(trace) + 1] = a /\ longer[Len(trace) + 2] = x
  BY <1>4, TwoMore
<1> HIDE DEF longer
<1>6. 2 * k + 1 \in Nat /\ (2 * k + 1) + 1 = 2 * k + 2 /\ (2 * k + 1) + 2 = 2 * k + 3 /\ 2 * (k + 1) + 1 = 2 * k + 3
  OBVIOUS
<1>1. /\ Len(longer) = 2 * k + 3 /\ IsTrace(longer)
      /\ \A i \in 1 .. 2 * k + 1 : longer[i] = trace[i]
      /\ longer[2 * k + 2] = a /\ longer[2 * k + 3] = x
  BY <1>5, <1>6
<1>2. IsLine(longer[1], TI, ti, <<>>)
  BY <1>1 DEF BracketLines
<1>3. ASSUME NEW b \in 1 .. k + 1 PROVE BracketPair(longer[2 * b], longer[2 * b + 1], t, ti, b)
  <2>1. CASE b \in 1 .. k
    <3>1. 2 * b \in 1 .. 2 * k + 1 /\ 2 * b + 1 \in 1 .. 2 * k + 1
      BY <2>1
    <3> QED BY <3>1, <2>1, <1>1 DEF BracketLines
  <2>2. CASE b = k + 1
    <3>1. 2 * b = 2 * k + 2 /\ 2 * b + 1 = 2 * k + 3
      BY <2>2
    <3> QED BY <3>1, <2>2, <1>1
  <2> QED BY <2>1, <2>2
<1>7. BracketLines(t, ti, k + 1, longer)
  BY <1>1, <1>2, <1>3 DEF BracketLines
<1> QED BY <1>1, <1>6, <1>7 DEF longer

LEMMA OneMoreTax ==
  ASSUME NEW t, NEW ti, NEW k \in Nat, NEW total, Tallied(t, ti, k, total)
  PROVE  Tallied(t, ti, k + 1, total + BracketTax(t, ti, k + 1))
<1>1. PICK part : /\ part[0] = 0 /\ part[k] = total
                  /\ \A b \in 1 .. k : part[b] = part[b - 1] + BracketTax(t, ti, b)
  BY DEF Tallied
<1> DEFINE longer == [b \in 0 .. k + 1 |->
                        IF b = k + 1 THEN total + BracketTax(t, ti, k + 1) ELSE part[b]]
<1>2. longer[0] = 0 /\ longer[k + 1] = total + BracketTax(t, ti, k + 1)
  BY <1>1
<1>3. ASSUME NEW b \in 1 .. k + 1 PROVE longer[b] = longer[b - 1] + BracketTax(t, ti, b)
  <2>1. CASE b \in 1 .. k
    BY <1>1, <2>1
  <2>2. CASE b = k + 1
    BY <1>1, <2>2
  <2> QED BY <2>1, <2>2
<1> HIDE DEF longer
<1> QED BY <1>2, <1>3 DEF Tallied

LEMMA BeginSheet ==
  ASSUME SheetInv, AnyBegin PROVE SheetInv'
<1>1. Inv'
  BY BeginKeeps DEF SheetInv
<1>2. pc' \in {"failed", "brackets"}
  BY DEF AnyBegin, Begin
<1>3. ASSUME pc' = "brackets" PROVE LoopGood'
  <2>1. lines' = <<Line(TI, income')>> /\ n' = 0 /\ sum' = 0
    BY <1>3 DEF AnyBegin, Begin
  <2>2. Len(lines') = 1 /\ IsLine(lines'[1], TI, income', <<>>)
    BY <2>1 DEF IsLine, Line
  <2>3. IsTrace(lines')
    BY <1>1, <1>3 DEF Inv, TraceGood
  <2>4. BracketLines(table', income', 0, lines')
    BY <2>2, <2>3 DEF BracketLines
  <2>5. Tallied(table', income', 0, 0)
    <3> DEFINE part == [b \in {0} |-> 0]
    <3>1. part[0] = 0 /\ \A b \in 1 .. 0 : part[b] = part[b - 1] + BracketTax(table', income', b)
      OBVIOUS
    <3> HIDE DEF part
    <3> QED BY <3>1 DEF Tallied
  <2> QED BY <2>1, <2>2, <2>4, <2>5 DEF LoopGood
<1>4. pc' = "failed" => Blamed'
  BY DEF AnyBegin, Begin, Blamed
<1> QED BY <1>1, <1>2, <1>3, <1>4 DEF SheetInv

LEMMA BracketSheet ==
  ASSUME SheetInv, Bracket PROVE SheetInv'
<1> DEFINE round == Round(table, income, n + 1, bottom, bottomRef, sum, lines)
<1>1. Inv'
  BY BracketKeeps DEF SheetInv
<1>2. pc = "brackets" /\ n < Len(table.rates) /\ ScheduleGood /\ SumsGood /\ TraceGood /\ LoopGood
  BY DEF Inv, SheetInv, Bracket
<1>3. n \in Nat
  BY <1>2, ScheduleTypes
<1>4. CASE round.ok
  <2>1. /\ n' = n + 1 /\ sum' = round.value.sum /\ lines' = round.value.lines
        /\ UNCHANGED <<pc, table, income>>
    BY <1>4 DEF Bracket
  <2>2. /\ round.value.sum = sum + BracketTax(table, income, n + 1)
        /\ \E a, x : /\ BracketPair(a, x, table, income, n + 1)
                     /\ round.value.lines = Append(Append(lines, a), x)
    BY <1>2, <1>4, RoundComesOut
  <2> HIDE DEF round
  <2>3. BracketLines(table, income, n + 1, lines') /\ Len(lines') = 2 * (n + 1) + 1
    <3>1. PICK a, x : BracketPair(a, x, table, income, n + 1) /\ lines' = Append(Append(lines, a), x)
      BY <2>1, <2>2
    <3>2. BracketLines(table, income, n, lines) /\ Len(lines) = 2 * n + 1
      BY <1>2 DEF LoopGood
    <3> QED BY <1>3, <3>1, <3>2, OneMoreBracket
  <2>4. Tallied(table, income, n + 1, sum')
    BY <1>2, <1>3, <2>1, <2>2, OneMoreTax DEF LoopGood
  <2>5. LoopGood'
    BY <2>1, <2>3, <2>4 DEF LoopGood
  <2> QED BY <1>1, <1>2, <2>1, <2>5 DEF SheetInv
<1>5. CASE ~round.ok
  <2>1. pc' = "failed" /\ error' = round.error /\ table' = table
    BY <1>5 DEF Bracket, Fail
  <2>2. /\ ~round.ok /\ round.error = "Id"
        /\ n + 1 <= Len(table.tops) /\ UnfitName(table, n + 1)
    BY <1>2, <1>5, RoundComesOut
  <2> HIDE DEF round
  <2>3. n + 1 \in 1 .. Len(table.tops)
    BY <1>2, <1>3, <2>2, ScheduleTypes
  <2>4. FaultyName(table)'
    BY <2>1, <2>2, <2>3 DEF FaultyName
  <2> QED BY <1>1, <2>1, <2>2, <2>4 DEF SheetInv, Blamed
<1> QED BY <1>4, <1>5

LEMMA TotalSheet ==
  ASSUME SheetInv, Total PROVE SheetInv'
<1> DEFINE totals == Totals(sum, n, lines)
           k == Len(table.rates)
           tax == CheckedRound(WholeDollar, sum)
<1>1. Inv'
  BY TotalKeeps DEF SheetInv
<1>2. pc = "brackets" /\ n = k /\ ScheduleGood /\ SumsGood /\ TraceGood /\ LoopGood
  BY DEF Inv, SheetInv, Total
<1>3. n \in Nat
  BY <1>2, ScheduleTypes
<1>4. CASE totals.ok
  <2>1. pc' = "done" /\ lines' = totals.value /\ UNCHANGED <<table, income, n, sum>>
    BY <1>4 DEF Total
  <2>2. tax.ok /\ \E a, x : /\ IsLine(a, Sum, sum, <<>> \o BracketTaxes(n))
                            /\ IsLine(x, Tax, tax.value, <<Sum>>)
                            /\ totals.value = Append(Append(lines, a), x)
    BY <1>4, TotalsAppend
  <2> HIDE DEF totals, tax
  <2>3. PICK a, x : /\ IsLine(a, Sum, sum, <<>> \o BracketTaxes(n))
                    /\ IsLine(x, Tax, tax.value, <<Sum>>)
                    /\ lines' = Append(Append(lines, a), x)
    BY <2>1, <2>2
  <2>4. <<>> \o BracketTaxes(n) = BracketTaxes(n)
    <3>1. BracketTaxes(n) \in Seq({TaxId(b) : b \in 1 .. n})
      BY <1>3 DEF BracketTaxes
    <3> QED BY <3>1
  <2>5. /\ Len(lines) = 2 * n + 1 /\ IsTrace(lines) /\ 2 * n + 1 \in Nat
        /\ (2 * n + 1) + 1 = 2 * n + 2 /\ (2 * n + 1) + 2 = 2 * n + 3
    BY <1>2, <1>3 DEF LoopGood, BracketLines
  <2>6. /\ Len(lines') = 2 * n + 3 /\ IsTrace(lines')
        /\ \A i \in 1 .. 2 * n + 1 : lines'[i] = lines[i]
        /\ lines'[2 * n + 2] = a /\ lines'[2 * n + 3] = x
    <3>1. /\ Len(lines') = Len(lines) + 2 /\ IsTrace(lines')
          /\ \A i \in 1 .. Len(lines) : lines'[i] = lines[i]
          /\ lines'[Len(lines) + 1] = a /\ lines'[Len(lines) + 2] = x
      BY <2>3, <2>5, TwoMore
    <3> QED BY <3>1, <2>5
  <2>7. BracketLines(table, income, n, lines')
    <3>1. IsLine(lines'[1], TI, income, <<>>)
      BY <1>2, <1>3, <2>6 DEF LoopGood, BracketLines
    <3>2. ASSUME NEW b \in 1 .. n PROVE BracketPair(lines'[2 * b], lines'[2 * b + 1], table, income, b)
      <4>1. 2 * b \in 1 .. 2 * n + 1 /\ 2 * b + 1 \in 1 .. 2 * n + 1
        BY <1>3
      <4> QED BY <4>1, <1>2, <2>6 DEF LoopGood, BracketLines
    <3> QED BY <3>1, <3>2, <2>6 DEF BracketLines
  <2>8. /\ IsLine(lines'[2 * n + 2], Sum, sum, BracketTaxes(n))
        /\ IsLine(lines'[2 * n + 3], Tax, tax.value, <<Sum>>)
    BY <2>3, <2>4, <2>6
  <2>9. /\ GoodSchedule(table, income)
        /\ sum \in Int /\ 0 <= sum /\ sum <= income /\ Tallied(table, income, n, sum)
    <3>1. covered = income
      <4>1. n > Len(table.tops) /\ n # 0
        BY <1>2, ScheduleTypes
      <4> QED BY <4>1, <1>2 DEF SumsGood, Reached
    <3> QED BY <3>1, <1>2 DEF GoodSchedule, ScheduleGood, SumsGood, LoopGood
  <2>10. Complete(table, income, sum, lines')
    BY <1>2, <2>2, <2>6, <2>7, <2>8, <2>9 DEF Complete, tax
  <2> QED BY <1>1, <2>1, <2>10 DEF SheetInv
<1>5. CASE ~totals.ok
  <2>1. pc' = "failed" /\ error' = totals.error
    BY <1>5 DEF Total, Fail
  <2>2. totals.error \in {"Overflow", "UnspecifiedTie", "NonPositiveIncrement"}
    BY <1>2, <1>5, TotalsComeOut
  <2> HIDE DEF totals
  <2> QED BY <1>1, <2>1, <2>2 DEF SheetInv, Blamed
<1> QED BY <1>4, <1>5

LEMMA SheetStart == WorksheetInit => SheetInv
BY DEF WorksheetInit, SheetInv, Inv, Phases

LEMMA SheetKept == SheetInv /\ [WorksheetNext]_worksheet => SheetInv'
<1> SUFFICES ASSUME SheetInv, [WorksheetNext]_worksheet PROVE SheetInv'
  OBVIOUS
<1>1. CASE Return
  BY <1>1 DEF Return, SheetInv, Inv, Phases
<1>2. CASE UNCHANGED worksheet
  BY <1>2 DEF worksheet, SheetInv, Inv, LoopGood, Phases, ScheduleGood, SumsGood, TraceGood,
     Reached, Edge, Failed, Blamed
<1> QED BY <1>1, <1>2, BeginSheet, BracketSheet, TotalSheet DEF WorksheetNext

-----------------------------------------------------------------------------
(* A higher income                                                         *)

LEMMA TopsAreNotNegative ==
  ASSUME NEW t, NEW i, GoodSchedule(t, i), NEW b \in 1 .. Len(t.tops)
  PROVE  0 <= t.tops[b]
<1>1. /\ Len(t.tops) \in Nat
      /\ \A e \in 1 .. Len(t.tops) : t.tops[e] \in Int
      /\ Len(t.tops) > 0 => t.tops[1] >= 0
      /\ \A e \in 1 .. Len(t.tops) - 1 : t.tops[e] < t.tops[e + 1]
  BY TypesOfASchedule DEF GoodSchedule
<1> DEFINE T == {e \in Nat : e + 1 \in 1 .. Len(t.tops) => 0 <= t.tops[e + 1]}
<1>2. 0 \in T
  BY <1>1
<1>3. ASSUME NEW e \in Nat, e \in T PROVE e + 1 \in T
  <2> SUFFICES ASSUME (e + 1) + 1 \in 1 .. Len(t.tops) PROVE 0 <= t.tops[(e + 1) + 1]
    OBVIOUS
  <2>1. e + 1 \in 1 .. Len(t.tops) /\ e + 1 \in 1 .. Len(t.tops) - 1
    BY <1>1
  <2>2. 0 <= t.tops[e + 1] /\ t.tops[e + 1] < t.tops[(e + 1) + 1]
    BY <1>1, <2>1, <1>3
  <2>3. t.tops[e + 1] \in Int /\ t.tops[(e + 1) + 1] \in Int
    BY <1>1, <2>1
  <2> QED BY <2>2, <2>3
<1>4. \A e \in Nat : e \in T
  <2> HIDE DEF T
  <2> QED BY <1>2, <1>3, Induction
<1>5. b - 1 \in Nat /\ (b - 1) + 1 = b
  BY <1>1
<1>6. b - 1 \in T
  BY <1>4, <1>5
<1> QED BY <1>5, <1>6

(* What is in a bracket is not negative, and grows with the income.        *)
LEMMA AmountsGrow ==
  ASSUME NEW t, NEW i, NEW j, GoodSchedule(t, i), GoodSchedule(t, j), i <= j,
         NEW b \in 1 .. Len(t.rates)
  PROVE  /\ BracketAmount(t, i, b) \in Int /\ BracketAmount(t, j, b) \in Int
         /\ 0 <= BracketAmount(t, i, b) /\ BracketAmount(t, i, b) <= BracketAmount(t, j, b)
         /\ BracketAmount(t, j, b) <= MaxInt
         /\ ReachedIn(t, i, b) \in Int /\ ReachedIn(t, i, b - 1) \in Int
<1>1. /\ Len(t.tops) \in Nat /\ Len(t.rates) = Len(t.tops) + 1
      /\ \A e \in 1 .. Len(t.tops) : t.tops[e] \in Int /\ t.tops[e] <= MaxInt
      /\ Len(t.tops) > 0 => t.tops[1] >= 0
      /\ \A e \in 1 .. Len(t.tops) - 1 : t.tops[e] < t.tops[e + 1]
  BY TypesOfASchedule DEF GoodSchedule
<1>2. i \in Int /\ 0 <= i /\ i <= MaxInt /\ j \in Int /\ 0 <= j /\ j <= MaxInt /\ MaxInt \in Int
  BY MaxWideInt DEF GoodSchedule
<1>3. b \in Nat /\ b <= Len(t.tops) + 1
  BY <1>1
<1>4. CASE b = 1
  BY <1>1, <1>2, <1>4 DEF BracketAmount, ReachedIn, Least
<1>5. CASE b > 1 /\ b <= Len(t.tops)
  <2>3. /\ b \in 1 .. Len(t.tops) /\ b - 1 \in 1 .. Len(t.tops)
        /\ b - 1 \in 1 .. Len(t.tops) - 1 /\ (b - 1) + 1 = b
    BY <1>1, <1>3, <1>5
  <2>4. t.tops[b - 1] < t.tops[(b - 1) + 1]
    BY <1>1, <2>3
  <2>1. /\ t.tops[b] \in Int /\ t.tops[b - 1] \in Int
        /\ t.tops[b - 1] < t.tops[b] /\ b - 1 # 0 /\ b # 0
        /\ ~(b > Len(t.tops)) /\ ~(b - 1 > Len(t.tops))
    BY <1>1, <1>3, <1>5, <2>3, <2>4
  <2>2. 0 <= t.tops[b - 1]
    BY <2>3, TopsAreNotNegative
  <2> DEFINE u == t.tops[b]
             w == t.tops[b - 1]
  <2>5. /\ ReachedIn(t, i, b) = Least(i, u) /\ ReachedIn(t, i, b - 1) = Least(i, w)
        /\ ReachedIn(t, j, b) = Least(j, u) /\ ReachedIn(t, j, b - 1) = Least(j, w)
    BY <2>1 DEF ReachedIn
  <2>6. u \in Int /\ w \in Int /\ w < u /\ 0 <= w
    BY <2>1, <2>2
  <2> HIDE DEF u, w
  <2> QED BY <1>2, <2>5, <2>6 DEF BracketAmount, Least
<1>6. CASE b > 1 /\ b = Len(t.tops) + 1
  <2>1. /\ t.tops[b - 1] \in Int /\ b - 1 # 0 /\ b # 0 /\ b > Len(t.tops) /\ ~(b - 1 > Len(t.tops))
    BY <1>1, <1>3, <1>6
  <2> DEFINE w == t.tops[b - 1]
  <2>2. /\ ReachedIn(t, i, b) = i /\ ReachedIn(t, i, b - 1) = Least(i, w)
        /\ ReachedIn(t, j, b) = j /\ ReachedIn(t, j, b - 1) = Least(j, w)
    BY <2>1 DEF ReachedIn
  <2>4. 0 <= w
    BY <1>1, <1>3, <1>6, TopsAreNotNegative
  <2>3. w \in Int
    BY <2>1
  <2> HIDE DEF w
  <2> QED BY <1>2, <2>2, <2>3, <2>4 DEF BracketAmount, Least
<1> QED BY <1>3, <1>4, <1>5, <1>6, <1>1

(* What RoundRational returns is a whole number of cents.                  *)
LEMMA RoundedIsInt ==
  ASSUME NEW rule, rule.increment \in Int, rule.direction \in RoundingDirections,
         NEW a \in Int, NEW d \in Int, d > 0, RoundRational(rule, a, d).ok
  PROVE  RoundRational(rule, a, d).value \in Int
<1>1. PICK k \in Int : RoundRational(rule, a, d).value = k * rule.increment
  BY RoundsToANeighbour
<1> QED BY <1>1

(* The product of an amount and a ratio, rounded as it is.                 *)
LEMMA ProductIs ==
  ASSUME NEW rule, rule.increment \in Int, rule.direction \in RoundingDirections,
         rule.basis = "Amount", NEW base \in Int, NEW rate, rate.num \in Int, rate.den \in Int,
         rate.den > 0, MulRatio(rule, base, rate).ok
  PROVE  /\ RoundRational(rule, base * rate.num, rate.den).ok
         /\ MulRatio(rule, base, rate).value = RoundRational(rule, base * rate.num, rate.den).value
<1> DEFINE rounded == RoundRational(rule, base * rate.num, rate.den)
<1>1. ~(rate.den < 0) /\ rate.den # 0
  OBVIOUS
<1>2. Exact(rule.basis, base, rate.num, rate.den) = base * rate.num /\ AddedBack(rule.basis, base) = 0
  BY DEF Exact, AddedBack
<1>3. MulRatio(rule, base, rate) =
        IF ~FitsWide(base * rate.num) THEN Err("Overflow")
        ELSE IF ~rounded.ok THEN rounded
        ELSE IF ~FitsWide(rounded.value + 0) THEN Err("Overflow")
        ELSE Checked(rounded.value + 0)
  BY <1>1, <1>2 DEF MulRatio
<1> HIDE DEF rounded
<1>4. rounded.ok /\ MulRatio(rule, base, rate) = Checked(rounded.value + 0)
  BY <1>3 DEF Err
<1>5. rounded.value \in Int
  BY <1>4, RoundedIsInt DEF rounded
<1> QED BY <1>4, <1>5 DEF Checked, Ok, Err, rounded

LEMMA TaxesGrow ==
  ASSUME NEW t, NEW i, NEW j, GoodSchedule(t, i), GoodSchedule(t, j), i <= j,
         NEW b \in 1 .. Len(t.rates)
  PROVE  /\ BracketTax(t, i, b) \in Int /\ BracketTax(t, j, b) \in Int
         /\ BracketTax(t, i, b) <= BracketTax(t, j, b)
<1> DEFINE x == BracketAmount(t, i, b)
           y == BracketAmount(t, j, b)
           rate == t.rates[b]
<1>1. /\ rate.num \in Int /\ rate.den \in Int /\ rate.den > 0 /\ rate.den <= MaxInt
      /\ 0 <= rate.num /\ rate.num <= rate.den
  BY TypesOfASchedule DEF GoodSchedule
<1>2. x \in Int /\ y \in Int /\ 0 <= x /\ x <= y /\ y <= MaxInt /\ 0 <= y /\ x <= MaxInt
  BY AmountsGrow, MaxWideInt
<1> HIDE DEF x, y, rate
<1>3. /\ CentHalfEven = [increment |-> 1, direction |-> "halfEven", basis |-> "Amount"]
      /\ CentHalfEven.increment \in Int /\ CentHalfEven.direction \in RoundingDirections
      /\ CentHalfEven.basis = "Amount"
  BY DEF CentHalfEven, RoundingDirections
<1>4. /\ MulRatio(CentHalfEven, x, rate).ok /\ MulRatio(CentHalfEven, x, rate).value \in Int
      /\ MulRatio(CentHalfEven, y, rate).ok /\ MulRatio(CentHalfEven, y, rate).value \in Int
  BY <1>1, <1>2, <1>3, ShareOfAmount
<1>5. x * rate.num \in Int /\ y * rate.num \in Int /\ x * rate.num <= y * rate.num
  BY <1>1, <1>2, Scaling
<1>6. /\ RoundRational(CentHalfEven, x * rate.num, rate.den).ok
      /\ MulRatio(CentHalfEven, x, rate).value = RoundRational(CentHalfEven, x * rate.num, rate.den).value
  BY <1>1, <1>2, <1>3, <1>4, ProductIs
<1>7. /\ RoundRational(CentHalfEven, y * rate.num, rate.den).ok
      /\ MulRatio(CentHalfEven, y, rate).value = RoundRational(CentHalfEven, y * rate.num, rate.den).value
  BY SMTT(30), <1>1, <1>2, <1>3, <1>4, ProductIs
<1>8. RoundRational(CentHalfEven, x * rate.num, rate.den).value
        <= RoundRational(CentHalfEven, y * rate.num, rate.den).value
  BY <1>1, <1>3, <1>5, <1>6, <1>7, RoundingIsMonotone
<1> QED BY <1>4, <1>6, <1>7, <1>8 DEF BracketTax, x, y, rate

LEMMA TotalsGrow ==
  ASSUME NEW t, NEW i, NEW j, GoodSchedule(t, i), GoodSchedule(t, j), i <= j,
         NEW x, Tallied(t, i, Len(t.rates), x), NEW y, Tallied(t, j, Len(t.rates), y)
  PROVE  x <= y
<1> DEFINE k == Len(t.rates)
<1>1. k \in Nat
  BY TypesOfASchedule DEF GoodSchedule
<1>2. PICK p : /\ p[0] = 0 /\ p[k] = x
               /\ \A b \in 1 .. k : p[b] = p[b - 1] + BracketTax(t, i, b)
  BY DEF Tallied
<1>3. PICK q : /\ q[0] = 0 /\ q[k] = y
               /\ \A b \in 1 .. k : q[b] = q[b - 1] + BracketTax(t, j, b)
  BY DEF Tallied
<1> HIDE DEF k
<1> DEFINE T == {b \in Nat : b <= k => p[b] \in Int /\ q[b] \in Int /\ p[b] <= q[b]}
<1>4. 0 \in T
  BY <1>2, <1>3
<1>5. ASSUME NEW b \in Nat, b \in T PROVE b + 1 \in T
  <2> SUFFICES ASSUME b + 1 <= k PROVE p[b + 1] \in Int /\ q[b + 1] \in Int /\ p[b + 1] <= q[b + 1]
    OBVIOUS
  <2>1. p[b] \in Int /\ q[b] \in Int /\ p[b] <= q[b]
    BY <1>1, <1>5
  <2>2. b + 1 \in 1 .. k /\ (b + 1) - 1 = b
    BY <1>1
  <2>3. /\ BracketTax(t, i, b + 1) \in Int /\ BracketTax(t, j, b + 1) \in Int
        /\ BracketTax(t, i, b + 1) <= BracketTax(t, j, b + 1)
    BY <2>2, TaxesGrow DEF k
  <2>4. p[b + 1] = p[b] + BracketTax(t, i, b + 1) /\ q[b + 1] = q[b] + BracketTax(t, j, b + 1)
    BY <1>2, <1>3, <2>2
  <2> QED BY <2>1, <2>3, <2>4
<1>6. \A b \in Nat : b \in T
  <2> HIDE DEF T
  <2> QED BY <1>4, <1>5, Induction
<1> QED BY <1>1, <1>2, <1>3, <1>6

(* A whole-dollar rule rounds to within half a dollar, and keeps an order. *)
LEMMA WholeDollarNear ==
  ASSUME NEW total \in Int, CheckedRound(WholeDollar, total).ok
  PROVE  LET tax == CheckedRound(WholeDollar, total).value
         IN  /\ tax \in Int /\ \E k \in Int : tax = k * CentsPerDollar
             /\ 2 * (tax - total) <= CentsPerDollar /\ 2 * (total - tax) <= CentsPerDollar
             /\ RoundRational(WholeDollar, total, 1).ok
             /\ tax = RoundRational(WholeDollar, total, 1).value
<1> DEFINE rounded == RoundRational(WholeDollar, total, 1)
           tax == CheckedRound(WholeDollar, total).value
<1>1. /\ WholeDollar.increment = 100 /\ WholeDollar.direction = "halfUp"
      /\ WholeDollar.increment \in Int /\ WholeDollar.direction \in RoundingDirections
  BY DEF WholeDollar, CentsPerDollar, RoundingDirections
<1>2. CheckedRound(WholeDollar, total) = IF rounded.ok THEN Checked(rounded.value) ELSE rounded
  BY DEF CheckedRound
<1> HIDE DEF rounded
<1>3. rounded.ok /\ tax = rounded.value
  BY <1>2 DEF Checked, Ok, Err
<1> HIDE DEF tax
<1>4. /\ \E k \in Int : rounded.value = k * WholeDollar.increment
      /\ 2 * (rounded.value * 1 - total) <= 1 * WholeDollar.increment
      /\ 2 * (total - rounded.value * 1) <= 1 * WholeDollar.increment
  BY <1>1, <1>3, RoundsToANeighbour DEF rounded
<1>5. rounded.value \in Int
  BY <1>1, <1>3, RoundedIsInt DEF rounded
<1> QED BY <1>1, <1>3, <1>4, <1>5 DEF CentsPerDollar, rounded, tax

(* A higher income is not taxed less.                                      *)
LEMMA TaxGrows ==
  ASSUME NEW t, NEW i, NEW j, i <= j, NEW x, NEW y, NEW v, NEW w,
         Complete(t, i, x, v), Complete(t, j, y, w)
  PROVE  CheckedRound(WholeDollar, x).value <= CheckedRound(WholeDollar, y).value
<1>1. x \in Int /\ y \in Int /\ CheckedRound(WholeDollar, x).ok /\ CheckedRound(WholeDollar, y).ok
  BY DEF Complete
<1>2. x <= y
  BY TotalsGrow DEF Complete
<1>3. WholeDollar.increment \in Int /\ WholeDollar.direction \in RoundingDirections
  BY DEF WholeDollar, CentsPerDollar, RoundingDirections
<1>4. RoundRational(WholeDollar, x, 1).value <= RoundRational(WholeDollar, y, 1).value
  BY <1>1, <1>2, <1>3, WholeDollarNear, RoundingIsMonotone
<1> QED BY <1>1, <1>4, WholeDollarNear

-----------------------------------------------------------------------------
(* The lines of an answer                                                  *)

(* Every place of a complete trace is one of these.                        *)
LEMMA Places ==
  ASSUME NEW k \in Nat, NEW i \in 1 .. 2 * k + 3
  PROVE  \/ i = 1 \/ i = 2 * k + 2 \/ i = 2 * k + 3
         \/ \E b \in 1 .. k : i = 2 * b \/ i = 2 * b + 1
<1>1. i \in Nat /\ 1 <= i /\ i <= 2 * k + 3
  OBVIOUS
<1> SUFFICES ASSUME i # 1, i # 2 * k + 2, i # 2 * k + 3
             PROVE  \E b \in 1 .. k : i = 2 * b \/ i = 2 * b + 1
  OBVIOUS
<1> DEFINE b == i \div 2
<1>2. b \in Int /\ (i = 2 * b \/ i = 2 * b + 1)
  BY <1>1
<1> HIDE DEF b
<1>3. b \in 1 .. k
  BY <1>1, <1>2
<1> QED BY <1>2, <1>3

LEMMA LinesOf ==
  ASSUME NEW t, NEW ti, NEW total, NEW trace, Complete(t, ti, total, trace)
  PROVE  LET k == Len(t.rates)
         IN  /\ k \in Nat /\ IsTrace(trace) /\ Len(trace) = 2 * k + 3 /\ DOMAIN trace = 1 .. 2 * k + 3
             /\ IsLine(trace[1], TI, ti, <<>>)
             /\ \A b \in 1 .. k :
                  /\ IsLine(trace[2 * b], AmountId(b), BracketAmount(t, ti, b), <<TI>>)
                  /\ IsLine(trace[2 * b + 1], TaxId(b), BracketTax(t, ti, b), <<AmountId(b)>>)
             /\ IsLine(trace[2 * k + 2], Sum, total, BracketTaxes(k))
             /\ IsLine(trace[2 * k + 3], Tax, CheckedRound(WholeDollar, total).value, <<Sum>>)
<1>1. Len(t.rates) \in Nat
  BY TypesOfASchedule DEF Complete, GoodSchedule
<1>2. IsTrace(trace) /\ Len(trace) = 2 * Len(t.rates) + 3
  BY DEF Complete, BracketLines
<1>3. DOMAIN trace = 1 .. Len(trace)
  BY <1>2 DEF IsTrace
<1> QED BY <1>1, <1>2, <1>3 DEF Complete, BracketLines, BracketPair

(* The id of each line says its place.                                     *)
LEMMA IdsByPlace ==
  ASSUME NEW t, NEW ti, NEW total, NEW trace, Complete(t, ti, total, trace)
  PROVE  LET k == Len(t.rates)
         IN  \A i \in 1 .. 2 * k + 3 :
               \/ i = 1 /\ trace[i].id = <<"ti", 0>>
               \/ i = 2 * k + 2 /\ trace[i].id = <<"sum", 0>>
               \/ i = 2 * k + 3 /\ trace[i].id = <<"total", 0>>
               \/ \E b \in 1 .. k : i = 2 * b /\ trace[i].id = <<"amount", b>>
               \/ \E b \in 1 .. k : i = 2 * b + 1 /\ trace[i].id = <<"tax", b>>
<1> DEFINE k == Len(t.rates)
<1>1. /\ k \in Nat
      /\ trace[1].id = <<"ti", 0>>
      /\ \A b \in 1 .. k : trace[2 * b].id = <<"amount", b>> /\ trace[2 * b + 1].id = <<"tax", b>>
      /\ trace[2 * k + 2].id = <<"sum", 0>> /\ trace[2 * k + 3].id = <<"total", 0>>
  <2>1. /\ k \in Nat /\ IsLine(trace[1], TI, ti, <<>>)
        /\ \A b \in 1 .. k :
             /\ IsLine(trace[2 * b], AmountId(b), BracketAmount(t, ti, b), <<TI>>)
             /\ IsLine(trace[2 * b + 1], TaxId(b), BracketTax(t, ti, b), <<AmountId(b)>>)
        /\ IsLine(trace[2 * k + 2], Sum, total, BracketTaxes(k))
        /\ IsLine(trace[2 * k + 3], Tax, CheckedRound(WholeDollar, total).value, <<Sum>>)
    BY LinesOf
  <2> HIDE DEF k
  <2> QED BY <2>1 DEF IsLine, TI, AmountId, TaxId, Sum, Tax
<1> HIDE DEF k
<1> SUFFICES ASSUME NEW i \in 1 .. 2 * k + 3
             PROVE  \/ i = 1 /\ trace[i].id = <<"ti", 0>>
                    \/ i = 2 * k + 2 /\ trace[i].id = <<"sum", 0>>
                    \/ i = 2 * k + 3 /\ trace[i].id = <<"total", 0>>
                    \/ \E b \in 1 .. k : i = 2 * b /\ trace[i].id = <<"amount", b>>
                    \/ \E b \in 1 .. k : i = 2 * b + 1 /\ trace[i].id = <<"tax", b>>
  BY DEF k
<1>2. \/ i = 1 \/ i = 2 * k + 2 \/ i = 2 * k + 3
      \/ \E b \in 1 .. k : i = 2 * b \/ i = 2 * b + 1
  BY <1>1, Places
<1> QED BY <1>1, <1>2

LEMMA PlacesDiffer ==
  ASSUME NEW t, NEW ti, NEW total, NEW trace, Complete(t, ti, total, trace)
  PROVE  \A i, j \in DOMAIN trace : trace[i].id = trace[j].id => i = j
<1> DEFINE k == Len(t.rates)
<1>1. k \in Nat /\ DOMAIN trace = 1 .. 2 * k + 3
  BY LinesOf
<1>2. \A i \in 1 .. 2 * k + 3 :
        \/ i = 1 /\ trace[i].id = <<"ti", 0>>
        \/ i = 2 * k + 2 /\ trace[i].id = <<"sum", 0>>
        \/ i = 2 * k + 3 /\ trace[i].id = <<"total", 0>>
        \/ \E b \in 1 .. k : i = 2 * b /\ trace[i].id = <<"amount", b>>
        \/ \E b \in 1 .. k : i = 2 * b + 1 /\ trace[i].id = <<"tax", b>>
  BY IdsByPlace
<1> HIDE DEF k
<1>3. \A i \in 1 .. 2 * k + 3 :
        \/ i = 1 /\ trace[i].id[1] = "ti"
        \/ i = 2 * k + 2 /\ trace[i].id[1] = "sum"
        \/ i = 2 * k + 3 /\ trace[i].id[1] = "total"
        \/ trace[i].id[1] = "amount" /\ i = 2 * trace[i].id[2]
        \/ trace[i].id[1] = "tax" /\ i = 2 * trace[i].id[2] + 1
  BY <1>2
<1>4. ASSUME NEW i \in 1 .. 2 * k + 3, NEW j \in 1 .. 2 * k + 3, trace[i].id = trace[j].id
      PROVE  i = j
  <2> DEFINE what == trace[i].id[1]
             b == trace[i].id[2]
  <2>1. \/ i = 1 /\ what = "ti"
        \/ i = 2 * k + 2 /\ what = "sum"
        \/ i = 2 * k + 3 /\ what = "total"
        \/ what = "amount" /\ i = 2 * b
        \/ what = "tax" /\ i = 2 * b + 1
    BY <1>3
  <2>2. \/ j = 1 /\ what = "ti"
        \/ j = 2 * k + 2 /\ what = "sum"
        \/ j = 2 * k + 3 /\ what = "total"
        \/ what = "amount" /\ j = 2 * b
        \/ what = "tax" /\ j = 2 * b + 1
    BY <1>3, <1>4
  <2> HIDE DEF what, b
  <2> QED BY <2>1, <2>2
<1> QED BY <1>1, <1>4

LEMMA PlaceOfAnId ==
  ASSUME NEW t, NEW ti, NEW total, NEW trace, Complete(t, ti, total, trace)
  PROVE  \A i \in DOMAIN trace : /\ trace[i].id \in Ids(trace)
                                 /\ IndexOf(trace, trace[i].id) = i
                                 /\ ValueOf(trace, trace[i].id) = Ok(trace[i].value)
<1> SUFFICES ASSUME NEW i \in DOMAIN trace
             PROVE  /\ trace[i].id \in Ids(trace) /\ IndexOf(trace, trace[i].id) = i
  BY DEF ValueOf
<1> QED BY PlacesDiffer DEF Ids, IndexOf

-----------------------------------------------------------------------------
(* The sums                                                                *)

LEMMA ValuesByBracket ==
  ASSUME NEW t, NEW ti, NEW total, NEW trace, Complete(t, ti, total, trace)
  PROVE  LET k == Len(t.rates)
         IN  /\ ValuesOf(trace, "amount") = [b \in 1 .. k |-> BracketAmount(t, ti, b)]
             /\ ValuesOf(trace, "tax") = [b \in 1 .. k |-> BracketTax(t, ti, b)]
             /\ ValueOf(trace, Sum) = Ok(total)
             /\ ValueOf(trace, Tax) = Ok(CheckedRound(WholeDollar, total).value)
<1> DEFINE k == Len(t.rates)
<1>1. k \in Nat /\ DOMAIN trace = 1 .. 2 * k + 3
  BY LinesOf
<1>2. \A b \in 1 .. k : 2 * b \in DOMAIN trace /\ 2 * b + 1 \in DOMAIN trace
  BY <1>1
<1>3. 2 * k + 2 \in DOMAIN trace /\ 2 * k + 3 \in DOMAIN trace
  BY <1>1
<1>4. \A b \in 1 .. k :
        /\ trace[2 * b].id = <<"amount", b>> /\ trace[2 * b].value = BracketAmount(t, ti, b)
        /\ trace[2 * b + 1].id = <<"tax", b>> /\ trace[2 * b + 1].value = BracketTax(t, ti, b)
  BY LinesOf DEF IsLine, AmountId, TaxId
<1>5. ValueOf(trace, Sum) = Ok(total) /\ ValueOf(trace, Tax) = Ok(CheckedRound(WholeDollar, total).value)
  <2>1. /\ trace[2 * k + 2].id = Sum /\ trace[2 * k + 2].value = total
        /\ trace[2 * k + 3].id = Tax /\ trace[2 * k + 3].value = CheckedRound(WholeDollar, total).value
    BY LinesOf DEF IsLine
  <2> QED BY <2>1, <1>3, PlaceOfAnId
<1>6. \A b \in 1 .. k :
        /\ <<"amount", b>> \in Ids(trace) /\ <<"tax", b>> \in Ids(trace)
        /\ ValueOf(trace, <<"amount", b>>) = Ok(BracketAmount(t, ti, b))
        /\ ValueOf(trace, <<"tax", b>>) = Ok(BracketTax(t, ti, b))
  <2>1. \A i \in DOMAIN trace : /\ trace[i].id \in Ids(trace)
                                /\ ValueOf(trace, trace[i].id) = Ok(trace[i].value)
    BY PlaceOfAnId
  <2> QED BY <1>2, <1>4, <2>1
<1>7. ASSUME NEW id \in Ids(trace)
      PROVE  \/ id = <<"ti", 0>> \/ id = <<"sum", 0>> \/ id = <<"total", 0>>
             \/ \E b \in 1 .. k : id = <<"amount", b>>
             \/ \E b \in 1 .. k : id = <<"tax", b>>
  <2>1. PICK i \in 1 .. 2 * k + 3 : id = trace[i].id
    BY <1>1 DEF Ids
  <2> QED BY <2>1, IdsByPlace
<1> HIDE DEF k
<1>13. \A b \in 1 .. k : /\ <<"amount", b>>[1] = "amount" /\ <<"amount", b>>[2] = b
                         /\ <<"tax", b>>[1] = "tax" /\ <<"tax", b>>[2] = b
  OBVIOUS
<1>14. \A id \in Ids(trace) :
         /\ id[1] = "amount" => id[2] \in 1 .. k /\ id = <<"amount", id[2]>>
         /\ id[1] = "tax" => id[2] \in 1 .. k /\ id = <<"tax", id[2]>>
  BY <1>7
<1>8. {i[2] : i \in {j \in Ids(trace) : j[1] = "amount"}} = 1 .. k
  <2> DEFINE S == {j \in Ids(trace) : j[1] = "amount"}
  <2>1. \A i \in S : i[2] \in 1 .. k
    BY <1>14
  <2>2. \A b \in 1 .. k : <<"amount", b>> \in S /\ <<"amount", b>>[2] = b
    BY <1>6, <1>13
  <2> HIDE DEF S
  <2>3. \A b \in 1 .. k : \E i \in S : i[2] = b
    BY <2>2
  <2>4. {i[2] : i \in S} = 1 .. k
    BY <2>1, <2>3
  <2> QED BY <2>4 DEF S
<1>9. {i[2] : i \in {j \in Ids(trace) : j[1] = "tax"}} = 1 .. k
  <2> DEFINE S == {j \in Ids(trace) : j[1] = "tax"}
  <2>1. \A i \in S : i[2] \in 1 .. k
    BY <1>14
  <2>2. \A b \in 1 .. k : <<"tax", b>> \in S /\ <<"tax", b>>[2] = b
    BY <1>6, <1>13
  <2> HIDE DEF S
  <2>3. \A b \in 1 .. k : \E i \in S : i[2] = b
    BY <2>2
  <2>4. {i[2] : i \in S} = 1 .. k
    BY <2>1, <2>3
  <2> QED BY <2>4 DEF S
<1>10. \A x : Ok(x).value = x
  BY DEF Ok
<1>11. ValuesOf(trace, "amount") = [b \in 1 .. k |-> BracketAmount(t, ti, b)]
  BY <1>6, <1>8, <1>10 DEF ValuesOf
<1>12. ValuesOf(trace, "tax") = [b \in 1 .. k |-> BracketTax(t, ti, b)]
  BY <1>6, <1>9, <1>10 DEF ValuesOf
<1> QED BY <1>5, <1>11, <1>12 DEF k

LEMMA AddsUp ==
  ASSUME NEW t, NEW ti, NEW total, NEW trace, Complete(t, ti, total, trace)
  PROVE  LET tax == CheckedRound(WholeDollar, total).value
         IN  /\ SumFunction(ValuesOf(trace, "amount")) = ti
             /\ SumFunction(ValuesOf(trace, "tax")) = total
             /\ tax % CentsPerDollar = 0 /\ Magnitude(tax - total) * 2 <= CentsPerDollar
<1> DEFINE k == Len(t.rates)
           tax == CheckedRound(WholeDollar, total).value
           amounts == [b \in 1 .. k |-> BracketAmount(t, ti, b)]
           taxes == [b \in 1 .. k |-> BracketTax(t, ti, b)]
           reached == [b \in 0 .. k |-> ReachedIn(t, ti, b)]
<1>1. GoodSchedule(t, ti) /\ total \in Int /\ Tallied(t, ti, k, total) /\ CheckedRound(WholeDollar, total).ok
  BY DEF Complete
<1>2. k \in Nat /\ k = Len(t.tops) + 1 /\ Len(t.tops) \in Nat /\ ti \in Int
  BY <1>1, TypesOfASchedule DEF GoodSchedule
<1>3. \A b \in 1 .. k : /\ BracketAmount(t, ti, b) \in Int /\ BracketTax(t, ti, b) \in Int
                        /\ ReachedIn(t, ti, b) \in Int /\ ReachedIn(t, ti, b - 1) \in Int
  <2> SUFFICES ASSUME NEW b \in 1 .. Len(t.rates)
               PROVE  /\ BracketAmount(t, ti, b) \in Int /\ BracketTax(t, ti, b) \in Int
                      /\ ReachedIn(t, ti, b) \in Int /\ ReachedIn(t, ti, b - 1) \in Int
    OBVIOUS
  <2>1. ti <= ti
    BY <1>2
  <2>2. BracketAmount(t, ti, b) \in Int /\ ReachedIn(t, ti, b) \in Int /\ ReachedIn(t, ti, b - 1) \in Int
    BY <1>1, <2>1, AmountsGrow
  <2>3. BracketTax(t, ti, b) \in Int
    BY <1>1, <2>1, TaxesGrow
  <2> QED BY <2>2, <2>3
<1>4. SumFunction(amounts) = ti
  <2>1. reached[0] = 0 /\ reached[k] = ti
    BY <1>2 DEF ReachedIn
  <2>2. \A b \in 1 .. k : reached[b] = reached[b - 1] + amounts[b]
    BY <1>2, <1>3 DEF BracketAmount
  <2>3. \A b \in 1 .. k : amounts[b] \in Int
    BY <1>3
  <2>4. DOMAIN amounts = 1 .. k
    OBVIOUS
  <2> HIDE DEF amounts, reached, k
  <2>5. SumFunctionOnSet(amounts, 1 .. k) = reached[k]
    BY <1>2, <2>1, <2>2, <2>3, SumOfPrefix
  <2> QED BY <2>1, <2>4, <2>5 DEF SumFunction
<1>5. SumFunction(taxes) = total
  <2>1. PICK part : /\ part[0] = 0 /\ part[k] = total
                    /\ \A b \in 1 .. k : part[b] = part[b - 1] + BracketTax(t, ti, b)
    BY <1>1 DEF Tallied
  <2>2. \A b \in 1 .. k : part[b] = part[b - 1] + taxes[b]
    BY <2>1
  <2>3. \A b \in 1 .. k : taxes[b] \in Int
    BY <1>3
  <2>4. DOMAIN taxes = 1 .. k
    OBVIOUS
  <2> HIDE DEF taxes, k
  <2>5. SumFunctionOnSet(taxes, 1 .. k) = part[k]
    BY SMTT(30), <1>2, <2>1, <2>2, <2>3, SumOfPrefix
  <2> QED BY <2>1, <2>4, <2>5 DEF SumFunction
<1>6. /\ tax \in Int /\ \E h \in Int : tax = h * CentsPerDollar
      /\ 2 * (tax - total) <= CentsPerDollar /\ 2 * (total - tax) <= CentsPerDollar
  BY <1>1, WholeDollarNear
<1> HIDE DEF tax
<1>7. tax % CentsPerDollar = 0 /\ Magnitude(tax - total) * 2 <= CentsPerDollar
  BY <1>1, <1>6 DEF CentsPerDollar, Magnitude
<1>8. ValuesOf(trace, "amount") = amounts /\ ValuesOf(trace, "tax") = taxes
  BY ValuesByBracket
<1> HIDE DEF amounts, taxes
<1> QED BY <1>4, <1>5, <1>7, <1>8 DEF tax

-----------------------------------------------------------------------------
(* The audit trail                                                         *)

\* Where each line of a complete trace comes from
Origins(k) ==
  [i \in 1 .. 2 * k + 3 |->
     IF i = 1 THEN {1}
     ELSE IF i = 2 * k + 2 THEN 1 .. 2 * k + 2
     ELSE IF i = 2 * k + 3 THEN 1 .. 2 * k + 3
     ELSE IF i % 2 = 0 THEN {1, i} ELSE {1, i - 1, i}]

\* A line and what its inputs come from, and the equation that TrailOf is defined by
Onward(trace, from, i) == {i} \cup UNION {from[IndexOf(trace, j)] : j \in InputsOf(trace[i])}
FollowsInputs(trace, from) == from = [i \in DOMAIN trace |-> Onward(trace, from, i)]

TaxLineIds(trace, k) == {trace[2 * b + 1].id : b \in 1 .. k}
BehindTheTaxes(from, k) == UNION {from[2 * b + 1] : b \in 1 .. k}

InputsByPlace(trace, k) ==
  /\ InputsOf(trace[1]) = {}
  /\ \A b \in 1 .. k : /\ InputsOf(trace[2 * b]) = {trace[1].id}
                       /\ InputsOf(trace[2 * b + 1]) = {trace[2 * b].id}
  /\ InputsOf(trace[2 * k + 2]) = TaxLineIds(trace, k)
  /\ InputsOf(trace[2 * k + 3]) = {trace[2 * k + 2].id}

OnwardByPlace(trace, from, k) ==
  /\ Onward(trace, from, 1) = {1}
  /\ \A b \in 1 .. k : /\ Onward(trace, from, 2 * b) = {2 * b} \cup from[1]
                       /\ Onward(trace, from, 2 * b + 1) = {2 * b + 1} \cup from[2 * b]
  /\ Onward(trace, from, 2 * k + 2) = {2 * k + 2} \cup BehindTheTaxes(from, k)
  /\ Onward(trace, from, 2 * k + 3) = {2 * k + 3} \cup from[2 * k + 2]

LEMMA InputPlaces ==
  ASSUME NEW t, NEW ti, NEW total, NEW trace, Complete(t, ti, total, trace)
  PROVE  InputsByPlace(trace, Len(t.rates))
<1> DEFINE k == Len(t.rates)
<1>1. /\ k \in Nat
      /\ IsLine(trace[1], TI, ti, <<>>)
      /\ \A b \in 1 .. k :
           /\ IsLine(trace[2 * b], AmountId(b), BracketAmount(t, ti, b), <<TI>>)
           /\ IsLine(trace[2 * b + 1], TaxId(b), BracketTax(t, ti, b), <<AmountId(b)>>)
      /\ IsLine(trace[2 * k + 2], Sum, total, BracketTaxes(k))
      /\ IsLine(trace[2 * k + 3], Tax, CheckedRound(WholeDollar, total).value, <<Sum>>)
  BY LinesOf
<1> HIDE DEF k
<1>2. \A x : {<<x>>[i] : i \in DOMAIN <<x>>} = {x}
  OBVIOUS
<1>3. {(<<>>)[i] : i \in DOMAIN <<>>} = {}
  OBVIOUS
<1>4. {BracketTaxes(k)[i] : i \in DOMAIN BracketTaxes(k)} = {TaxId(b) : b \in 1 .. k}
  BY DEF BracketTaxes
<1>5. InputsOf(trace[1]) = {}
  BY <1>1, <1>3 DEF IsLine, InputsOf
<1>6. \A b \in 1 .. k : /\ InputsOf(trace[2 * b]) = {trace[1].id}
                        /\ InputsOf(trace[2 * b + 1]) = {trace[2 * b].id}
  BY <1>1, <1>2 DEF IsLine, InputsOf
<1>7. InputsOf(trace[2 * k + 2]) = {TaxId(b) : b \in 1 .. k}
  BY <1>1, <1>4 DEF IsLine, InputsOf
<1>8. \A b \in 1 .. k : trace[2 * b + 1].id = TaxId(b)
  BY <1>1 DEF IsLine
<1>9. InputsOf(trace[2 * k + 3]) = {trace[2 * k + 2].id}
  BY <1>1, <1>2 DEF IsLine, InputsOf
<1>10. TaxLineIds(trace, k) = {TaxId(b) : b \in 1 .. k}
  BY <1>8 DEF TaxLineIds
<1> QED BY <1>5, <1>6, <1>7, <1>9, <1>10 DEF k, InputsByPlace
(* What a line comes from, for any function that follows the inputs.       *)
LEMMA ByInputs ==
  ASSUME NEW t, NEW ti, NEW total, NEW trace, Complete(t, ti, total, trace), NEW from
  PROVE  OnwardByPlace(trace, from, Len(t.rates))
<1> DEFINE k == Len(t.rates)
           onward(i) == Onward(trace, from, i)
<1>1. k \in Nat /\ DOMAIN trace = 1 .. 2 * k + 3
  BY LinesOf
<1>2. \A i \in 1 .. 2 * k + 3 : IndexOf(trace, trace[i].id) = i
  BY <1>1, PlaceOfAnId
<1>3. /\ InputsOf(trace[1]) = {}
      /\ \A b \in 1 .. k : /\ InputsOf(trace[2 * b]) = {trace[1].id}
                           /\ InputsOf(trace[2 * b + 1]) = {trace[2 * b].id}
      /\ InputsOf(trace[2 * k + 2]) = TaxLineIds(trace, k)
      /\ InputsOf(trace[2 * k + 3]) = {trace[2 * k + 2].id}
  <2>1. InputsByPlace(trace, k)
    BY InputPlaces
  <2> QED BY <2>1 DEF InputsByPlace
<1> HIDE DEF k
<1>4. /\ 1 \in 1 .. 2 * k + 3 /\ 2 * k + 2 \in 1 .. 2 * k + 3
      /\ \A b \in 1 .. k : 2 * b \in 1 .. 2 * k + 3 /\ 2 * b + 1 \in 1 .. 2 * k + 3
  BY <1>1
<1>5. \A i, m : InputsOf(trace[i]) = {trace[m].id} /\ m \in 1 .. 2 * k + 3 => onward(i) = {i} \cup from[m]
  BY <1>2 DEF Onward
<1>6. onward(1) = {1}
  BY <1>3 DEF Onward
<1>7. \A b \in 1 .. k : onward(2 * b) = {2 * b} \cup from[1] /\ onward(2 * b + 1) = {2 * b + 1} \cup from[2 * b]
  <2> HIDE DEF onward
  <2> QED BY <1>3, <1>4, <1>5
<1>8. onward(2 * k + 3) = {2 * k + 3} \cup from[2 * k + 2]
  <2> HIDE DEF onward
  <2> QED BY <1>3, <1>4, <1>5
<1>9. \A b \in 1 .. k : IndexOf(trace, trace[2 * b + 1].id) = 2 * b + 1
  BY <1>2, <1>4
<1>10. {from[IndexOf(trace, j)] : j \in InputsOf(trace[2 * k + 2])} = {from[2 * b + 1] : b \in 1 .. k}
  BY <1>3, <1>9 DEF TaxLineIds
<1>11. onward(2 * k + 2) = {2 * k + 2} \cup BehindTheTaxes(from, k)
  BY <1>10 DEF Onward, BehindTheTaxes
<1> HIDE DEF onward
<1> QED BY <1>6, <1>7, <1>8, <1>11 DEF k, onward, OnwardByPlace

LEMMA OriginsFollow ==
  ASSUME NEW t, NEW ti, NEW total, NEW trace, Complete(t, ti, total, trace)
  PROVE  FollowsInputs(trace, Origins(Len(t.rates)))
<1> DEFINE k == Len(t.rates)
           from == Origins(k)
           onward(i) == Onward(trace, from, i)
<1>1. k \in Nat /\ DOMAIN trace = 1 .. 2 * k + 3
  BY LinesOf
<1>2. k >= 1
  BY TypesOfASchedule DEF Complete, GoodSchedule
<1>3. /\ onward(1) = {1}
      /\ \A b \in 1 .. k : /\ onward(2 * b) = {2 * b} \cup from[1]
                           /\ onward(2 * b + 1) = {2 * b + 1} \cup from[2 * b]
      /\ onward(2 * k + 2) = {2 * k + 2} \cup BehindTheTaxes(from, k)
      /\ onward(2 * k + 3) = {2 * k + 3} \cup from[2 * k + 2]
  <2>1. OnwardByPlace(trace, from, k)
    BY ByInputs
  <2> QED BY <2>1 DEF OnwardByPlace
<1> HIDE DEF k, onward
<1>4. /\ from[1] = {1} /\ from[2 * k + 2] = 1 .. 2 * k + 2 /\ from[2 * k + 3] = 1 .. 2 * k + 3
  BY <1>1 DEF Origins
<1>5. ASSUME NEW b \in 1 .. k
      PROVE  from[2 * b] = {1, 2 * b} /\ from[2 * b + 1] = {1, 2 * b, 2 * b + 1}
  <2>1. /\ 2 * b \in 1 .. 2 * k + 3 /\ 2 * b + 1 \in 1 .. 2 * k + 3
        /\ 2 * b # 1 /\ 2 * b + 1 # 1 /\ 2 * b # 2 * k + 2 /\ 2 * b + 1 # 2 * k + 2
        /\ 2 * b # 2 * k + 3 /\ 2 * b + 1 # 2 * k + 3
        /\ (2 * b) % 2 = 0 /\ (2 * b + 1) % 2 # 0 /\ (2 * b + 1) - 1 = 2 * b
    BY <1>1
  <2> QED BY <2>1 DEF Origins
<1> HIDE DEF from
<1>6. onward(2 * k + 2) = from[2 * k + 2]
  <2>1. ASSUME NEW i \in 1 .. 2 * k + 1 PROVE \E b \in 1 .. k : i \in from[2 * b + 1]
    <3>3. i \in 1 .. 2 * k + 3 /\ i # 2 * k + 2 /\ i # 2 * k + 3
      BY <1>1
    <3>1. i = 1 \/ \E b \in 1 .. k : i = 2 * b \/ i = 2 * b + 1
      BY <1>1, <3>3, Places
    <3>2. 1 \in 1 .. k
      BY <1>1, <1>2
    <3> QED BY <3>1, <3>2, <1>5
  <2>2. \A b \in 1 .. k : from[2 * b + 1] \subseteq 1 .. 2 * k + 1
    BY <1>1, <1>5
  <2>3. BehindTheTaxes(from, k) = 1 .. 2 * k + 1
    BY <2>1, <2>2 DEF BehindTheTaxes
  <2>4. {2 * k + 2} \cup (1 .. 2 * k + 1) = 1 .. 2 * k + 2
    BY <1>1
  <2> QED BY <1>3, <1>4, <2>3, <2>4
<1>7. onward(2 * k + 3) = from[2 * k + 3]
  <2>1. {2 * k + 3} \cup (1 .. 2 * k + 2) = 1 .. 2 * k + 3
    BY <1>1
  <2> QED BY <1>3, <1>4, <2>1
<1>8. \A i \in 1 .. 2 * k + 3 : onward(i) = from[i]
  <2> SUFFICES ASSUME NEW i \in 1 .. 2 * k + 3 PROVE onward(i) = from[i]
    OBVIOUS
  <2>1. \/ i = 1 \/ i = 2 * k + 2 \/ i = 2 * k + 3
        \/ \E b \in 1 .. k : i = 2 * b \/ i = 2 * b + 1
    BY <1>1, Places
  <2>2. \A b \in 1 .. k : onward(2 * b) = from[2 * b] /\ onward(2 * b + 1) = from[2 * b + 1]
    <3> SUFFICES ASSUME NEW b \in 1 .. k
                 PROVE  onward(2 * b) = from[2 * b] /\ onward(2 * b + 1) = from[2 * b + 1]
      OBVIOUS
    <3>1. from[2 * b] = {1, 2 * b} /\ from[2 * b + 1] = {1, 2 * b, 2 * b + 1}
      BY <1>5
    <3>2. onward(2 * b) = {2 * b} \cup {1} /\ onward(2 * b + 1) = {2 * b + 1} \cup {1, 2 * b}
      BY <3>1, <1>3, <1>4
    <3> QED BY <3>1, <3>2
  <2> QED BY <2>1, <2>2, <1>3, <1>4, <1>6, <1>7
<1>9. from = [i \in 1 .. 2 * k + 3 |-> from[i]]
  BY DEF from, Origins
<1>10. from = [i \in 1 .. 2 * k + 3 |-> onward(i)]
  BY <1>8, <1>9
<1> QED BY <1>1, <1>10 DEF FollowsInputs, onward, from, k

LEMMA EverythingIsBehindTheTax ==
  ASSUME NEW t, NEW ti, NEW total, NEW trace, Complete(t, ti, total, trace)
  PROVE  TrailOf(trace, Tax) = DOMAIN trace
<1> DEFINE k == Len(t.rates)
           from == CHOOSE f : FollowsInputs(trace, f)
           onward(i) == Onward(trace, from, i)
<1>1. k \in Nat /\ DOMAIN trace = 1 .. 2 * k + 3 /\ trace[2 * k + 3].id = Tax
  BY LinesOf DEF IsLine
<1>2. k >= 1
  BY TypesOfASchedule DEF Complete, GoodSchedule
<1>3. FollowsInputs(trace, from)
  BY OriginsFollow
<1>4. TrailOf(trace, Tax) = from[IndexOf(trace, Tax)]
  BY DEF TrailOf, FollowsInputs, Onward
<1> HIDE DEF from
<1>5. /\ onward(1) = {1}
      /\ \A b \in 1 .. k : /\ onward(2 * b) = {2 * b} \cup from[1]
                           /\ onward(2 * b + 1) = {2 * b + 1} \cup from[2 * b]
      /\ onward(2 * k + 2) = {2 * k + 2} \cup BehindTheTaxes(from, k)
      /\ onward(2 * k + 3) = {2 * k + 3} \cup from[2 * k + 2]
  <2>1. OnwardByPlace(trace, from, k)
    BY ByInputs
  <2> QED BY <2>1 DEF OnwardByPlace
<1>6. \A i \in 1 .. 2 * k + 3 : from[i] = onward(i)
  BY <1>1, <1>3 DEF FollowsInputs
<1>7. IndexOf(trace, Tax) = 2 * k + 3
  <2>1. 2 * k + 3 \in DOMAIN trace
    BY <1>1
  <2>2. \A i \in DOMAIN trace : IndexOf(trace, trace[i].id) = i
    BY PlaceOfAnId
  <2> QED BY <1>1, <2>1, <2>2
<1> HIDE DEF k, onward
<1>8. from[1] = {1}
  BY <1>1, <1>5, <1>6
<1>9. ASSUME NEW b \in 1 .. k PROVE from[2 * b + 1] = {1, 2 * b, 2 * b + 1}
  <2>1. 2 * b \in 1 .. 2 * k + 3 /\ 2 * b + 1 \in 1 .. 2 * k + 3
    BY <1>1
  <2>2. from[2 * b] = {2 * b} \cup {1} /\ from[2 * b + 1] = {2 * b + 1} \cup from[2 * b]
    BY <2>1, <1>5, <1>6, <1>8
  <2> QED BY <2>2
<1>10. BehindTheTaxes(from, k) = 1 .. 2 * k + 1
  <2>1. ASSUME NEW i \in 1 .. 2 * k + 1 PROVE \E b \in 1 .. k : i \in from[2 * b + 1]
    <3>3. i \in 1 .. 2 * k + 3 /\ i # 2 * k + 2 /\ i # 2 * k + 3
      BY <1>1
    <3>1. i = 1 \/ \E b \in 1 .. k : i = 2 * b \/ i = 2 * b + 1
      BY <1>1, <3>3, Places
    <3>2. 1 \in 1 .. k
      BY <1>1, <1>2
    <3> QED BY <3>1, <3>2, <1>9
  <2>2. \A b \in 1 .. k : from[2 * b + 1] \subseteq 1 .. 2 * k + 1
    BY <1>1, <1>9
  <2> QED BY <2>1, <2>2 DEF BehindTheTaxes
<1>11. from[2 * k + 2] = 1 .. 2 * k + 2
  <2>1. {2 * k + 2} \cup (1 .. 2 * k + 1) = 1 .. 2 * k + 2 /\ 2 * k + 2 \in 1 .. 2 * k + 3
    BY <1>1
  <2> QED BY <2>1, <1>5, <1>6, <1>10
<1>12. from[2 * k + 3] = 1 .. 2 * k + 3
  <2>1. {2 * k + 3} \cup (1 .. 2 * k + 2) = 1 .. 2 * k + 3 /\ 2 * k + 3 \in 1 .. 2 * k + 3
    BY <1>1
  <2> QED BY <2>1, <1>5, <1>6, <1>11
<1> QED BY <1>1, <1>4, <1>7, <1>12
LEMMA TrailIsTheTrace ==
  ASSUME NEW t, NEW ti, NEW total, NEW trace, Complete(t, ti, total, trace)
  PROVE  Trail(trace, Tax) = trace
<1> DEFINE places == TrailOf(trace, Tax)
           nth(m) == CHOOSE i \in places : Cardinality({j \in places : j < i}) = m - 1
           k == Len(trace)
<1>1. k \in Nat /\ DOMAIN trace = 1 .. k /\ trace = [i \in 1 .. k |-> trace[i]]
  <2>1. IsTrace(trace)
    BY LinesOf
  <2> QED BY <2>1 DEF IsTrace
<1>2. places = 1 .. k
  BY <1>1, EverythingIsBehindTheTax
<1>3. Trail(trace, Tax) = [m \in 1 .. Cardinality(places) |-> trace[nth(m)]]
  BY DEF Trail
<1> HIDE DEF places, k
<1>4. Cardinality(1 .. k) = k
  BY <1>1, FS_Interval
<1>5. ASSUME NEW i \in 1 .. k PROVE Cardinality({j \in places : j < i}) = i - 1
  <2>1. {j \in places : j < i} = 1 .. i - 1
    BY <1>1, <1>2
  <2>2. i - 1 \in Nat /\ i - 1 \in Int /\ 1 \in Int /\ (1 > i - 1 => i - 1 = 0) /\ (i - 1) - 1 + 1 = i - 1
    BY <1>1
  <2>3. Cardinality(1 .. i - 1) = i - 1
    <3> DEFINE c == i - 1
    <3>1. c \in Int /\ 1 \in Int /\ (1 > c => c = 0) /\ c - 1 + 1 = c
      BY <2>2
    <3> HIDE DEF c
    <3>2. Cardinality(1 .. c) = c
      BY <3>1, FS_Interval
    <3> QED BY <3>2 DEF c
  <2> QED BY <2>1, <2>3
<1>6. ASSUME NEW m \in 1 .. k PROVE nth(m) = m
  <2>1. \A i \in places : Cardinality({j \in places : j < i}) = m - 1 <=> i = m
    BY <1>1, <1>2, <1>5
  <2>2. \A i : i \in places /\ Cardinality({j \in places : j < i}) = m - 1 <=> i = m
    BY <1>2, <2>1
  <2> QED BY <2>2, <1>2
<1> HIDE DEF nth
<1> QED BY <1>1, <1>2, <1>3, <1>4, <1>6

\* The first lines of a trace
Prefix(trace, m) == [i \in 1 .. m |-> trace[i]]

\* The equation that ReadBack is defined by
Reading(raw, read) ==
  read = [m \in 0 .. Len(raw) |->
            IF m = 0 THEN Ok(<<>>)
            ELSE IF read[m - 1].ok THEN Push(read[m - 1].value, raw[m])
            ELSE read[m - 1]]

LEMMA NextLineIsTaken ==
  ASSUME NEW t, NEW ti, NEW total, NEW trace, Complete(t, ti, total, trace),
         NEW m \in 1 .. Len(trace)
  PROVE  Push(Prefix(trace, m - 1), trace[m]) = Ok(Prefix(trace, m))
<1> DEFINE k == Len(t.rates)
           before == Prefix(trace, m - 1)
<1>1. k \in Nat /\ DOMAIN trace = 1 .. 2 * k + 3 /\ Len(trace) = 2 * k + 3
  BY LinesOf
<1>2. m \in 1 .. 2 * k + 3 /\ m \in Nat /\ m - 1 \in Nat
  BY <1>1
<1>3. Ids(before) = {trace[i].id : i \in 1 .. m - 1}
  BY DEF Ids, Prefix
<1>4. trace[m].id \notin Ids(before)
  <2>1. \A i \in 1 .. m - 1 : i \in DOMAIN trace /\ m \in DOMAIN trace /\ i # m
    BY <1>1, <1>2
  <2>2. \A i \in DOMAIN trace, j \in DOMAIN trace : trace[i].id = trace[j].id => i = j
    BY PlacesDiffer
  <2> QED BY <1>3, <2>1, <2>2
<1>5. InputsOf(trace[m]) \subseteq Ids(before)
  <2>1. /\ InputsOf(trace[1]) = {}
        /\ \A b \in 1 .. k : /\ InputsOf(trace[2 * b]) = {trace[1].id}
                             /\ InputsOf(trace[2 * b + 1]) = {trace[2 * b].id}
        /\ InputsOf(trace[2 * k + 2]) = TaxLineIds(trace, k)
        /\ InputsOf(trace[2 * k + 3]) = {trace[2 * k + 2].id}
    <3>1. InputsByPlace(trace, k)
      BY InputPlaces
    <3> QED BY <3>1 DEF InputsByPlace
  <2>2. \/ m = 1 \/ m = 2 * k + 2 \/ m = 2 * k + 3
        \/ \E b \in 1 .. k : m = 2 * b \/ m = 2 * b + 1
    BY <1>1, <1>2, Places
  <2> HIDE DEF k, before
  <2>3. \A i \in 1 .. m - 1 : trace[i].id \in Ids(before)
    BY <1>3
  <2>4. CASE m = 1
    BY <2>1, <2>4
  <2>5. CASE m = 2 * k + 2
    <3>1. \A b \in 1 .. k : 2 * b + 1 \in 1 .. m - 1
      BY <1>1, <2>5
    <3> QED BY <2>1, <2>3, <2>5, <3>1 DEF TaxLineIds
  <2>6. CASE m = 2 * k + 3
    <3>1. 2 * k + 2 \in 1 .. m - 1
      BY <1>1, <2>6
    <3> QED BY <2>1, <2>3, <2>6, <3>1
  <2>7. ASSUME NEW b \in 1 .. k, m = 2 * b PROVE InputsOf(trace[m]) \subseteq Ids(before)
    <3>1. 1 \in 1 .. m - 1
      BY <1>1, <2>7
    <3> QED BY <2>1, <2>3, <2>7, <3>1
  <2>8. ASSUME NEW b \in 1 .. k, m = 2 * b + 1 PROVE InputsOf(trace[m]) \subseteq Ids(before)
    <3>1. 2 * b \in 1 .. m - 1
      BY <1>1, <2>8
    <3> QED BY ZenonT(30), <2>1, <2>3, <2>8, <3>1
  <2> QED BY <2>2, <2>4, <2>5, <2>6, <2>7, <2>8
<1>6. Append(before, trace[m]) = Prefix(trace, m)
  <2> DEFINE S == {trace[i] : i \in DOMAIN trace}
  <2>1. \A i \in 1 .. m : trace[i] \in S
    BY <1>1, <1>2
  <2> HIDE DEF S
  <2>2. before \in Seq(S) /\ Len(before) = m - 1 /\ \A i \in 1 .. m - 1 : before[i] = trace[i]
    BY <1>2, <2>1 DEF Prefix
  <2>3. trace[m] \in S
    BY <1>2, <2>1
  <2> HIDE DEF before
  <2>4. /\ Append(before, trace[m]) \in Seq(S) /\ Len(Append(before, trace[m])) = m
        /\ \A i \in 1 .. m - 1 : Append(before, trace[m])[i] = trace[i]
        /\ Append(before, trace[m])[m] = trace[m]
    BY <1>2, <2>2, <2>3
  <2>5. Append(before, trace[m]) = [i \in 1 .. m |-> Append(before, trace[m])[i]]
    BY <1>2, <2>4
  <2>6. \A i \in 1 .. m : Append(before, trace[m])[i] = trace[i]
    BY <1>2, <2>4
  <2> QED BY <2>5, <2>6 DEF Prefix
<1> QED BY <1>4, <1>5, <1>6 DEF Push

LEMMA ReadsBack ==
  ASSUME NEW t, NEW ti, NEW total, NEW trace, Complete(t, ti, total, trace)
  PROVE  ReadBack(trace) = Ok(trace)
<1> DEFINE k == Len(trace)
           prefixes == [m \in 0 .. k |-> Ok(Prefix(trace, m))]
           read == CHOOSE f : Reading(trace, f)
<1>1. k \in Nat /\ DOMAIN trace = 1 .. k /\ trace = [i \in 1 .. k |-> trace[i]]
  <2>1. IsTrace(trace)
    BY LinesOf
  <2> QED BY <2>1 DEF IsTrace
<1>2. \A x : Ok(x).ok /\ Ok(x).value = x
  BY DEF Ok
<1>3. Prefix(trace, 0) = <<>>
  BY DEF Prefix
<1>4. \A m \in 1 .. k : Push(Prefix(trace, m - 1), trace[m]) = Ok(Prefix(trace, m))
  BY NextLineIsTaken
<1>5. Reading(trace, prefixes)
  <2>1. ASSUME NEW m \in 0 .. k
        PROVE  Ok(Prefix(trace, m)) = IF m = 0 THEN Ok(<<>>)
                                      ELSE IF prefixes[m - 1].ok THEN Push(prefixes[m - 1].value, trace[m])
                                      ELSE prefixes[m - 1]
    <3>1. CASE m = 0
      BY <1>3, <3>1
    <3>2. CASE m \in 1 .. k
      <4>1. m - 1 \in 0 .. k /\ m # 0
        BY <1>1, <3>2
      <4>2. prefixes[m - 1] = Ok(Prefix(trace, m - 1))
        BY <4>1
      <4> HIDE DEF prefixes
      <4> QED BY <4>1, <4>2, <1>2, <1>4, <3>2
    <3> QED BY <1>1, <3>1, <3>2
  <2> QED BY <2>1 DEF Reading
<1>6. Reading(trace, read)
  BY <1>5
<1>7. ReadBack(trace) = read[k]
  BY DEF ReadBack, Reading
<1> HIDE DEF read, prefixes
<1> DEFINE T == {m \in Nat : m <= k => read[m] = Ok(Prefix(trace, m))}
<1>8. 0 \in T
  BY <1>1, <1>3, <1>6 DEF Reading
<1>9. ASSUME NEW m \in Nat, m \in T PROVE m + 1 \in T
  <2> SUFFICES ASSUME m + 1 <= k PROVE read[m + 1] = Ok(Prefix(trace, m + 1))
    OBVIOUS
  <2>1. m + 1 \in 0 .. k /\ m + 1 \in 1 .. k /\ (m + 1) - 1 = m /\ m + 1 # 0 /\ m <= k
    BY <1>1
  <2>2. read[m] = Ok(Prefix(trace, m))
    BY <1>9, <2>1
  <2>3. read[m + 1] = IF read[m].ok THEN Push(read[m].value, trace[m + 1]) ELSE read[m]
    BY <1>6, <2>1 DEF Reading
  <2>4. Push(Prefix(trace, (m + 1) - 1), trace[m + 1]) = Ok(Prefix(trace, m + 1))
    BY <1>4, <2>1
  <2> QED BY <2>1, <2>2, <2>3, <2>4, <1>2
<1>10. \A m \in Nat : m \in T
  <2> HIDE DEF T
  <2> QED BY <1>8, <1>9, Induction
<1>11. read[k] = Ok(Prefix(trace, k))
  BY <1>1, <1>10
<1> QED BY <1>1, <1>7, <1>11 DEF Prefix

-----------------------------------------------------------------------------
(* What the loader makes of a table                                        *)

Width(edges) == IF edges = <<>> THEN 1 ELSE Len(edges)
IsRowYear(y) == y \in 1900 .. 2200
IsAmounts(a, width) ==
  a \in Seq(Int64) /\ Len(a) = width /\ \A i \in 1 .. width : 0 <= a[i]
IsRate(r) == r \in [num : Int64, den : Int64] /\ 0 < r.den /\ 0 <= r.num /\ r.num <= r.den
IsLadder(r, width) ==
  r \in Seq([num : Int64, den : Int64]) /\ Len(r) = width /\ \A i \in 1 .. width : IsRate(r[i])
IsRule(rule) ==
  /\ rule.increment \in Int /\ 0 < rule.increment
  /\ rule.direction \in RoundingDirections /\ rule.basis \in RoundingBases

\* The status whose base amounts are projected for a status
Source(p, k) == IF k \in DOMAIN p.derived THEN p.derived[k].from ELSE k

LoadedProjection(p, width) ==
  /\ \A k \in DOMAIN p.baseValues : IsAmounts(p.baseValues[k], width)
  /\ \A k \in DOMAIN p.derived :
       LET r == p.derived[k].multiplier IN r \in [num : Int64, den : Int64] /\ 0 < r.num /\ 0 < r.den
  /\ \A k \in DOMAIN p.rounding : IsRule(p.rounding[k])
  /\ p.rule = "index" =>
       /\ p.baseYear # 0 \/ p.baseYearByEdge # NoTable
       /\ \A k \in Statuses : Source(p, k) \in DOMAIN p.baseValues /\ Source(p, k) \in DOMAIN p.rounding

LoadedTable(t) ==
  LET width == Width(t.components)
  IN  /\ t.components \in Seq(STRING) /\ width \in Nat
      /\ DOMAIN t.values = Statuses
      /\ \A k \in Statuses : \A y \in DOMAIN t.values[k] :
           IsRowYear(y) /\ IsAmounts(t.values[k][y], width)
      /\ \A y \in DOMAIN t.rates :
           t.components # <<>> /\ IsRowYear(y) /\ IsLadder(t.rates[y], width + 1)
      /\ LoadedProjection(t.projection, width)

LEMMA Listed ==
  ASSUME NEW S, NEW size \in Nat, NEW f, DOMAIN f = 1 .. size, f = [i \in DOMAIN f |-> f[i]],
         \A i \in DOMAIN f : f[i] \in S
  PROVE  f \in Seq(S) /\ Len(f) = size
<1>1. f \in [1 .. size -> S]
  OBVIOUS
<1>2. f \in Seq(S)
  BY <1>1
<1>3. Len(f) \in Nat /\ DOMAIN f = 1 .. Len(f)
  BY <1>2
<1> QED BY <1>2, <1>3

LEMMA ComponentsTyped ==
  ASSUME NEW root, IsDocument(root), ComponentsOk(root)
  PROVE  Components(root) \in Seq(STRING) /\ Width(Components(root)) \in Nat
<1>1. CASE "edges" \notin DOMAIN root
  BY <1>1 DEF Components, Strings, Width
<1>2. CASE "edges" \in DOMAIN root
  <2> DEFINE items == root["edges"].value
             texts == [i \in DOMAIN items |-> items[i].value]
  <2>1. Components(root) = texts
    BY <1>2 DEF Components, Strings
  <2>2. root["edges"].type = "array" /\ \A i \in DOMAIN items : items[i].type = "string"
    BY <1>2 DEF ComponentsOk, OptionalStrings, Optional, AllStrings
  <2>3. IsValue(root["edges"]) /\ Inside(root["edges"], IsTree3)
    BY <1>2 DEF IsDocument, IsTree4
  <2>4. Len(items) \in Nat /\ DOMAIN items = 1 .. Len(items)
    BY <2>2, <2>3 DEF IsValue
  <2>5. \A i \in DOMAIN items : IsValue(items[i])
    BY <2>2, <2>3 DEF Inside, IsTree3
  <2>6. \A i \in DOMAIN items : items[i].value \in STRING
    BY <2>2, <2>5 DEF IsValue
  <2> HIDE DEF items
  <2>7. DOMAIN texts = 1 .. Len(items) /\ texts = [i \in DOMAIN texts |-> texts[i]]
        /\ \A i \in DOMAIN texts : texts[i] \in STRING
    BY <2>4, <2>6
  <2> HIDE DEF texts
  <2>8. texts \in Seq(STRING) /\ Len(texts) \in Nat
    BY <2>4, <2>7, Listed
  <2> QED BY <2>1, <2>8 DEF Width
<1> QED BY <1>1, <1>2

LEMMA DollarsTyped ==
  ASSUME NEW v, IsValue(v), DollarsOk(v)
  PROVE  /\ FromDollars(v.value).value \in Int64 /\ 0 <= FromDollars(v.value).value
         /\ v.value # 0 => 0 < FromDollars(v.value).value
<1>1. v.value \in Int /\ v.value >= 0 /\ FromDollars(v.value).ok
  BY DEF DollarsOk, IsValue
<1> QED BY <1>1 DEF FromDollars, Checked, FitsInt, Ok, Err, CentsPerDollar

LEMMA AmountsTyped ==
  ASSUME NEW v, NEW edges, IsTree2(v), AmountsOk(v, edges), Width(edges) \in Nat
  PROVE  IsAmounts(Amounts(v, edges), Width(edges))
<1>1. CASE edges = <<>>
  <2>1. FromDollars(v.value).value \in Int64 /\ 0 <= FromDollars(v.value).value
    BY <1>1, DollarsTyped DEF AmountsOk, IsTree2
  <2>2. <<FromDollars(v.value).value>> \in Seq(Int64)
    BY <2>1
  <2> QED BY <2>1, <2>2, <1>1 DEF Amounts, IsAmounts, Width
<1>2. CASE edges # <<>>
  <2> DEFINE amounts == [i \in DOMAIN v.value |-> FromDollars(v.value[i].value).value]
             size == Len(v.value)
  <2>1. Amounts(v, edges) = amounts
    BY <1>2 DEF Amounts
  <2>2. v.type = "array" /\ size = Width(edges) /\ \A i \in DOMAIN v.value : DollarsOk(v.value[i])
    BY <1>2 DEF AmountsOk, Width
  <2>3. size \in Nat /\ DOMAIN v.value = 1 .. size
    BY <2>2 DEF IsTree2, IsValue
  <2>4. \A i \in DOMAIN v.value : IsValue(v.value[i])
    BY <2>2 DEF IsTree2, Inside
  <2>5. \A i \in DOMAIN v.value :
          FromDollars(v.value[i].value).value \in Int64 /\ 0 <= FromDollars(v.value[i].value).value
    BY <2>2, <2>4, DollarsTyped
  <2>6. DOMAIN amounts = 1 .. size /\ amounts = [i \in DOMAIN amounts |-> amounts[i]]
        /\ \A i \in DOMAIN amounts : amounts[i] \in Int64 /\ 0 <= amounts[i]
    BY <2>3, <2>5
  <2> HIDE DEF amounts, size
  <2>7. amounts \in Seq(Int64) /\ Len(amounts) = size
    BY <2>3, <2>6, Listed
  <2> QED BY <2>1, <2>2, <2>6, <2>7 DEF IsAmounts
<1> QED BY <1>1, <1>2

LEMMA TextOfAYear ==
  ASSUME NEW map, NEW y \in Years(map)
  PROVE  TextOf(map, y) \in DOMAIN map /\ YearOf[TextOf(map, y)] = y
BY DEF Years, TextOf

LEMMA ValuesTyped ==
  ASSUME NEW root, IsDocument(root), ComponentsOk(root), ValuesOk(root),
         NEW k \in DOMAIN Values(root), NEW y \in DOMAIN Values(root)[k]
  PROVE  IsRowYear(y) /\ IsAmounts(Values(root)[k][y], Width(Components(root)))
<1> DEFINE map == root["values"].value[k].value
           edges == Components(root)
<1>1. "values" \in DOMAIN root /\ root["values"].type = "table" /\ k \in DOMAIN root["values"].value
  BY DEF ValuesOk, Required, Values
<1>2. YearsOk(root["values"].value[k], edges)
  BY <1>1 DEF ValuesOk
<1>3. Values(root)[k] = [z \in Years(map) |-> Amounts(map[TextOf(map, z)], edges)]
  BY <1>1 DEF Values
<1>4. Inside(root["values"].value[k], IsTree2)
  BY <1>1 DEF IsDocument, IsTree4, Inside, IsTree3
<1>5. \A text \in DOMAIN map :
        YearOf[text] \in 1900 .. 2200 /\ IsTree2(map[text]) /\ AmountsOk(map[text], edges)
  BY <1>2, <1>4 DEF YearsOk, Inside, IsYearKey, YearInDomain
<1>9. Width(edges) \in Nat
  BY ComponentsTyped
<1> HIDE DEF map, edges
<1>6. y \in Years(map) /\ Values(root)[k][y] = Amounts(map[TextOf(map, y)], edges)
  BY <1>3
<1>7. TextOf(map, y) \in DOMAIN map /\ YearOf[TextOf(map, y)] = y
  BY <1>6, TextOfAYear
<1>8. IsAmounts(Amounts(map[TextOf(map, y)], edges), Width(edges))
  BY <1>5, <1>7, <1>9, AmountsTyped
<1> QED BY <1>5, <1>6, <1>7, <1>8 DEF IsRowYear, edges

-----------------------------------------------------------------------------
(* The projection                                                          *)

\* The block of a document that is valid, and what there is inside it
LEMMA ProjectionBlock ==
  ASSUME NEW root, IsDocument(root), ProjectionOk(root)
  PROVE  LET block == root["projection"].value
         IN  \A k \in DOMAIN block : IsTree3(block[k])
<1>1. "projection" \in DOMAIN root /\ root["projection"].type = "table"
  BY DEF ProjectionOk, Required
<1> QED BY <1>1 DEF IsDocument, IsTree4, Inside

LEMMA BaseValuesTyped ==
  ASSUME NEW root, IsDocument(root), ComponentsOk(root), ProjectionOk(root),
         NEW k \in DOMAIN Projection(root).baseValues
  PROVE  IsAmounts(Projection(root).baseValues[k], Width(Components(root)))
<1> DEFINE block == root["projection"].value
           edges == Components(root)
           map == FieldOr(block, "base_values", NoTable)
<1>1. BaseValuesOk(block, edges) /\ \A j \in DOMAIN block : IsTree3(block[j])
  BY ProjectionBlock DEF ProjectionOk
<1>2. Projection(root).baseValues = BaseValues(block, edges)
  BY DEF Projection
<1>3. k \in DOMAIN map /\ Projection(root).baseValues[k] = Amounts(map[k], edges)
  BY <1>2 DEF BaseValues
<1>4. "base_values" \in DOMAIN block /\ map = block["base_values"].value
  BY <1>3 DEF FieldOr, NoTable
<1>5. block["base_values"].type = "table" /\ AmountsOk(map[k], edges)
  BY <1>1, <1>3, <1>4 DEF BaseValuesOk, Optional
<1>6. IsTree2(map[k])
  BY <1>1, <1>3, <1>4, <1>5 DEF IsTree3, Inside
<1>7. Width(edges) \in Nat
  BY ComponentsTyped
<1> HIDE DEF map, edges, block
<1>8. IsAmounts(Amounts(map[k], edges), Width(edges))
  BY <1>5, <1>6, <1>7, AmountsTyped
<1> QED BY <1>3, <1>8 DEF edges

(* A ratio that was parsed is one of two words, over a positive one.       *)
LEMMA RatioTyped ==
  ASSUME NEW text, ParseRatio(Literal(text)).ok
  PROVE  LET r == ParseRatio(Literal(text)).value IN r \in [num : Int64, den : Int64] /\ 0 < r.den
<1> DEFINE lit == Literal(text)
           den == 10 ^ lit.places
           num == IF lit.negative THEN -lit.digits ELSE lit.digits
<1>1. ParseRatio(lit).ok
  OBVIOUS
<1>3. ParseDecimal(lit) = IF FitsInt(num) /\ den \in 1 .. MaxInt THEN Ok([num |-> num, den |-> den])
                          ELSE Err("OutOfRange")
  BY DEF ParseDecimal
<1> HIDE DEF lit, den, num
<1>4. \/ lit.form = "fraction" /\ ParseRatio(lit) = ParseFraction(lit)
      \/ lit.form = "decimal" /\ ParseRatio(lit) = ParseDecimal(lit)
  BY <1>1 DEF ParseRatio, Err
<1>5. CASE ParseRatio(lit) = ParseFraction(lit)
  <2>1. FitsInt(lit.num) /\ FitsInt(lit.den) /\ ParseFraction(lit) = NewRatio(lit.num, lit.den)
    BY <1>1, <1>5 DEF ParseFraction, Err
  <2>2. /\ NewRatio(lit.num, lit.den).value = [num |-> lit.num, den |-> lit.den]
        /\ lit.den # 0 /\ ~(lit.den < 0)
    BY <1>1, <1>5, <2>1 DEF NewRatio, Err, Ok
  <2> QED BY <1>5, <2>1, <2>2, MoneyAssumption DEF FitsInt, Int64, MinInt, lit
<1>6. CASE lit.form = "decimal" /\ ParseRatio(lit) = ParseDecimal(lit)
  <2>1. num \in Int64 /\ den \in 1 .. MaxInt /\ ParseDecimal(lit).value = [num |-> num, den |-> den]
    BY <1>1, <1>3, <1>6 DEF FitsInt, Ok, Err
  <2> QED BY <1>6, <2>1, MoneyAssumption DEF Int64, MinInt, lit
<1> QED BY <1>4, <1>5, <1>6

LEMMA DerivedTables ==
  ASSUME NEW root, ProjectionOk(root), NEW k \in DOMAIN Projection(root).derived
  PROVE  LET r == Projection(root).derived[k].multiplier
         IN  r \in [num : Int64, den : Int64] /\ 0 < r.num /\ 0 < r.den
<1> DEFINE block == root["projection"].value
           entry == Derived(block)[k]
           text == entry.value["multiplier"].value
<1>1. Projection(root).derived = [j \in DOMAIN Derived(block) |-> Derivation(Derived(block)[j])]
  BY DEF Projection
<1>2. k \in DOMAIN Derived(block) /\ Projection(root).derived[k] = Derivation(entry)
  BY <1>1
<1>3. DerivationOk(entry)
  BY <1>2 DEF ProjectionOk, DerivedOk
<1>4. /\ Derivation(entry).multiplier = ParseRatio(Literal(text)).value
      /\ ParseRatio(Literal(text)).ok /\ ParseRatio(Literal(text)).value.num > 0
  BY <1>3 DEF Derivation, DerivationOk
<1> HIDE DEF text, entry
<1>5. /\ ParseRatio(Literal(text)).value \in [num : Int64, den : Int64]
      /\ 0 < ParseRatio(Literal(text)).value.den
  BY <1>4, RatioTyped
<1> QED BY <1>2, <1>4, <1>5, MoneyAssumption DEF Int64, MinInt

LEMMA PositiveTyped ==
  ASSUME NEW v, IsValue(v), PositiveOk(v)
  PROVE  FromDollars(v.value).value \in Int /\ 0 < FromDollars(v.value).value
BY DollarsTyped, MoneyAssumption DEF PositiveOk, Int64, MinInt

LEMMA RoundingTyped ==
  ASSUME NEW root, IsDocument(root), ProjectionOk(root), NEW k \in DOMAIN Projection(root).rounding
  PROVE  IsRule(Projection(root).rounding[k])
<1> DEFINE block == root["projection"].value
           map == block["rounding"].value
           increment(j) == IF "increment" \in DOMAIN map THEN map["increment"].value
                           ELSE map["increment_by_key"].value[j].value
<1>1. RoundingOk(block) /\ \A j \in DOMAIN block : IsTree3(block[j])
  BY ProjectionBlock DEF ProjectionOk
<1>2. Projection(root).rounding = IF "rounding" \in DOMAIN block THEN Rounding(block) ELSE NoTable
  BY DEF Projection
<1>3. "rounding" \in DOMAIN block /\ Projection(root).rounding = Rounding(block)
  BY <1>2 DEF NoTable
<1>4. Rounding(block) =
        [j \in Statuses |-> [increment |-> FromDollars(increment(j)).value,
                             direction |-> map["direction"].value, basis |-> map["basis"].value]]
  BY DEF Rounding
<1>5. k \in Statuses
  BY <1>3, <1>4
<1>6. /\ IncrementOk(map) /\ map["direction"].value \in RoundingDirections
      /\ map["basis"].value \in RoundingBases /\ block["rounding"].type = "table"
  BY <1>1, <1>3 DEF RoundingOk, OneOf, Optional
<1>7. \A j \in DOMAIN map : IsTree2(map[j])
  BY <1>1, <1>3, <1>6 DEF IsTree3, Inside
<1> HIDE DEF map
<1>8. FromDollars(increment(k)).value \in Int /\ 0 < FromDollars(increment(k)).value
  <2>1. CASE "increment" \in DOMAIN map
    BY <2>1, <1>6, <1>7, PositiveTyped DEF IncrementOk, IsTree2
  <2>2. CASE "increment" \notin DOMAIN map
    <3> DEFINE byKey == map["increment_by_key"].value
    <3>1. "increment_by_key" \in DOMAIN map /\ map["increment_by_key"].type = "table"
      BY <2>2, <1>6 DEF IncrementOk, Optional
    <3>2. k \in DOMAIN byKey /\ PositiveOk(byKey[k])
      BY <3>1, <1>5, <1>6 DEF IncrementOk, Keyed
    <3>3. IsValue(byKey[k])
      BY <3>1, <3>2, <1>7 DEF IsTree2, Inside
    <3> QED BY <2>2, <3>2, <3>3, PositiveTyped
  <2> QED BY <2>1, <2>2
<1> HIDE DEF increment
<1>9. Projection(root).rounding[k] = [increment |-> FromDollars(increment(k)).value,
                             direction |-> map["direction"].value, basis |-> map["basis"].value]
  BY <1>3, <1>4, <1>5
<1> QED BY <1>6, <1>8, <1>9 DEF IsRule

LEMMA IndexedTyped ==
  ASSUME NEW root, ProjectionOk(root), Projection(root).rule = "index"
  PROVE  LET p == Projection(root)
         IN  /\ p.baseYear # 0 \/ p.baseYearByEdge # NoTable
             /\ \A k \in Statuses : Source(p, k) \in DOMAIN p.baseValues /\ Source(p, k) \in DOMAIN p.rounding
<1> DEFINE block == root["projection"].value
           edges == Components(root)
           p == Projection(root)
<1>1. /\ block["rule"].value = "index" /\ p.derived = [k \in DOMAIN Derived(block) |-> Derivation(Derived(block)[k])]
      /\ p.baseYear = FieldOr(block, "base_year", 0) /\ p.baseYearByEdge = BaseYears(block, edges)
      /\ p.baseValues = BaseValues(block, edges)
      /\ p.rounding = IF "rounding" \in DOMAIN block THEN Rounding(block) ELSE NoTable
  BY DEF Projection
<1>2. /\ "rounding" \in DOMAIN block /\ HasBaseYear(block) /\ HasBaseValues(block)
      /\ BaseValuesOk(block, edges) /\ BaseYearOk(block, edges) /\ DerivedFromOk(block)
  BY <1>1 DEF ProjectionOk, IndexComplete
<1> HIDE DEF p, edges
<1>3. p.baseYear # 0 \/ p.baseYearByEdge # NoTable
  <2>1. CASE "base_year" \in DOMAIN block
    <3>1. OptionalYear(block, "base_year")
      BY <1>2 DEF BaseYearOk
    <3> DEFINE year == block["base_year"].value
    <3>2. year \in 1900 .. 2200
      <4>1. YearInDomain(year)
        BY <2>1, <3>1, Zenon DEF OptionalYear
      <4> HIDE DEF year
      <4> QED BY <4>1 DEF YearInDomain
    <3>3. p.baseYear = year
      BY <2>1, <1>1 DEF FieldOr
    <3> HIDE DEF year
    <3>4. year # 0
      BY <3>2
    <3> QED BY <3>3, <3>4
  <2>2. CASE "base_year_by_edge" \in DOMAIN block
    <3> DEFINE map == block["base_year_by_edge"].value
    <3>1. DOMAIN map # {}
      BY <2>2, <1>2 DEF BaseYearOk
    <3>2. DOMAIN BaseYears(block, edges) = Years(map)
      BY <2>2 DEF BaseYears
    <3>3. DOMAIN NoTable = {} /\ Years(map) # {}
      BY <3>1 DEF NoTable, Years
    <3> QED BY <1>1, <3>2, <3>3
  <2> QED BY <1>2, <2>1, <2>2 DEF HasBaseYear
<1>4. DOMAIN p.rounding = Statuses
  BY <1>1, <1>2 DEF Rounding
<1>5. Statuses \ DOMAIN Derived(block) \subseteq DOMAIN p.baseValues
  <2>1. "base_values" \in DOMAIN block
    BY <1>2 DEF HasBaseValues, FieldOr, NoTable
  <2>2. Keyed(block["base_values"].value, DOMAIN Derived(block))
    BY <2>1, <1>2 DEF BaseValuesOk
  <2>3. DOMAIN p.baseValues = DOMAIN block["base_values"].value
    BY <1>1, <2>1 DEF BaseValues, FieldOr
  <2> QED BY <2>2, <2>3 DEF Keyed
<1>6. ASSUME NEW k \in Statuses PROVE Source(p, k) \in Statuses \ DOMAIN Derived(block)
  <2>1. CASE k \in DOMAIN Derived(block)
    <3> HIDE DEF block
    <3>1. p.derived[k] = Derivation(Derived(block)[k]) /\ k \in DOMAIN p.derived
      BY <1>1, <2>1
    <3>2. p.derived[k].from = Derived(block)[k].value["from"].value
      BY <3>1 DEF Derivation
    <3> QED BY <1>2, <2>1, <3>1, <3>2 DEF DerivedFromOk, Source
  <2>2. CASE k \notin DOMAIN Derived(block)
    BY <1>1, <1>6, <2>2 DEF Source
  <2> QED BY <2>1, <2>2
<1>7. \A k \in Statuses : Source(p, k) \in DOMAIN p.baseValues /\ Source(p, k) \in DOMAIN p.rounding
  BY <1>4, <1>5, <1>6
<1> QED BY <1>3, <1>7 DEF p

-----------------------------------------------------------------------------
(* The rates, and the whole table                                          *)

LEMMA RatesTyped ==
  ASSUME NEW root, IsDocument(root), ComponentsOk(root), RatesOk(root), NEW y \in DOMAIN Rates(root)
  PROVE  /\ Components(root) # <<>> /\ IsRowYear(y)
         /\ IsLadder(Rates(root)[y], Width(Components(root)) + 1)
<1> DEFINE block == FieldOr(root, "rates", NoTable)
           text == CHOOSE k \in LadderYears(block) : YearOf[k] = y
           items == block[text].value
           ladder == [i \in DOMAIN items |-> ParseRatio(Literal(items[i].value)).value]
<1>1. y \in {YearOf[k] : k \in LadderYears(block)} /\ Rates(root)[y] = ladder
  BY DEF Rates
<1>2. text \in LadderYears(block) /\ text \in DOMAIN block /\ YearOf[text] = y
  BY <1>1 DEF LadderYears
<1>3. "rates" \in DOMAIN root /\ block = root["rates"].value /\ root["rates"].type = "table"
  <2>1. DOMAIN block # {} /\ DOMAIN NoTable = {}
    BY <1>2 DEF NoTable
  <2>2. "rates" \in DOMAIN root /\ block = root["rates"].value
    <3>1. block # NoTable
      BY <2>1
    <3> QED BY <3>1, Zenon DEF FieldOr
  <2>3. Optional(root, "rates", "table")
    BY Zenon DEF RatesOk
  <2> QED BY <2>2, <2>3, Zenon DEF Optional
<1> HIDE DEF block, text
<1>4. /\ Components(root) # <<>>
      /\ \A k \in LadderYears(block) :
           /\ YearOf[k] \in 1900 .. 2200 /\ block[k].type = "array"
           /\ Len(block[k].value) = Len(Components(root)) + 1
           /\ \A i \in DOMAIN block[k].value : RateOk(block[k].value[i])
  BY <1>3 DEF RatesOk, IsYearKey, YearInDomain
<1>5. IsValue(block[text])
  BY <1>2, <1>3 DEF IsDocument, IsTree4, Inside, IsTree3
<1>6. Len(items) \in Nat /\ DOMAIN items = 1 .. Len(items)
  BY <1>2, <1>4, <1>5 DEF IsValue
<1>7. Len(items) = Width(Components(root)) + 1 /\ \A i \in DOMAIN items : RateOk(items[i])
  BY <1>2, <1>4 DEF Width
<1> HIDE DEF items
<1>8. \A i \in DOMAIN items : IsRate(ParseRatio(Literal(items[i].value)).value)
  <2> SUFFICES ASSUME NEW item, RateOk(item) PROVE IsRate(ParseRatio(Literal(item.value)).value)
    BY <1>7
  <2>1. ParseRatio(Literal(item.value)).ok
    BY DEF RateOk
  <2>2. /\ ParseRatio(Literal(item.value)).value \in [num : Int64, den : Int64]
        /\ 0 < ParseRatio(Literal(item.value)).value.den
    BY <2>1, RatioTyped
  <2> QED BY <2>2 DEF RateOk, IsRate
<1>9. DOMAIN ladder = 1 .. Len(items) /\ ladder = [i \in DOMAIN ladder |-> ladder[i]]
      /\ \A i \in DOMAIN ladder : IsRate(ladder[i]) /\ ladder[i] \in [num : Int64, den : Int64]
  <2>1. \A r : IsRate(r) => r \in [num : Int64, den : Int64]
    BY DEF IsRate
  <2> QED BY <1>6, <1>8, <2>1
<1> HIDE DEF ladder
<1>10. ladder \in Seq([num : Int64, den : Int64]) /\ Len(ladder) = Len(items)
  <2>1. \A i \in DOMAIN ladder : ladder[i] \in [num : Int64, den : Int64]
    BY <1>9
  <2> DEFINE ratios == [num : Int64, den : Int64]
  <2> HIDE DEF ratios
  <2>2. \A i \in DOMAIN ladder : ladder[i] \in ratios
    BY <2>1 DEF ratios
  <2>3. ladder \in Seq(ratios) /\ Len(ladder) = Len(items)
    BY <1>6, <1>9, <2>2, Listed
  <2> QED BY <2>3 DEF ratios
<1>11. IsLadder(ladder, Width(Components(root)) + 1)
  <2> DEFINE width == Width(Components(root)) + 1
  <2> HIDE DEF width
  <2>1. Len(items) = width
    BY <1>7 DEF width
  <2>2. Len(ladder) = width /\ \A i \in 1 .. width : IsRate(ladder[i])
    BY <1>9, <1>10, <2>1
  <2>3. IsLadder(ladder, width)
    BY <1>10, <2>2 DEF IsLadder
  <2> QED BY <2>3 DEF width
<1>12. y \in 1900 .. 2200
  <2>1. \A k \in LadderYears(block) : YearOf[k] \in 1900 .. 2200
    BY <1>4
  <2> QED BY <1>2, <2>1
<1> QED BY <1>1, <1>4, <1>11, <1>12 DEF IsRowYear

LEMMA TableLoaded ==
  ASSUME NEW root, IsDocument(root), TableOk(root) PROVE LoadedTable(ParamTable(root))
<1> DEFINE width == Width(Components(root))
<1>1. ComponentsOk(root) /\ ValuesOk(root) /\ ProjectionOk(root) /\ RatesOk(root)
  BY DEF TableOk
<1>2. /\ ParamTable(root).components = Components(root) /\ ParamTable(root).values = Values(root)
      /\ ParamTable(root).rates = Rates(root) /\ ParamTable(root).projection = Projection(root)
  BY DEF ParamTable
<1> HIDE DEF IsDocument
<1>3. Components(root) \in Seq(STRING) /\ width \in Nat
  BY <1>1, ComponentsTyped
<1>4. DOMAIN Values(root) = Statuses
  BY <1>1 DEF ValuesOk, Keyed, Values
<1>5. \A k \in DOMAIN Values(root) : \A y \in DOMAIN Values(root)[k] :
        IsRowYear(y) /\ IsAmounts(Values(root)[k][y], width)
  BY <1>1, ValuesTyped
<1>6. \A y \in DOMAIN Rates(root) :
        Components(root) # <<>> /\ IsRowYear(y) /\ IsLadder(Rates(root)[y], width + 1)
  BY <1>1, RatesTyped
<1>7. LoadedProjection(Projection(root), width)
  <2> DEFINE p == Projection(root)
  <2>1. \A k \in DOMAIN p.baseValues : IsAmounts(p.baseValues[k], width)
    BY <1>1, BaseValuesTyped
  <2>2. \A k \in DOMAIN p.derived :
          LET r == p.derived[k].multiplier IN r \in [num : Int64, den : Int64] /\ 0 < r.num /\ 0 < r.den
    BY <1>1, DerivedTables
  <2>3. \A k \in DOMAIN p.rounding : IsRule(p.rounding[k])
    BY <1>1, RoundingTyped
  <2>4. p.rule = "index" =>
         /\ p.baseYear # 0 \/ p.baseYearByEdge # NoTable
         /\ \A k \in Statuses : Source(p, k) \in DOMAIN p.baseValues /\ Source(p, k) \in DOMAIN p.rounding
    BY <1>1, IndexedTyped
  <2> HIDE DEF p, width
  <2>5. LoadedProjection(p, width)
    BY <2>1, <2>2, <2>3, <2>4 DEF LoadedProjection
  <2> QED BY <2>5 DEF p
<1> HIDE DEF width
<1>8. Width(ParamTable(root).components) = width
  BY <1>2 DEF width
<1> QED BY <1>2, <1>3, <1>4, <1>5, <1>6, <1>7, <1>8 DEF LoadedTable

-----------------------------------------------------------------------------
(* The schedule in force                                                   *)

Served(v) ==
  \E i \in DOMAIN Builds :
    /\ VintageOk(Builds[i].tables, Builds[i].series)
    /\ v = Vintage(Builds[i].name, Builds[i].tables, Builds[i].series)

(* The table a vintage keeps under an id is that of a valid document.      *)
LEMMA TableOfAVintage ==
  ASSUME NEW v, Served(v), NEW id \in DOMAIN v.tables
  PROVE  \E i \in DOMAIN Builds : \E j \in DOMAIN Builds[i].tables :
           /\ VintageOk(Builds[i].tables, Builds[i].series)
           /\ v = Vintage(Builds[i].name, Builds[i].tables, Builds[i].series)
           /\ TableOk(Builds[i].tables[j]) /\ v.tables[id] = ParamTable(Builds[i].tables[j])
<1>1. PICK i \in DOMAIN Builds :
        /\ VintageOk(Builds[i].tables, Builds[i].series)
        /\ v = Vintage(Builds[i].name, Builds[i].tables, Builds[i].series)
  BY DEF Served
<1> DEFINE tables == Builds[i].tables
           root == CHOOSE t \in Elements(tables) : t["id"].value = id
<1>2. id \in {t["id"].value : t \in Elements(tables)} /\ v.tables[id] = ParamTable(root)
  BY <1>1 DEF Vintage
<1>3. root \in Elements(tables)
  BY <1>2
<1>4. PICK j \in DOMAIN tables : root = tables[j]
  BY <1>3 DEF Elements
<1>5. TableOk(tables[j])
  BY <1>1 DEF VintageOk
<1> QED BY <1>1, <1>2, <1>4, <1>5

LEMMA TablesLoaded ==
  ASSUME NEW v, Served(v), NEW id \in DOMAIN v.tables PROVE LoadedTable(v.tables[id])
<1>1. PICK i \in DOMAIN Builds : \E j \in DOMAIN Builds[i].tables :
        TableOk(Builds[i].tables[j]) /\ v.tables[id] = ParamTable(Builds[i].tables[j])
  BY TableOfAVintage
<1>2. PICK j \in DOMAIN Builds[i].tables :
        TableOk(Builds[i].tables[j]) /\ v.tables[id] = ParamTable(Builds[i].tables[j])
  BY <1>1
<1>3. IsDocument(Builds[i].tables[j])
  BY CalculationAssumption
<1> HIDE DEF IsDocument
<1>4. LoadedTable(ParamTable(Builds[i].tables[j]))
  BY <1>2, <1>3, TableLoaded
<1> QED BY <1>2, <1>4

LEMMA LatestRow ==
  ASSUME NEW rows, NEW year \in Int, \A y \in DOMAIN rows : IsRowYear(y), HasRow(rows, year)
  PROVE  /\ Latest(rows, year) \in DOMAIN rows /\ Latest(rows, year) <= year
         /\ \A z \in DOMAIN rows : z <= year => z <= Latest(rows, year)
<1> DEFINE early == {y \in DOMAIN rows : y <= year}
           ages == {2200 - y : y \in early}
<1>1. ages \in SUBSET Nat /\ ages # {}
  BY DEF IsRowYear, HasRow
<1>2. PICK a \in ages : \A b \in ages : a <= b
  BY <1>1, LeastElement
<1>3. PICK y \in early : a = 2200 - y
  BY <1>2
<1>4. ASSUME NEW z \in DOMAIN rows, z <= year PROVE z <= y
  <2>1. 2200 - z \in ages /\ z \in 1900 .. 2200 /\ y \in 1900 .. 2200
    BY <1>4 DEF IsRowYear
  <2>2. 2200 - y <= 2200 - z
    BY <1>2, <1>3, <2>1
  <2> QED BY <2>1, <2>2
<1>5. y \in DOMAIN rows /\ y <= year
  OBVIOUS
<1> HIDE DEF early, ages
<1>6. \E x \in DOMAIN rows : x <= year /\ \A z \in DOMAIN rows : z <= year => z <= x
  BY <1>4, <1>5
<1> QED BY <1>6 DEF Latest

(* The product of an amount and a ratio: the multiple the exact product is *)
(* rounded to, on the base it is added to.                                 *)
LEMMA ProductOf ==
  ASSUME NEW rule, IsRule(rule), NEW base \in Int, NEW r, r.num \in Int, r.den \in Int, 0 < r.den,
         MulRatio(rule, base, r).ok
  PROVE  LET exact == Exact(rule.basis, base, r.num, r.den)
         IN  /\ exact \in Int /\ RoundRational(rule, exact, r.den).ok
             /\ MulRatio(rule, base, r).value \in Int64
             /\ MulRatio(rule, base, r).value
                  = RoundRational(rule, exact, r.den).value + AddedBack(rule.basis, base)
<1> DEFINE exact == Exact(rule.basis, base, r.num, r.den)
           rounded == RoundRational(rule, exact, r.den)
           total == rounded.value + AddedBack(rule.basis, base)
<1>1. exact \in Int
  BY DEF Exact
<1>2. MulRatio(rule, base, r) =
        IF ~FitsWide(exact) THEN Err("Overflow")
        ELSE IF ~rounded.ok THEN rounded
        ELSE IF ~FitsWide(total) THEN Err("Overflow")
        ELSE Checked(total)
  BY DEF MulRatio
<1> HIDE DEF rounded, total
<1>3. rounded.ok /\ MulRatio(rule, base, r) = Checked(total)
  BY <1>2 DEF Err
<1>4. total \in Int64 /\ MulRatio(rule, base, r).value = total
  BY <1>3 DEF Checked, FitsInt, Ok, Err
<1> QED BY <1>1, <1>3, <1>4 DEF rounded, total

(* Rounding what is not negative gives nothing negative.                   *)
LEMMA RoundedNotNegative ==
  ASSUME NEW rule, IsRule(rule), NEW x \in Int, 0 <= x, NEW d \in Int, d > 0,
         RoundRational(rule, x, d).ok
  PROVE  RoundRational(rule, x, d).value \in Int /\ 0 <= RoundRational(rule, x, d).value
<1> DEFINE rounded == RoundRational(rule, x, d).value
           step == d * rule.increment
<1>1. rule.increment \in Int /\ 0 < rule.increment /\ rule.direction \in RoundingDirections
  BY DEF IsRule
<1>2. (\E k \in Int : rounded = k * rule.increment) /\ x - rounded * d < step
  BY <1>1, RoundsToANeighbour
<1> HIDE DEF rounded
<1>3. PICK k \in Int : rounded = k * rule.increment
  BY <1>2
<1>4. step \in Int /\ step > 0
  BY <1>1
<1>5. rounded * d = k * step
  BY <1>1, <1>3
<1> HIDE DEF step
<1>6. (-1) * step = -step /\ k * step \in Int
  BY <1>4
<1>7. (-1) * step < k * step
  BY <1>2, <1>4, <1>5, <1>6
<1>8. -1 < k
  BY <1>4, <1>7, Cancelling
<1>9. 0 * rule.increment <= k * rule.increment
  BY <1>1, <1>8, Scaling
<1> QED BY <1>1, <1>3, <1>9 DEF rounded

LEMMA FactorTyped ==
  ASSUME NEW series, NEW y, NEW z, Factor(series, y, z).ok
  PROVE  LET r == Factor(series, y, z).value IN r.num \in Int /\ r.den \in Int /\ 0 < r.den
<1> DEFINE num == series.sums[y] \div Gcd[<<series.sums[y], series.sums[z]>>]
           den == series.sums[z] \div Gcd[<<series.sums[y], series.sums[z]>>]
<1>1. Factor(series, y, z) = IF series.sums[z] <= 0 \/ ~FitsInt(num) \/ ~FitsInt(den) THEN Err("None")
                             ELSE NewRatio(num, den)
  BY DEF Factor
<1> HIDE DEF num, den
<1>2. Factor(series, y, z) = NewRatio(num, den) /\ FitsInt(num) /\ FitsInt(den)
  BY <1>1 DEF Err
<1>3. Factor(series, y, z).value = [num |-> num, den |-> den] /\ den # 0 /\ ~(den < 0)
  BY <1>2 DEF NewRatio, Err, Ok
<1> QED BY <1>2, <1>3, MoneyAssumption DEF FitsInt, Int64, MinInt

(* An amount that is projected is not below zero, nor below its base.      *)
LEMMA StepLoaded ==
  ASSUME NEW series, NEW base \in Int, 0 <= base, NEW baseYear, NEW year, NEW rule, IsRule(rule),
         Step(series, base, baseYear, year, rule).ok
  PROVE  LET step == Step(series, base, baseYear, year, rule)
         IN  step.value \in Int64 /\ 0 <= step.value
<1> DEFINE factor == Factor(series, year, baseYear)
           r == factor.value
           exact == Exact(rule.basis, base, r.num, r.den)
           rounded == RoundRational(rule, exact, r.den)
<1>1. /\ Step(series, base, baseYear, year, rule) = MulRatio(rule, base, r)
      /\ factor.ok /\ ~(r.num < r.den)
  BY DEF Step, Err
<1>2. r.num \in Int /\ r.den \in Int /\ 0 < r.den
  BY <1>1, FactorTyped
<1> HIDE DEF factor, r
<1>3. MulRatio(rule, base, r).ok
  BY <1>1
<1>4. /\ exact \in Int /\ rounded.ok /\ MulRatio(rule, base, r).value \in Int64
      /\ MulRatio(rule, base, r).value = rounded.value + AddedBack(rule.basis, base)
  BY <1>2, <1>3, ProductOf
<1>5. 0 <= exact
  <2>1. r.num - r.den \in Int /\ 0 <= r.num - r.den /\ 0 <= r.num
    BY <1>1, <1>2
  <2>2. 0 * base <= r.num * base /\ 0 * base <= (r.num - r.den) * base
    BY <2>1, <1>2, Scaling
  <2> QED BY <2>1, <2>2, <1>2 DEF Exact
<1> HIDE DEF exact
<1>6. rounded.value \in Int /\ 0 <= rounded.value
  BY <1>2, <1>4, <1>5, RoundedNotNegative
<1> HIDE DEF rounded
<1>7. AddedBack(rule.basis, base) \in Int /\ 0 <= AddedBack(rule.basis, base)
  BY DEF AddedBack
<1> QED BY <1>1, <1>4, <1>6, <1>7

LEMMA AmountsListed ==
  ASSUME NEW width, NEW a, IsAmounts(a, width), NEW f, DOMAIN f = DOMAIN a,
         \A i \in DOMAIN f : f[i].value \in Int64 /\ 0 <= f[i].value
  PROVE  IsAmounts([i \in DOMAIN f |-> f[i].value], width)
<1> DEFINE g == [i \in DOMAIN f |-> f[i].value]
<1>1. a \in Seq(Int64) /\ Len(a) = width
  BY DEF IsAmounts
<1>2. width \in Nat /\ DOMAIN g = 1 .. width /\ g = [i \in DOMAIN g |-> g[i]]
      /\ \A i \in DOMAIN g : g[i] \in Int64 /\ 0 <= g[i]
  BY <1>1
<1> HIDE DEF g
<1>3. g \in Seq(Int64) /\ Len(g) = width
  BY <1>2, Listed
<1> QED BY <1>2, <1>3 DEF IsAmounts, g

LEMMA AmountValue == \A a, o : Amount(a, o).ok /\ Amount(a, o).value.amounts = a
BY DEF Amount, Ok

LEMMA BaseLoaded ==
  ASSUME NEW v, NEW t, NEW width, LoadedProjection(t.projection, width), NEW year,
         NEW key \in DOMAIN t.projection.rounding
  PROVE  LET base == ProjectBase(v, t, year, key)
         IN  IF base.ok THEN IsAmounts(base.value.amounts, width) ELSE base.error = "Params"
<1> DEFINE p == t.projection
           bases == p.baseValues[key]
           years == BaseYearsFor(p, year, Len(bases))
           steps == [i \in DOMAIN bases |->
                       Step(v.series[p.indexSeries], bases[i], years.value[i],
                            year - p.lagYears, p.rounding[key])]
           projected == [i \in DOMAIN steps |-> steps[i].value]
           result == ProjectBase(v, t, year, key)
<1>1. result =
        IF key \notin DOMAIN p.baseValues THEN Err("Params")
        ELSE IF p.firstAdjustedYear # 0 /\ year < p.firstAdjustedYear THEN Amount(bases, "unadjustedBase")
        ELSE IF ~years.ok THEN years
        ELSE IF \E i \in DOMAIN steps : ~steps[i].ok THEN Err("Params")
        ELSE Amount(projected, "projected")
  BY DEF ProjectBase
<1>2. IsRule(p.rounding[key])
  BY DEF LoadedProjection
<1>3. key \in DOMAIN p.baseValues => IsAmounts(bases, width)
  BY DEF LoadedProjection
<1>4. ASSUME key \in DOMAIN p.baseValues, \A i \in DOMAIN steps : steps[i].ok
      PROVE  IsAmounts(projected, width)
  <2>1. \A i \in DOMAIN bases :
          steps[i] = Step(v.series[p.indexSeries], bases[i], years.value[i],
                          year - p.lagYears, p.rounding[key])
    OBVIOUS
  <2>2. DOMAIN steps = DOMAIN bases
    OBVIOUS
  <2>3. \A i \in DOMAIN bases : bases[i] \in Int /\ 0 <= bases[i]
    <3> HIDE DEF bases
    <3>1. bases \in Seq(Int64) /\ Len(bases) = width /\ \A i \in 1 .. width : 0 <= bases[i]
      BY <1>3, <1>4 DEF IsAmounts
    <3> QED BY <3>1, MoneyAssumption DEF Int64, MinInt
  <2>4. \A i \in DOMAIN steps : steps[i].value \in Int64 /\ 0 <= steps[i].value
    <3> HIDE DEF steps, bases, years
    <3>1. ASSUME NEW i \in DOMAIN bases, steps[i].ok
          PROVE  steps[i].value \in Int64 /\ 0 <= steps[i].value
      <4> DEFINE series == v.series[p.indexSeries]
                 base == bases[i]
                 baseYear == years.value[i]
                 rule == p.rounding[key]
                 at == year - p.lagYears
      <4>1. base \in Int /\ 0 <= base /\ IsRule(rule)
        BY <1>2, <2>3
      <4>2. steps[i] = Step(series, base, baseYear, at, rule)
        BY <2>1
      <4> HIDE DEF series, base, baseYear, at, rule
      <4>3. Step(series, base, baseYear, at, rule).value \in Int64
            /\ 0 <= Step(series, base, baseYear, at, rule).value
        BY <3>1, <4>1, <4>2, StepLoaded
      <4> QED BY <4>2, <4>3
    <3> QED BY <1>4, <2>2, <3>1
  <2> HIDE DEF steps, bases
  <2> QED BY <1>3, <1>4, <2>2, <2>4, AmountsListed
<1>5. ~years.ok => years.error = "Params"
  BY DEF BaseYearsFor, Ok, Err
<1> HIDE DEF bases, years, steps, projected, result
<1>6. IF result.ok THEN IsAmounts(result.value.amounts, width) ELSE result.error = "Params"
  BY <1>1, <1>3, <1>4, <1>5, AmountValue DEF Err
<1> QED BY <1>6 DEF result

(* A multiple of what is not negative, with no remainder.                  *)
LEMMA MultipleTyped ==
  ASSUME NEW amount \in Int, 0 <= amount, NEW r \in [num : Int64, den : Int64], 0 < r.num, 0 < r.den,
         MultiplyExact(amount, r).ok
  PROVE  MultiplyExact(amount, r).value \in Int64 /\ 0 <= MultiplyExact(amount, r).value
<1> DEFINE q == (amount * r.num) \div r.den
<1>1. MultiplyExact(amount, r) = Checked(q)
  BY DEF MultiplyExact, Err
<1>2. r.num \in Int /\ r.den \in Int
  BY MoneyAssumption DEF Int64, MinInt
<1>3. amount * r.num \in Int /\ 0 <= amount * r.num
  <2>1. amount * 0 <= amount * r.num
    BY <1>2, Scaling
  <2> QED BY <2>1, <1>2
<1>4. q \in Int /\ 0 <= q
  BY <1>2, <1>3
<1> HIDE DEF q
<1> QED BY <1>1, <1>4 DEF Checked, FitsInt, Ok, Err

LEMMA DerivedLoaded ==
  ASSUME NEW source, NEW width, NEW r \in [num : Int64, den : Int64], 0 < r.num, 0 < r.den,
         IF source.ok THEN IsAmounts(source.value.amounts, width) ELSE source.error = "Params"
  PROVE  LET derived == ProjectDerived(source, r)
         IN  IF derived.ok THEN IsAmounts(derived.value.amounts, width) ELSE derived.error = "Params"
<1> DEFINE amounts == source.value.amounts
           products == [i \in DOMAIN amounts |-> MultiplyExact(amounts[i], r)]
           values == [i \in DOMAIN products |-> products[i].value]
           derived == ProjectDerived(source, r)
<1>1. derived =
        IF ~source.ok THEN source
        ELSE IF \E i \in DOMAIN products : ~products[i].ok THEN Err("Params")
        ELSE Amount(values, source.value.origin)
  BY DEF ProjectDerived
<1>2. ASSUME source.ok, \A i \in DOMAIN products : products[i].ok PROVE IsAmounts(values, width)
  <2>1. IsAmounts(amounts, width)
    BY <1>2
  <2>2. DOMAIN products = DOMAIN amounts /\ \A i \in DOMAIN amounts : products[i] = MultiplyExact(amounts[i], r)
    OBVIOUS
  <2> HIDE DEF amounts, products
  <2>3. \A i \in DOMAIN amounts : amounts[i] \in Int /\ 0 <= amounts[i]
    <3>1. amounts \in Seq(Int64) /\ Len(amounts) = width /\ \A i \in 1 .. width : 0 <= amounts[i]
      BY <2>1 DEF IsAmounts
    <3> QED BY <3>1, MoneyAssumption DEF Int64, MinInt
  <2>4. \A i \in DOMAIN products : products[i].value \in Int64 /\ 0 <= products[i].value
    BY <1>2, <2>2, <2>3, MultipleTyped
  <2> QED BY <2>1, <2>2, <2>4, AmountsListed
<1> HIDE DEF products, values, derived
<1>3. IF derived.ok THEN IsAmounts(derived.value.amounts, width) ELSE derived.error = "Params"
  BY <1>1, <1>2, AmountValue DEF Err
<1> QED BY <1>3 DEF derived

LEMMA ValueLoaded ==
  ASSUME NEW v, Served(v), NEW id, NEW year \in Int, NEW key
  PROVE  LET value == ValueInForce(v, id, year, key)
         IN  IF value.ok THEN /\ id \in DOMAIN v.tables /\ key \in Statuses
                              /\ IsAmounts(value.value.amounts, Width(v.tables[id].components))
             ELSE value.error = "Params"
<1> DEFINE t == v.tables[id]
           p == t.projection
           width == Width(t.components)
           value == ValueInForce(v, id, year, key)
           Good(x) == IF x.ok THEN IsAmounts(x.value.amounts, width) ELSE x.error = "Params"
<1>1. CASE id \notin DOMAIN v.tables \/ key \notin DOMAIN t.values
  BY <1>1 DEF ValueInForce, Err
<1>2. CASE id \in DOMAIN v.tables /\ key \in DOMAIN t.values
  <2>1. LoadedTable(t)
    BY <1>2, TablesLoaded
  <2> HIDE DEF t
  <2>2. /\ key \in Statuses /\ LoadedProjection(p, width)
        /\ \A y \in DOMAIN t.values[key] : IsRowYear(y) /\ IsAmounts(t.values[key][y], width)
    BY <1>2, <2>1 DEF LoadedTable
  <2>3. value = IF Published(t, year, key) THEN Amount(t.values[key][year], "published")
                ELSE Project(v, id, year, key)
    BY <1>2 DEF ValueInForce, t
  <2>4. Project(v, id, year, key) =
          IF p.rule = "index" THEN ProjectIndex(v, t, year, key)
          ELSE IF p.rule = "flat" /\ HasRow(t.values[key], year)
               THEN Amount(t.values[key][Latest(t.values[key], year)], "carriedForward")
          ELSE Err("Params")
    BY <1>2 DEF Project, t
  <2> HIDE DEF value, width
  <2>5. ASSUME Published(t, year, key) PROVE Good(value)
    BY <2>2, <2>3, <2>5, AmountValue DEF Published
  <2>6. ASSUME p.rule = "index" PROVE Good(ProjectIndex(v, t, year, key))
    <3>1. Source(p, key) \in DOMAIN p.rounding
      BY <2>2, <2>6 DEF LoadedProjection
    <3> DEFINE source == ProjectBase(v, t, year, Source(p, key))
    <3>2. Good(source)
      BY <2>2, <3>1, BaseLoaded
    <3> HIDE DEF source
    <3>3. CASE key \in DOMAIN p.derived
      <4> DEFINE r == p.derived[key].multiplier
      <4>1. r \in [num : Int64, den : Int64] /\ 0 < r.num /\ 0 < r.den
        BY <2>2, <3>3 DEF LoadedProjection
      <4>2. ProjectIndex(v, t, year, key) = ProjectDerived(source, r)
        BY <3>3 DEF ProjectIndex, Source, source
      <4> HIDE DEF r
      <4>3. Good(ProjectDerived(source, r))
        BY <3>2, <4>1, DerivedLoaded
      <4> QED BY <4>2, <4>3
    <3>4. CASE key \notin DOMAIN p.derived
      <4>1. ProjectIndex(v, t, year, key) = source
        BY <3>4 DEF ProjectIndex, Source, source
      <4> QED BY <3>2, <4>1
    <3> QED BY <3>3, <3>4
  <2>7. ASSUME HasRow(t.values[key], year)
        PROVE  IsAmounts(t.values[key][Latest(t.values[key], year)], width)
    <3>1. Latest(t.values[key], year) \in DOMAIN t.values[key]
      BY <2>2, <2>7, LatestRow
    <3> QED BY <2>2, <3>1
  <2>8. ASSUME ~Published(t, year, key) PROVE Good(value)
    <3>1. Good(Project(v, id, year, key))
      <4> HIDE DEF p
      <4>1. CASE p.rule = "index"
        BY <4>1, <2>4, <2>6
      <4>2. CASE p.rule # "index"
        BY <4>2, <2>4, <2>7, AmountValue DEF Err
      <4> QED BY <4>1, <4>2
    <3> QED BY <2>3, <2>8, <3>1
  <2>9. Good(value)
    BY <2>5, <2>8
  <2> QED BY <2>2, <2>9, <1>2 DEF value, width, t
<1> QED BY <1>1, <1>2

LEMMA RatesLoaded ==
  ASSUME NEW v, Served(v), NEW id, NEW year \in Int
  PROVE  LET rates == RatesInForce(v, id, year)
             t == v.tables[id]
         IN  IF rates.ok THEN /\ id \in DOMAIN v.tables /\ t.components # <<>>
                              /\ IsLadder(rates.value, Width(t.components) + 1)
             ELSE rates.error = "Params"
<1> DEFINE rates == RatesInForce(v, id, year)
           t == v.tables[id]
           rows == t.rates
<1>1. CASE id \in DOMAIN v.tables /\ HasRow(rows, year)
  <2>1. rates = Ok(rows[Latest(rows, year)])
    BY <1>1 DEF RatesInForce
  <2>2. LoadedTable(t)
    BY <1>1, TablesLoaded
  <2> HIDE DEF rates, t
  <2>3. \A y \in DOMAIN rows :
          t.components # <<>> /\ IsRowYear(y) /\ IsLadder(rows[y], Width(t.components) + 1)
    BY <2>2 DEF LoadedTable
  <2>4. Latest(rows, year) \in DOMAIN rows
    BY <1>1, <2>3, LatestRow
  <2>5. t.components # <<>> /\ IsLadder(rows[Latest(rows, year)], Width(t.components) + 1)
    BY <2>3, <2>4
  <2> QED BY <1>1, <2>1, <2>5 DEF Ok, rates, t
<1>2. CASE ~(id \in DOMAIN v.tables /\ HasRow(rows, year))
  BY <1>2 DEF RatesInForce, Err
<1> QED BY <1>1, <1>2

(* The schedule in force is one the constructor accepts: typed, and for    *)
(* the year and the status asked for.                                      *)
Schedulable(v, year, status) ==
  LET t == InForce(v, year, status).value
  IN  /\ t \in Schedules /\ IsSchedule(t.tops, t.edgeNames, t.rates)
      /\ InForce(v, year, status) = Ok(t) /\ t.year = year /\ t.status = status
      /\ t.edgeNames = v.tables[OrdinaryBrackets].components /\ status \in Statuses

LEMMA ScheduleTyped ==
  ASSUME NEW v, Served(v), NEW year \in Int, NEW status \in STRING, InForce(v, year, status).ok
  PROVE  Schedulable(v, year, status)
<1> DEFINE value == ValueInForce(v, OrdinaryBrackets, year, status)
           rates == RatesInForce(v, OrdinaryBrackets, year)
           names == v.tables[OrdinaryBrackets].components
           tops == value.value.amounts
           parts == FromParts(year, status, tops, names, rates.value)
<1>1. value.ok /\ rates.ok /\ InForce(v, year, status) = parts /\ parts.ok
  <2>1. InForce(v, year, status) =
          IF ~value.ok THEN value ELSE IF ~rates.ok THEN rates ELSE parts
    BY DEF InForce
  <2> HIDE DEF value, rates, parts
  <2> QED BY <2>1
<1>2. tops \in Seq(Int64)
  <2>1. IsAmounts(tops, Width(names))
    BY <1>1, ValueLoaded
  <2> HIDE DEF tops, names
  <2> QED BY <2>1 DEF IsAmounts
<1>3. rates.value \in Seq([num : Int64, den : Int64]) /\ OrdinaryBrackets \in DOMAIN v.tables
  <2>1. IsLadder(rates.value, Width(names) + 1) /\ OrdinaryBrackets \in DOMAIN v.tables
    BY <1>1, RatesLoaded
  <2> HIDE DEF rates, names
  <2> QED BY <2>1 DEF IsLadder
<1>4. names \in Seq(STRING)
  <2>1. LoadedTable(v.tables[OrdinaryBrackets])
    BY <1>3, TablesLoaded
  <2> QED BY <2>1 DEF LoadedTable
<1> HIDE DEF value, rates, names, tops
<1> DEFINE t == [year |-> year, status |-> status, tops |-> tops, edgeNames |-> names,
                 rates |-> rates.value]
<1>5. IsSchedule(tops, names, rates.value) /\ parts = Ok(t)
  BY <1>1 DEF FromParts, Err
<1>6. InForce(v, year, status).value = t /\ InForce(v, year, status) = Ok(t)
  BY <1>1, <1>5 DEF Ok
<1>7. t \in Schedules
  <2> HIDE DEF parts
  <2> QED BY <1>2, <1>3, <1>4 DEF Schedules
<1>8. t.edgeNames = v.tables[OrdinaryBrackets].components
  BY DEF names
<1>9. status \in Statuses
  <2>1. ValueInForce(v, OrdinaryBrackets, year, status).ok
    BY <1>1 DEF value
  <2> QED BY <2>1, ValueLoaded
<1> QED BY <1>5, <1>6, <1>7, <1>8, <1>9 DEF Schedulable
(* What keeps a request from a schedule: a table or a row that is missing, *)
(* or edges that do not increase.                                          *)
Flat(amounts) == \E i \in 1 .. Len(amounts) - 1 : amounts[i] >= amounts[i + 1]

LEMMA NotSchedulable ==
  ASSUME NEW v, Served(v), NEW year \in Int, NEW status \in STRING, ~InForce(v, year, status).ok
  PROVE  LET value == ValueInForce(v, OrdinaryBrackets, year, status)
             e == InForce(v, year, status).error
         IN  e = "Params" \/ (e = "MalformedTable" /\ value.ok /\ Flat(value.value.amounts))
<1> DEFINE value == ValueInForce(v, OrdinaryBrackets, year, status)
           rates == RatesInForce(v, OrdinaryBrackets, year)
           names == v.tables[OrdinaryBrackets].components
           tops == value.value.amounts
           parts == FromParts(year, status, tops, names, rates.value)
           width == Width(names)
<1>1. InForce(v, year, status) =
        IF ~value.ok THEN value ELSE IF ~rates.ok THEN rates ELSE parts
  BY DEF InForce
<1>2. ~value.ok => value.error = "Params"
  BY ValueLoaded
<1>3. ~rates.ok => rates.error = "Params"
  BY RatesLoaded
<1>4. ASSUME value.ok, rates.ok PROVE parts.ok \/ (parts.error = "MalformedTable" /\ Flat(tops))
  <2>1. IsAmounts(tops, width)
    BY <1>4, ValueLoaded
  <2>2. IsLadder(rates.value, width + 1) /\ OrdinaryBrackets \in DOMAIN v.tables /\ names # <<>>
    BY <1>4, RatesLoaded
  <2>3. width = Len(names)
    BY <2>2 DEF Width
  <2>4. Len(names) \in Nat
    <3>1. LoadedTable(v.tables[OrdinaryBrackets])
      BY <2>2, TablesLoaded
    <3>2. names \in Seq(STRING)
      BY <3>1 DEF LoadedTable
    <3> QED BY <3>2
  <2> HIDE DEF tops, names, rates, value, width
  <2>5. tops \in Seq(Int64) /\ Len(tops) = width /\ \A i \in 1 .. width : tops[i] \in Int /\ 0 <= tops[i]
    <3>1. \A i \in 1 .. Len(tops) : tops[i] \in Int64
      BY <2>1 DEF IsAmounts
    <3>2. \A i \in Int64 : i \in Int
      BY MaxWideInt DEF Int64, MinInt
    <3> QED BY <2>1, <3>1, <3>2 DEF IsAmounts
  <2>6. /\ Len(rates.value) = width + 1
        /\ \A i \in DOMAIN rates.value :
             /\ rates.value[i].den > 0
             /\ 0 <= rates.value[i].num /\ rates.value[i].num <= rates.value[i].den
    <3>1. /\ DOMAIN rates.value = 1 .. width + 1 /\ Len(rates.value) = width + 1
          /\ \A i \in 1 .. width + 1 : IsRate(rates.value[i])
      BY <2>2 DEF IsLadder
    <3>2. \A i \in 1 .. width + 1 : rates.value[i].den \in Int
      <4>1. \A i \in 1 .. width + 1 : rates.value[i] \in [num : Int64, den : Int64]
        BY <3>1 DEF IsRate
      <4>2. \A i \in Int64 : i \in Int
        BY MaxWideInt DEF Int64, MinInt
      <4> QED BY <4>1, <4>2
    <3> QED BY <3>1, <3>2 DEF IsRate
  <2>7. ASSUME ~Flat(tops) PROVE IsSchedule(tops, names, rates.value)
    <3>1. \A i \in 1 .. Len(tops) - 1 : tops[i] < tops[i + 1]
      BY <2>3, <2>4, <2>5, <2>7 DEF Flat
    <3>2. Len(tops) > 0 => tops[1] >= 0
      BY <2>3, <2>4, <2>5
    <3> QED BY <2>3, <2>4, <2>5, <2>6, <3>1, <3>2 DEF IsSchedule
  <2> QED BY <2>7 DEF FromParts, Ok, Err, parts
<1> HIDE DEF value, rates, parts, tops
<1>5. InForce(v, year, status).error = "Params"
        \/ (InForce(v, year, status).error = "MalformedTable" /\ value.ok /\ Flat(tops))
  BY <1>1, <1>2, <1>3, <1>4
<1> QED BY <1>5 DEF value, tops

-----------------------------------------------------------------------------
(* The inductive invariant                                                 *)

\* A worksheet was computed, to its end, from the schedule in force for its request
Answered(a) ==
  \E t, total :
    /\ InForce(vintage, a.request.year, a.request.status) = Ok(t)
    /\ Complete(t, a.request.income, total, a.lines)
    /\ a.tax = CheckedRound(WholeDollar, total).value /\ a.root = Tax

JobGood ==
  /\ phase = "serving" /\ job.year \in Int /\ job.status \in STRING
  /\ InForce(vintage, job.year, job.status) = Ok(table) /\ income = job.income

CalcInv ==
  /\ SheetInv
  /\ phase = "serving" => Served(vintage)
  /\ phase = "stopped" => job = None /\ answer = None /\ last = None
  /\ job # None => JobGood
  /\ Worksheet => Answered(answer)
  /\ OnlyKnownDefects
  /\ last # None => Answered(last)

LEMMA CalcStart == Init => CalcInv
BY SheetStart DEF Init, CalcInv, Worksheet, OnlyKnownDefects

LEMMA BindKeeps ==
  ASSUME CalcInv, NEW i \in DOMAIN Builds, Bind(Builds[i]) PROVE CalcInv'
<1> DEFINE parsed == ParseVintage(Builds[i].name, Builds[i].tables, Builds[i].series)
<1>1. /\ phase = "stopped" /\ job = None /\ answer = None /\ last = None
      /\ job' = None /\ answer' = None /\ last' = None /\ UNCHANGED worksheet
  BY DEF Bind, CalcInv
<1>2. SheetInv'
  BY <1>1, SheetKept DEF CalcInv
<1>3. phase' = "serving" => Served(vintage')
  <2> SUFFICES ASSUME phase' = "serving" PROVE Served(vintage')
    OBVIOUS
  <2>1. parsed.ok /\ vintage' = parsed.value
    BY DEF Bind
  <2>2. /\ VintageOk(Builds[i].tables, Builds[i].series)
        /\ vintage' = Vintage(Builds[i].name, Builds[i].tables, Builds[i].series)
    BY <2>1 DEF ParseVintage, Ok, Err
  <2> QED BY <2>2 DEF Served
<1>4. phase' \in {"serving", "refused"}
  BY DEF Bind
<1> QED BY <1>1, <1>2, <1>3, <1>4 DEF CalcInv, Worksheet, OnlyKnownDefects

(* What was answered stays so while the vintage does.                      *)
LEMMA RememberedIsAnswered ==
  ASSUME CalcInv, UNCHANGED vintage, last' = Remembered, last' # None
  PROVE  Answered(last)'
<1>1. (Worksheet /\ last' = answer) \/ (last' = last /\ last # None)
  BY DEF Remembered, Worksheet
<1>2. CASE Worksheet /\ last' = answer
  BY <1>2 DEF CalcInv, Answered
<1>3. CASE last' = last /\ last # None
  BY <1>3 DEF CalcInv, Answered
<1> QED BY <1>1, <1>2, <1>3

\* What the loader lets through: a name that is no identifier, or edges that do not increase
Known ==
  LET t == vintage.tables[OrdinaryBrackets]
  IN  \/ \E i \in DOMAIN t.components : ~ValidId(t.components[i], Mixed, TRUE)
      \/ \E request \in Requests :
           LET value == ValueInForce(vintage, OrdinaryBrackets, request.year, request.status)
           IN  value.ok /\ Flat(value.value.amounts)

(* An answer that is no worksheet: a refusal, which hides a defect of the  *)
(* build or not, or a list.                                                *)
LEMMA OtherReply ==
  ASSUME CalcInv, NEW a, Reply(a), a.kind # "worksheet", phase # "stopped", SheetInv',
         UNCHANGED <<phase, vintage>>, a.kind = "error" /\ a.event => Known
  PROVE  CalcInv'
<1>1. answer' = a /\ job' = None /\ last' = Remembered
  BY DEF Reply
<1>2. ~Worksheet'
  BY <1>1 DEF Worksheet
<1>3. last' # None => Answered(last)'
  BY <1>1, RememberedIsAnswered
<1>4. OnlyKnownDefects'
  BY <1>1 DEF Known, Flat, OnlyKnownDefects
<1> QED BY <1>1, <1>2, <1>3, <1>4 DEF CalcInv

LEMMA ComputeKeeps ==
  ASSUME CalcInv, NEW kind, NEW request \in Requests, Compute(kind, request)
  PROVE  CalcInv' /\ [WorksheetNext]_worksheet
<1> DEFINE t == InForce(vintage, request.year, request.status)
<1>1. phase = "serving" /\ Served(vintage) /\ UNCHANGED <<phase, vintage>>
  BY DEF Compute, CalcInv
<1>2. /\ request.year \in Int /\ request.status \in STRING /\ request.income \in Int
      /\ MaxTaxableIncome \in 0 .. MaxInt /\ MaxInt \in Nat
  BY CalculationAssumption, MoneyAssumption
<1>3. /\ \A e : Failure(e).kind = "error" /\ Failure("Params").event = FALSE
      /\ Refusal("SCHEDULE_INPUT_INVALID", FALSE).kind = "error"
      /\ Refusal("SCHEDULE_INPUT_INVALID", FALSE).event = FALSE
  BY DEF Failure, Refusal
<1> HIDE DEF t
<1>4. CASE request.income \notin 0 .. MaxTaxableIncome
  <2>1. Reply(Refusal("SCHEDULE_INPUT_INVALID", FALSE)) /\ UNCHANGED worksheet
    BY <1>4 DEF Compute
  <2>2. SheetInv'
    BY <2>1, SheetKept DEF CalcInv
  <2> QED BY <1>1, <1>3, <2>1, <2>2, OtherReply
<1>5. CASE request.income \in 0 .. MaxTaxableIncome /\ ~t.ok
  <2>1. Reply(Failure(t.error)) /\ UNCHANGED worksheet
    BY <1>5 DEF Compute, t
  <2>2. SheetInv'
    BY <2>1, SheetKept DEF CalcInv
  <2>3. t.error # "Params" => Known
    <3> DEFINE value == ValueInForce(vintage, OrdinaryBrackets, request.year, request.status)
    <3>1. t.error = "Params" \/ (value.ok /\ Flat(value.value.amounts))
      BY <1>1, <1>2, <1>5, NotSchedulable DEF t
    <3> HIDE DEF value
    <3> QED BY <3>1 DEF Known, value
  <2> QED BY <1>1, <1>3, <2>1, <2>2, <2>3, OtherReply
<1>6. CASE request.income \in 0 .. MaxTaxableIncome /\ t.ok
  <2>1. /\ Begin(t.value, request.income) /\ answer' = None /\ last' = Remembered
        /\ job' = [kind |-> kind, year |-> request.year, status |-> request.status,
                   income |-> request.income]
    BY <1>6 DEF Compute, t
  <2>2. /\ t.value \in Schedules /\ IsSchedule(t.value.tops, t.value.edgeNames, t.value.rates)
        /\ t = Ok(t.value)
    <3>1. Schedulable(vintage, request.year, request.status)
      BY <1>1, <1>2, <1>6, ScheduleTyped DEF t
    <3> QED BY <3>1 DEF Schedulable, t
  <2>3. request.income \in Int64
    BY <1>2, <1>6 DEF Int64, MinInt
  <2>4. AnyBegin
    <3>1. table' = t.value /\ income' = request.income
      BY <2>1 DEF Begin
    <3> QED BY <2>1, <2>2, <2>3, <3>1 DEF AnyBegin
  <2>5. WorksheetNext /\ SheetInv'
    BY <2>4, SheetKept DEF CalcInv, WorksheetNext
  <2>6. JobGood'
    <3>1. /\ job'.year = request.year /\ job'.status = request.status /\ job'.income = request.income
          /\ table' = t.value /\ income' = request.income
      BY <2>1 DEF Begin
    <3>2. InForce(vintage', job'.year, job'.status) = Ok(table')
      BY <1>1, <2>2, <3>1 DEF t
    <3> QED BY <1>1, <1>2, <3>1, <3>2 DEF JobGood
  <2>7. last' # None => Answered(last)'
    BY <1>1, <2>1, RememberedIsAnswered
  <2> QED BY <1>1, <2>1, <2>5, <2>6, <2>7 DEF CalcInv, Worksheet, OnlyKnownDefects
<1> QED BY <1>4, <1>5, <1>6 DEF worksheet

(* The steps of the computation change nothing of the server.              *)
LEMMA WorkKeeps ==
  ASSUME CalcInv, Bracket \/ Total, UNCHANGED server PROVE CalcInv'
<1>1. SheetInv'
  BY SheetKept DEF CalcInv, WorksheetNext
<1>2. UNCHANGED <<table, income, phase, vintage, job, answer, last>>
  BY DEF Bracket, Total, Fail, server
<1>3. Worksheet' => Answered(answer)'
  BY <1>2 DEF CalcInv, Worksheet, Answered
<1>4. last' # None => Answered(last)'
  BY <1>2 DEF CalcInv, Answered
<1>5. job' # None => JobGood'
  BY <1>2 DEF CalcInv, JobGood
<1>6. OnlyKnownDefects'
  BY <1>2 DEF CalcInv, OnlyKnownDefects
<1> QED BY <1>1, <1>2, <1>3, <1>4, <1>5, <1>6 DEF CalcInv

(* A worksheet that stopped at an identifier stopped at a name of the      *)
(* table: the id of the table and the statuses are identifiers.            *)
LEMMA FaultIsKnown ==
  ASSUME CalcInv, JobGood, FaultyName(table) PROVE Known
<1> DEFINE names == vintage.tables[OrdinaryBrackets].components
<1>1. Schedulable(vintage, job.year, job.status) /\ InForce(vintage, job.year, job.status) = Ok(table)
  <2>1. /\ Served(vintage) /\ job.year \in Int /\ job.status \in STRING
        /\ InForce(vintage, job.year, job.status) = Ok(table)
    BY DEF CalcInv, JobGood
  <2>2. InForce(vintage, job.year, job.status).ok
    BY <2>1 DEF Ok
  <2> QED BY <2>1, <2>2, ScheduleTyped
<1>2. /\ table \in Schedules /\ IsSchedule(table.tops, table.edgeNames, table.rates)
      /\ table.edgeNames = names /\ table.status \in Statuses
  BY <1>1 DEF Schedulable, Ok
<1>3. names \in Seq(STRING) /\ Len(names) = Len(table.tops)
  BY <1>2 DEF Schedules, IsSchedule
<1>4. PICK b \in 1 .. Len(table.tops) : UnfitName(table, b)
  BY DEF FaultyName
<1>5. ~ValidId(table.edgeNames[b], Mixed, TRUE)
  BY <1>2, <1>4, CalculationAssumption DEF UnfitName
<1>6. b \in DOMAIN names /\ ~ValidId(names[b], Mixed, TRUE)
  <2> HIDE DEF names
  <2>1. DOMAIN names = 1 .. Len(table.tops)
    BY <1>3
  <2> QED BY <1>2, <1>5, <2>1
<1> QED BY <1>6 DEF Known

LEMMA FinishKeeps ==
  ASSUME CalcInv, Finish PROVE CalcInv'
<1>1. /\ Return /\ JobGood /\ UNCHANGED <<phase, vintage>> /\ phase # "stopped"
      /\ job' = None /\ last' = Remembered
  BY DEF Finish, CalcInv, JobGood, Reply
<1>2. SheetInv'
  BY <1>1, SheetKept DEF CalcInv, WorksheetNext
<1>3. last' # None => Answered(last)'
  BY <1>1, RememberedIsAnswered
<1>4. ASSUME Worksheet' PROVE Answered(answer)'
  <2> DEFINE response == Response("worksheet")
  <2>1. \A e : Failure(e).kind = "error" /\ Refusal("INTERNAL", TRUE).kind = "error"
    BY DEF Failure, Refusal
  <2>2. answer' = Answer /\ pc # "failed"
    <3>1. answer' = IF pc = "failed" THEN Failure(error)
                    ELSE IF ~ValueOf(lines, Tax).ok THEN Refusal("INTERNAL", TRUE)
                    ELSE Answer
      BY DEF Finish, Reply
    <3> QED BY <1>4, <2>1, <3>1 DEF Worksheet
  <2>3. answer' = response
    <3>1. Csv(response).kind = "csv" /\ Json(response).kind = "json"
      BY DEF Csv, Json
    <3> HIDE DEF response
    <3>2. Answer \in {Csv(response), Json(response), response}
      BY DEF Answer, response
    <3> QED BY <1>4, <2>2, <3>1, <3>2 DEF Worksheet
  <2>4. Complete(table, income, sum, lines)
    BY <1>1, <2>2 DEF Return, CalcInv, SheetInv
  <2>5. ValueOf(lines, Tax) = Ok(CheckedRound(WholeDollar, sum).value)
    BY <2>4, ValuesByBracket
  <2>6. /\ response.request.year = job.year /\ response.request.status = job.status
        /\ response.request.income = job.income /\ response.lines = lines /\ response.root = Tax
        /\ response.tax = CheckedRound(WholeDollar, sum).value
    BY <2>5 DEF Response, RequestOf, Ok
  <2> HIDE DEF response
  <2>7. InForce(vintage', answer'.request.year, answer'.request.status) = Ok(table)
    BY <1>1, <2>3, <2>6 DEF JobGood
  <2>8. Complete(table, answer'.request.income, sum, answer'.lines)
    BY <1>1, <2>3, <2>4, <2>6 DEF JobGood
  <2> QED BY <2>3, <2>6, <2>7, <2>8 DEF Answered
<1>5. answer' # None /\ answer'.kind = "error" /\ answer'.event => Known
  <2>1. answer' = IF pc = "failed" THEN Failure(error)
                  ELSE IF ~ValueOf(lines, Tax).ok THEN Refusal("INTERNAL", TRUE)
                  ELSE Answer
    BY DEF Finish, Reply
  <2>2. CASE pc = "failed"
    <3>1. Blamed
      BY <2>2 DEF CalcInv, SheetInv
    <3>2. CASE error = "Id" /\ FaultyName(table)
      BY <1>1, <3>2, FaultIsKnown
    <3>3. CASE error \in {"NegativeTaxableIncome", "Overflow", "UnspecifiedTie", "NonPositiveIncrement"}
      BY <2>1, <2>2, <3>3 DEF Failure, Refusal
    <3> QED BY <3>1, <3>2, <3>3 DEF Blamed
  <2>3. CASE pc # "failed"
    <3>1. Complete(table, income, sum, lines)
      BY <1>1, <2>3 DEF Return, CalcInv, SheetInv
    <3>2. ValueOf(lines, Tax).ok
      BY <3>1, ValuesByBracket DEF Ok
    <3>3. Answer.kind # "error"
      <4> DEFINE response == Response("worksheet")
      <4>1. /\ Csv(response).kind = "csv" /\ Json(response).kind = "json"
            /\ response.kind = "worksheet"
        BY DEF Csv, Json, Response
      <4> HIDE DEF response
      <4>2. Answer \in {Csv(response), Json(response), response}
        BY DEF Answer, response
      <4> QED BY <4>1, <4>2
    <3> QED BY <2>1, <2>3, <3>2, <3>3
  <2> QED BY <2>2, <2>3
<1>6. OnlyKnownDefects'
  BY <1>1, <1>5 DEF Known, Flat, OnlyKnownDefects
<1> QED BY <1>1, <1>2, <1>3, <1>4, <1>6 DEF CalcInv

LEMMA ListsKeep ==
  ASSUME CalcInv, ListAssumptions \/ ValidationReport PROVE CalcInv'
<1>1. phase # "stopped" /\ UNCHANGED <<worksheet, phase, vintage>>
  BY DEF ListAssumptions, ValidationReport
<1>2. SheetInv'
  BY <1>1, SheetKept DEF CalcInv
<1>3. Registry(vintage).kind = "registry" /\ [kind |-> "report", state |-> report].kind = "report"
  BY DEF Registry
<1>4. Reply(Registry(vintage)) \/ Reply([kind |-> "report", state |-> report])
  BY DEF ListAssumptions, ValidationReport
<1> QED BY <1>1, <1>2, <1>3, <1>4, OtherReply

LEMMA NothingKeeps == ASSUME CalcInv, UNCHANGED vars PROVE CalcInv'
<1>1. SheetInv'
  BY SheetKept DEF CalcInv, vars
<1>2. UNCHANGED <<table, income, phase, vintage, job, answer, last>>
  BY DEF vars, worksheet, server
<1>3. Worksheet' => Answered(answer)'
  BY <1>2 DEF CalcInv, Worksheet, Answered
<1>4. last' # None => Answered(last)'
  BY <1>2 DEF CalcInv, Answered
<1>5. job' # None => JobGood'
  BY <1>2 DEF CalcInv, JobGood
<1>6. OnlyKnownDefects'
  BY <1>2 DEF CalcInv, OnlyKnownDefects
<1> QED BY <1>1, <1>2, <1>3, <1>4, <1>5, <1>6 DEF CalcInv

LEMMA CalcKept == CalcInv /\ [Next]_vars => CalcInv' /\ [WorksheetNext]_worksheet
<1> SUFFICES ASSUME CalcInv, [Next]_vars PROVE CalcInv' /\ [WorksheetNext]_worksheet
  OBVIOUS
<1>1. ASSUME NEW i \in DOMAIN Builds, Bind(Builds[i]) PROVE CalcInv' /\ UNCHANGED worksheet
  BY <1>1, BindKeeps DEF Bind
<1>2. ASSUME NEW request \in Requests, RateSchedule(request)
      PROVE  CalcInv' /\ [WorksheetNext]_worksheet
  BY <1>2, ComputeKeeps DEF RateSchedule
<1>3. ASSUME NEW request \in Requests, NEW format \in Formats, RateScheduleExport(request, format)
      PROVE  CalcInv' /\ [WorksheetNext]_worksheet
  BY <1>3, ComputeKeeps DEF RateScheduleExport
<1>4. CASE (Bracket \/ Total) /\ UNCHANGED server
  BY <1>4, WorkKeeps DEF WorksheetNext
<1>5. CASE Finish
  BY <1>5, FinishKeeps DEF Finish, WorksheetNext
<1>6. CASE ListAssumptions \/ ValidationReport
  BY <1>6, ListsKeep DEF ListAssumptions, ValidationReport
<1>7. CASE UNCHANGED vars
  BY <1>7, NothingKeeps DEF vars
<1> QED BY <1>1, <1>2, <1>3, <1>4, <1>5, <1>6, <1>7 DEF Next

-----------------------------------------------------------------------------
(* The theorems                                                            *)

LEMMA Calculates == Spec => []CalcInv
BY CalcStart, CalcKept, PTL DEF Spec

(* Every computation the server makes is one of a worksheet: of a schedule *)
(* the constructor accepts and an income in range.                         *)
THEOREM Implements == Spec => WorksheetSpec
<1>1. Init => WorksheetInit
  BY DEF Init
<1> QED BY <1>1, Calculates, CalcKept, PTL DEF Spec, WorksheetSpec

(* Whatever the schedule, the brackets of an answer hold the income, their *)
(* taxes its sum, and the tax is that sum to the nearest whole dollar.     *)
THEOREM AddsUpInService == Spec => []Reconciles
<1>1. CalcInv => Reconciles
  <2> SUFFICES ASSUME CalcInv, Worksheet
               PROVE  /\ SumFunction(ValuesOf(answer.lines, "amount")) = answer.request.income
                      /\ SumFunction(ValuesOf(answer.lines, "tax")) = ValueOf(answer.lines, Sum).value
                      /\ answer.tax % CentsPerDollar = 0
                      /\ Magnitude(answer.tax - ValueOf(answer.lines, Sum).value) * 2 <= CentsPerDollar
    BY DEF Reconciles
  <2>1. PICK t, total : /\ Complete(t, answer.request.income, total, answer.lines)
                        /\ answer.tax = CheckedRound(WholeDollar, total).value
    BY DEF CalcInv, Answered
  <2>2. ValueOf(answer.lines, Sum).value = total
    BY <2>1, ValuesByBracket DEF Ok
  <2>3. /\ SumFunction(ValuesOf(answer.lines, "amount")) = answer.request.income
        /\ SumFunction(ValuesOf(answer.lines, "tax")) = total
        /\ answer.tax % CentsPerDollar = 0 /\ Magnitude(answer.tax - total) * 2 <= CentsPerDollar
    BY <2>1, AddsUp
  <2> QED BY <2>2, <2>3
<1> QED BY <1>1, Calculates, PTL

(* The trail of an answer is all that was computed, in order, and what is  *)
(* written of it can be read back.                                         *)
THEOREM Audited == Spec => []EveryLineIsAudited
<1>1. CalcInv => EveryLineIsAudited
  <2> SUFFICES ASSUME CalcInv, Worksheet
               PROVE  /\ Trail(answer.lines, answer.root) = answer.lines
                      /\ ReadBack(answer.lines) = Ok(answer.lines)
    BY DEF EveryLineIsAudited
  <2>1. PICK t, total : Complete(t, answer.request.income, total, answer.lines) /\ answer.root = Tax
    BY DEF CalcInv, Answered
  <2>2. Trail(answer.lines, Tax) = answer.lines
    BY <2>1, TrailIsTheTrace
  <2>3. ReadBack(answer.lines) = Ok(answer.lines)
    BY <2>1, ReadsBack
  <2> QED BY <2>1, <2>2, <2>3
<1> QED BY <1>1, Calculates, PTL

(* A higher income is never taxed less, at any two requests of the same    *)
(* year and status: rounding each bracket to the cent cannot turn it round.*)
THEOREM NeverTaxedLess == Spec => []TaxIsMonotone
<1>1. CalcInv => TaxIsMonotone
  <2> SUFFICES ASSUME CalcInv, Worksheet, last # None, last.request.year = answer.request.year,
                      last.request.status = answer.request.status,
                      last.request.income <= answer.request.income
               PROVE  last.tax <= answer.tax
    BY DEF TaxIsMonotone
  <2>1. PICK t, total : /\ InForce(vintage, answer.request.year, answer.request.status) = Ok(t)
                        /\ Complete(t, answer.request.income, total, answer.lines)
                        /\ answer.tax = CheckedRound(WholeDollar, total).value
    BY DEF CalcInv, Answered
  <2>2. PICK s, less : /\ InForce(vintage, last.request.year, last.request.status) = Ok(s)
                       /\ Complete(s, last.request.income, less, last.lines)
                       /\ last.tax = CheckedRound(WholeDollar, less).value
    BY DEF CalcInv, Answered
  <2>3. s = t
    BY <2>1, <2>2 DEF Ok
  <2>4. CheckedRound(WholeDollar, less).value <= CheckedRound(WholeDollar, total).value
    BY <2>1, <2>2, <2>3, TaxGrows
  <2> QED BY <2>1, <2>2, <2>4
<1> QED BY <1>1, Calculates, PTL

(* A request that can be served is answered INTERNAL only for a name that  *)
(* is no identifier or for edges that do not increase: nothing else that   *)
(* the loader accepts stops a worksheet.                                   *)
THEOREM DefectsAreKnown == Spec => []OnlyKnownDefects
BY Calculates, PTL DEF CalcInv

-----------------------------------------------------------------------------
(* What the view relies on                                                 *)

(* The series an indexed table reads is in the vintage.                    *)
LEMMA SeriesIsThere ==
  ASSUME NEW v, Served(v), NEW id \in DOMAIN v.tables, v.tables[id].projection.rule = "index"
  PROVE  v.tables[id].projection.indexSeries \in DOMAIN v.series
<1>1. PICK i \in DOMAIN Builds : \E j \in DOMAIN Builds[i].tables :
        /\ v = Vintage(Builds[i].name, Builds[i].tables, Builds[i].series)
        /\ TableOk(Builds[i].tables[j]) /\ v.tables[id] = ParamTable(Builds[i].tables[j])
  BY TableOfAVintage
<1> DEFINE tables == Builds[i].tables
<1>2. PICK j \in DOMAIN tables : TableOk(tables[j]) /\ v.tables[id] = ParamTable(tables[j])
  BY <1>1
<1> DEFINE root == tables[j]
           block == root["projection"].value
<1>3. /\ v.tables[id].projection.rule = block["rule"].value
      /\ v.tables[id].projection.indexSeries = FieldOr(block, "index_series", "")
  <2> HIDE DEF root
  <2>1. v.tables[id].projection = Projection(root)
    BY <1>2 DEF ParamTable, root
  <2>2. /\ Projection(root).rule = block["rule"].value
        /\ Projection(root).indexSeries = FieldOr(block, "index_series", "")
    BY DEF Projection
  <2> QED BY <2>1, <2>2
<1>4. "index_series" \in DOMAIN block
  BY <1>2, <1>3 DEF TableOk, ProjectionOk, IndexComplete
<1>5. v.tables[id].projection.indexSeries = SeriesName(root)
  BY <1>3, <1>4 DEF FieldOr, SeriesName
<1>6. SeriesName(root) \in NamesRead(tables)
  <2>1. root \in Elements(tables)
    BY DEF Elements
  <2>2. IsIndexed(root)
    BY <1>3 DEF IsIndexed
  <2> HIDE DEF root, tables
  <2> QED BY <2>1, <2>2 DEF NamesRead
<1>7. DOMAIN v.series = NamesRead(tables)
  BY <1>1 DEF Vintage
<1> QED BY <1>5, <1>6, <1>7

LEMMA IndexedIsComplete ==
  ASSUME NEW v, Served(v), NEW id \in DOMAIN v.tables
  PROVE  LET t == v.tables[id]
             p == t.projection
             width == IF t.components = <<>> THEN 1 ELSE Len(t.components)
         IN  /\ \A y \in DOMAIN t.rates : Len(t.rates[y]) = width + 1
             /\ DOMAIN t.values = Statuses
             /\ \A k \in DOMAIN t.values : \A y \in DOMAIN t.values[k] : Len(t.values[k][y]) = width
             /\ p.rule = "index" =>
                  /\ p.indexSeries \in DOMAIN v.series
                  /\ p.baseYear # 0 \/ p.baseYearByEdge # NoTable
                  /\ \A k \in DOMAIN t.values :
                       LET from == IF k \in DOMAIN p.derived THEN p.derived[k].from ELSE k
                       IN  /\ from \in DOMAIN p.baseValues /\ Len(p.baseValues[from]) = width
                           /\ from \in DOMAIN p.rounding /\ p.rounding[from].increment > 0
<1> DEFINE t == v.tables[id]
           p == t.projection
           width == Width(t.components)
<1>1. LoadedTable(t)
  BY TablesLoaded
<1>2. p.rule = "index" => p.indexSeries \in DOMAIN v.series
  BY SeriesIsThere
<1> HIDE DEF t
<1>3. /\ DOMAIN t.values = Statuses
      /\ \A y \in DOMAIN t.rates : Len(t.rates[y]) = width + 1
      /\ \A k \in Statuses : \A y \in DOMAIN t.values[k] : Len(t.values[k][y]) = width
  BY <1>1 DEF LoadedTable, IsLadder, IsAmounts
<1>4. LoadedProjection(p, width)
  BY <1>1 DEF LoadedTable
<1> HIDE DEF p
<1>5. ASSUME p.rule = "index", NEW k \in Statuses
      PROVE  /\ Source(p, k) \in DOMAIN p.baseValues /\ Len(p.baseValues[Source(p, k)]) = width
             /\ Source(p, k) \in DOMAIN p.rounding /\ p.rounding[Source(p, k)].increment > 0
  <2>1. Source(p, k) \in DOMAIN p.baseValues /\ Source(p, k) \in DOMAIN p.rounding
    BY <1>4, <1>5 DEF LoadedProjection
  <2>2. IsAmounts(p.baseValues[Source(p, k)], width) /\ IsRule(p.rounding[Source(p, k)])
    BY <1>4, <2>1 DEF LoadedProjection
  <2> QED BY <2>1, <2>2 DEF IsAmounts, IsRule
<1>6. p.rule = "index" => p.baseYear # 0 \/ p.baseYearByEdge # NoTable
  BY <1>4 DEF LoadedProjection
<1> QED BY <1>2, <1>3, <1>5, <1>6 DEF t, p, Width, Source

(* Whatever the loader accepts, a table that is served has all of what     *)
(* the view takes without looking.                                         *)
THEOREM WhatIsServedIsComplete == Spec => []IndexedTablesAreComplete
<1>1. CalcInv => IndexedTablesAreComplete
  <2> SUFFICES ASSUME CalcInv, phase = "serving" PROVE IndexedTablesAreComplete
    BY DEF IndexedTablesAreComplete
  <2>1. Served(vintage)
    BY DEF CalcInv
  <2> QED BY <2>1, IndexedIsComplete DEF IndexedTablesAreComplete
<1> QED BY <1>1, Calculates, PTL

-----------------------------------------------------------------------------
(* The index series                                                        *)

(* An observation, in units of the last place of a scale no coarser.       *)
LEMMA ScaledTyped ==
  ASSUME NEW text, ObservationOk(text), NEW scale \in 0 .. MaxScale, Literal(text).places <= scale
  PROVE  Scaled(text, scale) \in Int /\ 0 <= Scaled(text, scale)
<1>1. text \in DOMAIN LiteralOf /\ Literal(text) = LiteralOf[text] /\ LiteralOf[text].form = "decimal"
  BY DEF ObservationOk, Literal
<1>2. Literal(text).digits \in Nat /\ Literal(text).places \in Nat
  BY <1>1, LiteralsAssumption
<1> DEFINE up == scale - Literal(text).places
           power == 10 ^ up
<1>3. up \in 0 .. MaxScale
  BY <1>2 DEF MaxScale
<1> HIDE DEF up
<1>4. power \in Nat
  BY <1>3, IndexSeriesAssumption
<1>5. Scaled(text, scale) = Literal(text).digits * power
  BY DEF Scaled, power, up
<1> HIDE DEF power
<1>6. Literal(text).digits * power \in Int /\ 0 <= Literal(text).digits * power
  BY <1>2, <1>4, Scaling
<1> QED BY <1>5, <1>6

(* The scale is one of the places of an observation, and none has more.    *)
LEMMA ScaleTyped ==
  ASSUME NEW root, ObservationsOk(root)
  PROVE  /\ Scale(root) \in 0 .. MaxScale
         /\ \A k \in DOMAIN root["observations"].value : \A m \in DOMAIN Observed(root, k) :
              Literal(Observed(root, k)[m].value).places <= Scale(root)
<1> DEFINE all == UNION {{Observed(root, k)[m].value : m \in DOMAIN Observed(root, k)} :
                           k \in DOMAIN root["observations"].value}
           places == {Literal(t).places : t \in all}
<1>1. Scale(root) = IF places = {} THEN 0 ELSE Max(places)
  BY DEF Scale
<1>2. \A t \in all : ObservationOk(t)
  BY DEF ObservationsOk
<1>3. \A t \in all : Literal(t).places \in 0 .. MaxScale
  <2> SUFFICES ASSUME NEW t \in all PROVE Literal(t).places \in 0 .. MaxScale
    OBVIOUS
  <2>1. t \in DOMAIN LiteralOf /\ Literal(t) = LiteralOf[t] /\ LiteralOf[t].form = "decimal"
        /\ Literal(t).places <= MaxScale
    BY <1>2 DEF ObservationOk, Literal
  <2> HIDE DEF all
  <2> QED BY <2>1, LiteralsAssumption DEF MaxScale
<1>4. \A k \in DOMAIN root["observations"].value : \A m \in DOMAIN Observed(root, k) :
        Literal(Observed(root, k)[m].value).places \in places
  OBVIOUS
<1>5. places \subseteq 0 .. MaxScale
  BY <1>3
<1> HIDE DEF places, all
<1>6. ASSUME places # {} PROVE Max(places) \in places /\ \A x \in places : x <= Max(places)
  <2> DEFINE below == {MaxScale - x : x \in places}
  <2>1. below \in SUBSET Nat /\ below # {}
    <3>1. \A x \in places : x \in 0 .. 9
      BY <1>5 DEF MaxScale
    <3>2. \A x \in places : MaxScale - x \in Nat
      BY <3>1 DEF MaxScale
    <3> QED BY <1>6, <3>2
  <2>2. PICK b \in below : \A c \in below : b <= c
    BY <2>1, LeastElement
  <2>3. PICK x \in places : b = MaxScale - x
    BY <2>2
  <2>4. ASSUME NEW z \in places PROVE x >= z
    <3>1. MaxScale - z \in below /\ x \in 0 .. MaxScale /\ z \in 0 .. MaxScale
      BY <1>5
    <3> QED BY <2>2, <2>3, <3>1 DEF MaxScale
  <2> HIDE DEF below
  <2>5. Max(places) \in places /\ \A z \in places : Max(places) >= z
    BY <2>3, <2>4 DEF Max
  <2> QED BY <1>5, <2>5 DEF MaxScale
<1>7. Scale(root) \in 0 .. MaxScale
  <2>1. CASE places = {}
    BY <1>1, <2>1 DEF MaxScale
  <2>2. CASE places # {}
    BY <1>1, <1>5, <1>6, <2>2
  <2> QED BY <2>1, <2>2
<1>8. \A x \in places : x <= Scale(root)
  BY <1>1, <1>6
<1> QED BY <1>4, <1>7, <1>8

(* Every window of a document comes to a natural number.                   *)
LEMMA SumsTyped ==
  ASSUME NEW root, IsDocument(root), ObservationsOk(root), NEW y \in DOMAIN WindowSums(root)
  PROVE  WindowSums(root)[y] \in Nat
<1> DEFINE map == root["observations"].value
           text == TextOf(map, y)
           obs == map[text].value
           scaled == [m \in DOMAIN obs |-> Scaled(obs[m].value, Scale(root))]
<1>1. y \in Years(map) /\ WindowSums(root)[y] = SumFunction(scaled)
  BY DEF WindowSums
<1>2. text \in DOMAIN map
  BY <1>1 DEF Years, TextOf
<1>3. "observations" \in DOMAIN root /\ root["observations"].type = "table" /\ map[text].type = "table"
  BY <1>2 DEF ObservationsOk, Required
<1>4. IsFiniteSet(DOMAIN obs)
  <2>1. IsTree4(root["observations"])
    BY <1>3 DEF IsDocument
  <2>2. IsTree3(map[text])
    BY <1>2, <1>3, <2>1 DEF IsTree4, Inside
  <2>3. IsValue(map[text])
    BY <2>2 DEF IsTree3
  <2> QED BY <1>3, <2>3 DEF IsValue
<1>5. obs = Observed(root, text)
  BY DEF Observed
<1>6. ASSUME NEW m \in DOMAIN obs PROVE scaled[m] \in Int /\ 0 <= scaled[m]
  <2>1. ObservationOk(obs[m].value)
    BY <1>2, <1>5, <1>6 DEF ObservationsOk
  <2>2. Scale(root) \in 0 .. MaxScale /\ Literal(obs[m].value).places <= Scale(root)
    BY <1>2, <1>5, <1>6, ScaleTyped
  <2>3. scaled[m] = Scaled(obs[m].value, Scale(root))
    BY <1>6
  <2> HIDE DEF obs, scaled
  <2> QED BY <2>1, <2>2, <2>3, ScaledTyped
<1>7. DOMAIN scaled = DOMAIN obs
  OBVIOUS
<1> HIDE DEF obs, scaled
<1>8. SumFunctionOnSet(scaled, DOMAIN scaled) \in Int /\ 0 <= SumFunctionOnSet(scaled, DOMAIN scaled)
  BY <1>4, <1>6, <1>7, SumNotNegative
<1> QED BY <1>1, <1>8 DEF SumFunction

LEMMA SeriesLoaded ==
  ASSUME NEW v, Served(v), NEW k \in DOMAIN v.series
  PROVE  \A y \in DOMAIN v.series[k].sums : v.series[k].sums[y] \in Nat
<1>1. PICK i \in DOMAIN Builds :
        /\ VintageOk(Builds[i].tables, Builds[i].series)
        /\ v = Vintage(Builds[i].name, Builds[i].tables, Builds[i].series)
  BY DEF Served
<1> DEFINE docs == Builds[i].series
           root == CHOOSE s \in Elements(docs) : s["index_series"].value = k
<1>2. k \in NamesRead(Builds[i].tables) /\ v.series[k] = Series(root)
  BY <1>1 DEF Vintage
<1>3. root \in Elements(docs)
  <2>1. NamesRead(Builds[i].tables) \subseteq {s["index_series"].value : s \in Elements(docs)}
    BY <1>1 DEF VintageOk
  <2> QED BY <1>2, <2>1
<1>4. PICK j \in DOMAIN docs : root = docs[j]
  BY <1>3 DEF Elements
<1>5. SeriesOk(docs[j]) /\ IsDocument(docs[j])
  BY <1>1, CalculationAssumption DEF VintageOk
<1> HIDE DEF root
<1>6. ObservationsOk(root) /\ IsDocument(root)
  BY <1>4, <1>5 DEF SeriesOk
<1>7. \A y \in DOMAIN WindowSums(root) : WindowSums(root)[y] \in Nat
  BY <1>6, SumsTyped
<1>8. Series(root).sums = WindowSums(root)
  BY DEF Series
<1> QED BY <1>2, <1>7, <1>8
(* The increase of an index, in lowest terms, is that of its sums.         *)
LEMMA FactorIsExact ==
  ASSUME NEW series, \A y \in DOMAIN series.sums : series.sums[y] \in Nat,
         NEW y \in DOMAIN series.sums, NEW z \in DOMAIN series.sums, Factor(series, y, z).ok
  PROVE  LET r == Factor(series, y, z).value
         IN  \E g \in Nat \ {0} : series.sums[y] = g * r.num /\ series.sums[z] = g * r.den
<1> DEFINE a == series.sums[y]
           b == series.sums[z]
           g == Gcd[<<a, b>>]
           num == a \div g
           den == b \div g
<1>1. a \in Nat /\ b \in Nat
  OBVIOUS
<1>2. Factor(series, y, z) = IF b <= 0 \/ ~FitsInt(num) \/ ~FitsInt(den) THEN Err("None")
                             ELSE NewRatio(num, den)
  BY DEF Factor
<1> HIDE DEF num, den, a, b
<1>3. ~(b <= 0) /\ Factor(series, y, z) = NewRatio(num, den)
  BY <1>2 DEF Err
<1>4. Factor(series, y, z).value = [num |-> num, den |-> den]
  BY <1>3 DEF NewRatio, Err, Ok
<1>5. g \in Nat /\ Divides(g, a) /\ Divides(g, b) /\ (a # 0 \/ b # 0 => g # 0)
  BY <1>1, GcdDivides
<1> HIDE DEF g
<1>6. g \in Nat \ {0}
  BY <1>1, <1>3, <1>5
<1>7. PICK k, l \in Int : a = g * k /\ b = g * l
  BY <1>5 DEF Divides
<1>8. num = k
  <2>1. (g * k) \div g = k
    BY <1>6, <1>7, DividesEvenly
  <2> QED BY <1>7, <2>1 DEF num
<1>9. den = l
  <2>1. (g * l) \div g = l
    BY <1>6, <1>7, DividesEvenly
  <2> QED BY <1>7, <2>1 DEF den
<1> QED BY <1>4, <1>6, <1>7, <1>8, <1>9 DEF a, b

(* A product rounded down: a multiple of the increment over what is added  *)
(* back, and the last that does not exceed the exact product.              *)
LEMMA ProductDown ==
  ASSUME NEW rule, IsRule(rule), rule.direction = "down", NEW base \in Int,
         NEW r, r.num \in Int, r.den \in Int, 0 < r.den, MulRatio(rule, base, r).ok
  PROVE  LET s == MulRatio(rule, base, r).value
         IN  /\ s \in Int /\ (s - AddedBack(rule.basis, base)) % rule.increment = 0
             /\ s * r.den <= base * r.num /\ base * r.num < (s + rule.increment) * r.den
<1> DEFINE s == MulRatio(rule, base, r).value
           exact == Exact(rule.basis, base, r.num, r.den)
           rounded == RoundRational(rule, exact, r.den).value
           offset == AddedBack(rule.basis, base)
           inc == rule.increment
           num == r.num
           den == r.den
<1>1. exact \in Int /\ RoundRational(rule, exact, den).ok /\ s = rounded + offset
  BY ProductOf
<1>2. inc \in Int /\ 0 < inc /\ rule.direction \in RoundingDirections /\ rule.basis \in RoundingBases
  BY DEF IsRule
<1>3. offset \in Int /\ offset * den = base * num - exact
  <2>1. base * (num - den) = base * num - base * den /\ base * den \in Int /\ base * num \in Int
    OBVIOUS
  <2> QED BY <2>1 DEF AddedBack, Exact
<1> HIDE DEF exact, offset
<1>4. /\ \E k \in Int : rounded = k * inc
      /\ exact - rounded * den < den * inc /\ rounded * den <= exact
  BY <1>1, <1>2, RoundsToANeighbour
<1> HIDE DEF rounded, s
<1>5. PICK k \in Int : rounded = k * inc
  BY <1>4
<1>6. s - offset = inc * k
  BY <1>1, <1>2, <1>3, <1>5
<1>7. (s - offset) % inc = 0
  BY <1>2, <1>6, DividesEvenly
<1> HIDE DEF inc, num, den
<1>8. den \in Int /\ num \in Int /\ rounded \in Int /\ s \in Int
  BY <1>1, <1>2, <1>3, <1>5 DEF den, num
<1>9. s * den = rounded * den + offset * den /\ (s + inc) * den = s * den + den * inc
  BY <1>1, <1>2, <1>3, <1>8
<1>10. rounded * den \in Int /\ base * num \in Int /\ den * inc \in Int
  BY <1>2, <1>8
<1>11. s * den <= base * num /\ base * num < (s + inc) * den
  BY <1>1, <1>3, <1>4, <1>9, <1>10
<1> QED BY <1>7, <1>8, <1>11 DEF s, offset, inc, num, den

LEMMA StepDown ==
  ASSUME NEW series, \A y \in DOMAIN series.sums : series.sums[y] \in Nat,
         NEW rule, IsRule(rule), rule.direction = "down", NEW base \in Int,
         NEW baseYear, NEW year, Step(series, base, baseYear, year, rule).ok
  PROVE  LET s == Step(series, base, baseYear, year, rule).value
         IN  /\ (s - AddedBack(rule.basis, base)) % rule.increment = 0
             /\ s * series.sums[baseYear] <= base * series.sums[year]
             /\ (s + rule.increment) * series.sums[baseYear] > base * series.sums[year]
<1> DEFINE factor == Factor(series, year, baseYear)
           r == factor.value
           s == MulRatio(rule, base, r).value
           inc == rule.increment
<1>1. /\ Step(series, base, baseYear, year, rule) = MulRatio(rule, base, r)
      /\ factor.ok /\ year \in DOMAIN series.sums /\ baseYear \in DOMAIN series.sums
  BY DEF Step, Err, HasYear
<1>2. r.num \in Int /\ r.den \in Int /\ 0 < r.den
  BY <1>1, FactorTyped
<1>3. PICK g \in Nat \ {0} : series.sums[year] = g * r.num /\ series.sums[baseYear] = g * r.den
  BY <1>1, FactorIsExact
<1> HIDE DEF factor, r
<1>4. /\ s \in Int /\ (s - AddedBack(rule.basis, base)) % inc = 0
      /\ s * r.den <= base * r.num /\ base * r.num < (s + inc) * r.den
  <2>1. MulRatio(rule, base, r).ok
    BY <1>1
  <2> QED BY <1>2, <2>1, ProductDown
<1> HIDE DEF s
<1>5. inc \in Int
  BY DEF IsRule
<1> HIDE DEF inc
<1> DEFINE x == s * r.den
           y == base * r.num
           z == (s + inc) * r.den
<1>6. x \in Int /\ y \in Int /\ z \in Int /\ x <= y /\ y < z
  BY <1>2, <1>4, <1>5
<1>7. /\ s * (g * r.den) = g * x /\ base * (g * r.num) = g * y
      /\ (s + inc) * (g * r.den) = g * z
  BY <1>2, <1>4, <1>5
<1> HIDE DEF x, y, z
<1>8. g * x <= g * y /\ g * y < g * z
  <2>1. g * x <= g * y
    BY <1>6, Scaling
  <2>2. g * (y + 1) <= g * z /\ g * (y + 1) = g * y + g
    BY <1>6, Scaling
  <2>3. g * y \in Int /\ g * z \in Int
    BY <1>6
  <2> QED BY <2>1, <2>2, <2>3
<1> QED BY <1>1, <1>3, <1>4, <1>7, <1>8 DEF s, inc
-----------------------------------------------------------------------------
(* The amounts a table projects                                            *)

LEMMA FirstYearTyped ==
  ASSUME NEW v, Served(v), NEW id \in DOMAIN v.tables
  PROVE  v.tables[id].projection.firstAdjustedYear \in Int
<1>1. PICK i \in DOMAIN Builds : \E j \in DOMAIN Builds[i].tables :
        TableOk(Builds[i].tables[j]) /\ v.tables[id] = ParamTable(Builds[i].tables[j])
  BY TableOfAVintage
<1>2. PICK root : TableOk(root) /\ v.tables[id] = ParamTable(root)
  BY <1>1
<1> DEFINE block == root["projection"].value
<1>3. v.tables[id].projection = Projection(root)
  BY <1>2 DEF ParamTable
<1>4. Projection(root).firstAdjustedYear = FieldOr(block, "first_adjusted_year", 0)
  BY DEF Projection
<1>5. OptionalYear(block, "first_adjusted_year")
  BY <1>2 DEF TableOk, ProjectionOk
<1> HIDE DEF block
<1>6. FieldOr(block, "first_adjusted_year", 0) \in Int
  BY <1>5 DEF OptionalYear, YearInDomain, FieldOr
<1> QED BY <1>3, <1>4, <1>6

\* The amounts of a status are stepped to a year, each from its base amount and base year
Stepped(v, t, year, key, tops) ==
  LET p == t.projection
      bases == p.baseValues[key]
      years == BaseYearsFor(p, year, Len(bases)).value
  IN  /\ key \in DOMAIN p.baseValues /\ DOMAIN tops = DOMAIN bases
      /\ \A i \in DOMAIN bases :
           LET s == Step(v.series[p.indexSeries], bases[i], years[i],
                         year - p.lagYears, p.rounding[key])
           IN  s.ok /\ tops[i] = s.value

LEMMA ProjectsInSteps ==
  ASSUME NEW v, NEW t, NEW year \in Int, NEW key, t.projection.firstAdjustedYear \in Int,
         year >= t.projection.firstAdjustedYear, ProjectBase(v, t, year, key).ok
  PROVE  Stepped(v, t, year, key, ProjectBase(v, t, year, key).value.amounts)
<1> DEFINE p == t.projection
           bases == p.baseValues[key]
           years == BaseYearsFor(p, year, Len(bases))
           steps == [i \in DOMAIN bases |->
                       Step(v.series[p.indexSeries], bases[i], years.value[i],
                            year - p.lagYears, p.rounding[key])]
           projected == [i \in DOMAIN steps |-> steps[i].value]
           result == ProjectBase(v, t, year, key)
<1>1. result =
        IF key \notin DOMAIN p.baseValues THEN Err("Params")
        ELSE IF p.firstAdjustedYear # 0 /\ year < p.firstAdjustedYear THEN Amount(bases, "unadjustedBase")
        ELSE IF ~years.ok THEN years
        ELSE IF \E i \in DOMAIN steps : ~steps[i].ok THEN Err("Params")
        ELSE Amount(projected, "projected")
  BY DEF ProjectBase
<1>2. DOMAIN steps = DOMAIN bases
      /\ \A i \in DOMAIN bases :
           steps[i] = Step(v.series[p.indexSeries], bases[i], years.value[i],
                           year - p.lagYears, p.rounding[key])
  OBVIOUS
<1>3. DOMAIN projected = DOMAIN steps /\ \A i \in DOMAIN steps : projected[i] = steps[i].value
  OBVIOUS
<1>4. ~(year < p.firstAdjustedYear)
  OBVIOUS
<1> HIDE DEF result, projected, steps, years, bases
<1>5. key \in DOMAIN p.baseValues /\ (\A i \in DOMAIN steps : steps[i].ok) /\ result = Amount(projected, "projected")
  <2>1. result.ok
    BY DEF result
  <2> QED BY <1>1, <1>4, <2>1 DEF Err
<1>6. result.value.amounts = projected
  BY <1>5, AmountValue
<1>7. Stepped(v, t, year, key, projected)
  BY <1>2, <1>3, <1>5 DEF Stepped, bases, years
<1> QED BY <1>6, <1>7 DEF result

(* The amounts of a status that is not derived, for a year that is not     *)
(* published.                                                              *)
LEMMA ProjectedValue ==
  ASSUME NEW v, NEW id, NEW year, NEW key, ValueInForce(v, id, year, key).ok,
         ~Published(v.tables[id], year, key), v.tables[id].projection.rule = "index",
         key \notin DOMAIN v.tables[id].projection.derived
  PROVE  /\ id \in DOMAIN v.tables
         /\ ValueInForce(v, id, year, key) = ProjectBase(v, v.tables[id], year, key)
<1> DEFINE t == v.tables[id]
           value == ValueInForce(v, id, year, key)
           base == ProjectBase(v, t, year, key)
<1>1. value = IF id \notin DOMAIN v.tables THEN Err("Params")
              ELSE IF key \notin DOMAIN t.values THEN Err("Params")
              ELSE Project(v, id, year, key)
  BY DEF ValueInForce
<1>2. Project(v, id, year, key) = IF id \notin DOMAIN v.tables THEN Err("Params")
                                  ELSE IF key \notin DOMAIN t.values THEN Err("Params")
                                  ELSE base
  BY DEF Project, ProjectIndex
<1> HIDE DEF value, base, t
<1>3. id \in DOMAIN v.tables /\ value = base
  <2>1. value.ok
    BY DEF value
  <2> QED BY <1>1, <1>2, <2>1 DEF Err
<1> QED BY <1>3 DEF value, base, t

(* A table's amounts are those of the schedule.                            *)
LEMMA TopsInForce ==
  ASSUME NEW v, NEW year, NEW status, NEW t, InForce(v, year, status) = Ok(t)
  PROVE  /\ ValueInForce(v, OrdinaryBrackets, year, status).ok
         /\ t.tops = ValueInForce(v, OrdinaryBrackets, year, status).value.amounts
<1> DEFINE value == ValueInForce(v, OrdinaryBrackets, year, status)
           rates == RatesInForce(v, OrdinaryBrackets, year)
           names == v.tables[OrdinaryBrackets].components
           tops == value.value.amounts
           parts == FromParts(year, status, tops, names, rates.value)
<1>1. Ok(t) = IF ~value.ok THEN value ELSE IF ~rates.ok THEN rates ELSE parts
  BY DEF InForce
<1> HIDE DEF value, rates, parts
<1>2. value.ok /\ parts = Ok(t)
  BY <1>1 DEF Ok
<1> HIDE DEF tops, names
<1>3. t.tops = tops
  BY <1>2 DEF parts, FromParts, Ok, Err
<1> QED BY <1>2, <1>3 DEF value, tops
LEMMA ProjectedIsExact ==
  ASSUME CalcInv, job # None, ~Published(vintage.tables[OrdinaryBrackets], job.year, job.status),
         vintage.tables[OrdinaryBrackets].projection.rule = "index",
         job.year >= vintage.tables[OrdinaryBrackets].projection.firstAdjustedYear,
         job.status \notin DOMAIN vintage.tables[OrdinaryBrackets].projection.derived,
         vintage.tables[OrdinaryBrackets].projection.rounding[job.status].direction = "down"
  PROVE  LET p == vintage.tables[OrdinaryBrackets].projection
             sums == vintage.series[p.indexSeries].sums
             rule == p.rounding[job.status]
             years == BaseYearsFor(p, job.year, Len(table.tops)).value
             offset(i) == AddedBack(rule.basis, p.baseValues[job.status][i])
         IN  \A i \in DOMAIN table.tops :
               LET exact == p.baseValues[job.status][i] * sums[job.year - p.lagYears]
               IN  /\ (table.tops[i] - offset(i)) % rule.increment = 0
                   /\ table.tops[i] * sums[years[i]] <= exact
                   /\ (table.tops[i] + rule.increment) * sums[years[i]] > exact
<1> DEFINE v == vintage
           id == OrdinaryBrackets
           t == v.tables[id]
           p == t.projection
           year == job.year
           key == job.status
           width == Width(t.components)
           bases == p.baseValues[key]
           rule == p.rounding[key]
           series == v.series[p.indexSeries]
           tops == table.tops
           years == BaseYearsFor(p, year, Len(tops)).value
<1>1. /\ Served(v) /\ year \in Int /\ key \in STRING /\ InForce(v, year, key) = Ok(table)
  BY DEF CalcInv, JobGood
<1>2. Schedulable(v, year, key)
  <2>1. InForce(v, year, key).ok
    BY <1>1 DEF Ok
  <2> QED BY <1>1, <2>1, ScheduleTyped
<1>3. tops \in Seq(Int64) /\ key \in Statuses
  BY <1>1, <1>2 DEF Schedulable, Schedules, Ok
<1>4. ValueInForce(v, id, year, key).ok /\ tops = ValueInForce(v, id, year, key).value.amounts
  BY <1>1, TopsInForce
<1>5. id \in DOMAIN v.tables /\ ValueInForce(v, id, year, key) = ProjectBase(v, t, year, key)
  BY <1>4, ProjectedValue
<1>6. ProjectBase(v, t, year, key).ok /\ tops = ProjectBase(v, t, year, key).value.amounts
  BY <1>4, <1>5
<1>7. p.firstAdjustedYear \in Int
  BY <1>1, <1>5, FirstYearTyped
<1>8. year >= p.firstAdjustedYear
  OBVIOUS
<1>9. LoadedTable(t)
  BY <1>1, <1>5, TablesLoaded
<1>10. \A y \in DOMAIN series.sums : series.sums[y] \in Nat
  <2>1. p.indexSeries \in DOMAIN v.series
    BY <1>1, <1>5, SeriesIsThere
  <2> QED BY <1>1, <2>1, SeriesLoaded
<1>11. p.rule = "index" /\ key \notin DOMAIN p.derived /\ rule.direction = "down"
  OBVIOUS
<1> HIDE DEF t
<1>12. Stepped(v, t, year, key, tops)
  <2>1. Stepped(v, t, year, key, ProjectBase(v, t, year, key).value.amounts)
    BY <1>1, <1>6, <1>7, <1>8, ProjectsInSteps
  <2> QED BY <1>6, <2>1
<1>13. LoadedProjection(p, width)
  BY <1>9 DEF LoadedTable
<1> HIDE DEF p, width
<1>14. IsRule(rule) /\ IsAmounts(bases, width)
  <2>1. Source(p, key) = key
    BY <1>11 DEF Source
  <2>2. key \in DOMAIN p.baseValues /\ key \in DOMAIN p.rounding
    BY <1>3, <1>11, <1>13, <2>1 DEF LoadedProjection
  <2> QED BY <1>13, <2>2 DEF LoadedProjection
<1>15. DOMAIN tops = DOMAIN bases /\ Len(tops) = Len(bases)
  <2>1. DOMAIN tops = DOMAIN bases
    BY <1>12 DEF Stepped, p
  <2>2. bases \in Seq(Int64)
    BY <1>14 DEF IsAmounts
  <2> HIDE DEF tops, bases
  <2> QED BY <1>3, <2>1, <2>2
<1>16. \A i \in DOMAIN bases :
         LET s == Step(series, bases[i], years[i], year - p.lagYears, rule)
         IN  s.ok /\ tops[i] = s.value
  BY <1>12, <1>15 DEF Stepped, p
<1>17. \A i \in DOMAIN bases : bases[i] \in Int
  <2> HIDE DEF bases
  <2>1. bases \in Seq(Int64)
    BY <1>14 DEF IsAmounts
  <2> QED BY <2>1, MoneyAssumption DEF Int64, MinInt
<1> HIDE DEF bases, rule, series, years, tops
<1>18. ASSUME NEW i \in DOMAIN bases
       PROVE  /\ (tops[i] - AddedBack(rule.basis, bases[i])) % rule.increment = 0
              /\ tops[i] * series.sums[years[i]] <= bases[i] * series.sums[year - p.lagYears]
              /\ (tops[i] + rule.increment) * series.sums[years[i]]
                   > bases[i] * series.sums[year - p.lagYears]
  <2> DEFINE base == bases[i]
             from == years[i]
             at == year - p.lagYears
  <2>1. Step(series, base, from, at, rule).ok /\ tops[i] = Step(series, base, from, at, rule).value
    BY <1>16
  <2>2. base \in Int
    BY <1>17
  <2> HIDE DEF base, from, at
  <2>3. LET s == Step(series, base, from, at, rule).value
        IN  /\ (s - AddedBack(rule.basis, base)) % rule.increment = 0
            /\ s * series.sums[from] <= base * series.sums[at]
            /\ (s + rule.increment) * series.sums[from] > base * series.sums[at]
    BY <1>10, <1>11, <1>14, <2>1, <2>2, StepDown
  <2> QED BY <2>1, <2>3 DEF base, from, at
<1> QED BY <1>15, <1>18 DEF tops, bases, rule, series, years, p, t

(* A projected amount is rounded once, down, from the exact increase of    *)
(* its base amount: whatever the series, the rule and the widths are.      *)
THEOREM ProjectionRoundsOnce == Spec => []ProjectedOnce
<1>1. CalcInv => ProjectedOnce
  BY ProjectedIsExact DEF ProjectedOnce
<1> QED BY <1>1, Calculates, PTL

=============================================================================
