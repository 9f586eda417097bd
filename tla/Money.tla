------------------------------- MODULE Money -------------------------------
(***************************************************************************)
(* pfp-money: amounts in cents (cents.rs), exact ratios (ratio.rs) and the *)
(* one rounding step every amount goes through (rounding.rs).              *)
(*                                                                         *)
(* An i64 is an integer of MinInt .. MaxInt and an i128 one twice as wide, *)
(* so that what fits and what overflows is decided as in the code, for any *)
(* width.  A result is Ok(value) or Err(the name of a MoneyError or of a   *)
(* RatioError).  A number written as text is the literal it spells.        *)
(***************************************************************************)
EXTENDS Integers

CONSTANT MaxInt        \* i64::MAX, 2^63 - 1 in the code

ASSUME MoneyAssumption == MaxInt \in Nat /\ MaxInt >= 2

MinInt == -MaxInt - 1
Int64 == MinInt .. MaxInt
FitsInt(n) == n \in Int64

MaxWide == 2 * ((MaxInt + 1) * (MaxInt + 1)) - 1
FitsWide(n) == n \in -MaxWide - 1 .. MaxWide

Ok(v) == [ok |-> TRUE, value |-> v]
Err(e) == [ok |-> FALSE, error |-> e]

Checked(n) == IF FitsInt(n) THEN Ok(n) ELSE Err("Overflow")
CheckedWide(n) == IF FitsWide(n) THEN Ok(n) ELSE Err("Overflow")

-----------------------------------------------------------------------------
(* Cents.  The operators + and - panic where these err.                    *)

CentsPerDollar == 100

FromDollars(dollars) == Checked(dollars * CentsPerDollar)
CheckedAdd(a, b) == Checked(a + b)
CheckedSub(a, b) == Checked(a - b)
CheckedNeg(a) == Checked(-a)

Magnitude(a) == IF a < 0 THEN -a ELSE a

\* Plain decimal dollars, the sign in front of the magnitude
Decimal(a) == [negative |-> a < 0,
               dollars  |-> Magnitude(a) \div CentsPerDollar,
               cents    |-> Magnitude(a) % CentsPerDollar]

-----------------------------------------------------------------------------
(* Ratios                                                                  *)

NewRatio(num, den) ==
  IF den = 0 THEN Err("ZeroDenominator")
  ELSE IF den < 0 THEN Err("NegativeDenominator")
  ELSE Ok([num |-> num, den |-> den])

Gcd[p \in Nat \X Nat] == IF p[2] = 0 THEN p[1] ELSE Gcd[<<p[2], p[1] % p[2]>>]

\* Lowest terms with a positive denominator; "None" when there is none
Reduced(r) ==
  LET s == IF r.den < 0 THEN -1 ELSE 1
      g == Gcd[<<Magnitude(r.num), Magnitude(r.den)>>]
      num == s * r.num
      reduced == [num |-> IF num < 0 THEN -((-num) \div g) ELSE num \div g,
                  den |-> (s * r.den) \div g]
  IN  IF r.den # 0 /\ FitsInt(reduced.num) /\ FitsInt(reduced.den)
      THEN Ok(reduced) ELSE Err("None")

(* What a ratio is written as: "[-]digits[.digits]" is a decimal literal,  *)
(* with as many places as there are digits after the point, and            *)
(* "digits/digits" a fraction; any other text is malformed.                *)
ParseDecimal(lit) ==
  LET den == 10 ^ lit.places
      num == IF lit.negative THEN -lit.digits ELSE lit.digits
  IN  IF FitsInt(num) /\ den \in 1 .. MaxInt
      THEN Ok([num |-> num, den |-> den])
      ELSE Err("OutOfRange")

ParseFraction(lit) ==
  IF lit.den < 0 THEN Err("NegativeDenominator")
  ELSE IF ~FitsInt(lit.num) \/ ~FitsInt(lit.den) THEN Err("OutOfRange")
  ELSE NewRatio(lit.num, lit.den)

ParseRatio(lit) ==
  CASE lit.form = "fraction" -> ParseFraction(lit)
    [] lit.form = "decimal" -> ParseDecimal(lit)
    [] OTHER -> Err("Malformed")

-----------------------------------------------------------------------------
(* Rounding.  A rule is data beside the amount it governs: an increment in *)
(* cents, a direction, and what is rounded.                                *)

RoundingDirections == {"down", "up", "halfUp", "halfEven", "nearest"}
RoundingBases == {"Amount", "IncreaseOverBase"}
RoundingRules == [increment : Int64, direction : RoundingDirections, basis : RoundingBases]

NewRule(increment, direction, basis) ==
  IF increment <= 0 THEN Err("NonPositiveIncrement")
  ELSE Ok([increment |-> increment, direction |-> direction, basis |-> basis])

\* The directions whose tie the design leaves open
TieUnspecified(direction, n) ==
  direction = "nearest" \/ (direction = "halfUp" /\ n < 0)

\* MUTANT of RoundsUp: the comparison with the half is turned round
RoundsUpTurned(direction, q, r, step) == direction \in {"halfUp", "halfEven"} /\ r < step - r

\* q steps and a remainder r of a step: does the amount go to q + 1?
RoundsUp(direction, q, r, step) ==
  \/ direction = "up" /\ r # 0
  \/ direction \in {"halfUp", "halfEven", "nearest"} /\ r > step - r
  \/ direction = "halfUp" /\ r = step - r
  \/ direction = "halfEven" /\ r = step - r /\ q % 2 = 1

Multiple(direction, q, r, step) == IF RoundsUp(direction, q, r, step) THEN q + 1 ELSE q

\* The exact n / d cents, d > 0, to a multiple of the increment
RoundRational(rule, n, d) ==
  LET step == d * rule.increment
      q == n \div step
      r == n % step
  IN  IF rule.increment <= 0 THEN Err("NonPositiveIncrement")
      ELSE IF ~FitsWide(step) THEN Err("Overflow")
      ELSE IF r = step - r /\ TieUnspecified(rule.direction, n) THEN Err("UnspecifiedTie")
      ELSE CheckedWide(Multiple(rule.direction, q, r, step) * rule.increment)

CheckedRound(rule, amount) ==
  LET rounded == RoundRational(rule, amount, 1)
  IN  IF rounded.ok THEN Checked(rounded.value) ELSE rounded

(* base x r rounded once: either the product, or the increase over the     *)
(* base, which is then added back.                                         *)
ExactProduct(basis, base, num, den) == base * num     \* MUTANT of Exact: the basis is ignored
Exact(basis, base, num, den) ==
  IF basis = "Amount" THEN base * num ELSE base * (num - den)

AddedBack(basis, base) == IF basis = "Amount" THEN 0 ELSE base

MulRatio(rule, base, ratio) ==
  LET den == IF ratio.den < 0 THEN -ratio.den ELSE ratio.den
      num == IF ratio.den < 0 THEN -ratio.num ELSE ratio.num
      exact == Exact(rule.basis, base, num, den)
      rounded == RoundRational(rule, exact, den)
      sum == rounded.value + AddedBack(rule.basis, base)
  IN  IF ratio.den = 0 THEN Err("ZeroDenominator")
      ELSE IF ~FitsWide(exact) THEN Err("Overflow")
      ELSE IF ~rounded.ok THEN rounded
      ELSE IF ~FitsWide(sum) THEN Err("Overflow")
      ELSE Checked(sum)

=============================================================================
