---------------------------- MODULE IndexSeries ----------------------------
(***************************************************************************)
(* pfp-params, the archived price-index series (series.rs): which          *)
(* documents the loader accepts, and the exact window sums it keeps.       *)
(*                                                                         *)
(* An observation is the text of a decimal number: LiteralOf gives its     *)
(* digits as one integer and how many of them come after the point.        *)
(***************************************************************************)
EXTENDS Integers, Sequences, FiniteSetsExt, ParameterTables

CONSTANTS
  MonthOf,           \* text "YYYY-Mmm" -> the month, 12 * year + month - 1
  MaxIntegerDigits   \* digits before the point of an observation: 18 in the code

SeriesFields ==
  {"id", "kind", "index_series", "series_id", "unit", "base_period", "periodicity", "as_of",
   "verification", "statutory_name", "window", "observations", "window_sum",
   "revision_vintage", "hand_verification", "source"}

MonthsPerYear == 12
MaxScale == 9

\* So that the provers, which have no rule for ^, know what a scale is
ASSUME IndexSeriesAssumption == \A places \in 0 .. MaxScale : 10 ^ places \in Nat \ {0}

\* digits[.digits], no sign, not too many of them
ObservationOk(text) ==
  /\ Literal(text).form = "decimal"
  /\ ~Literal(text).negative
  /\ Literal(text).places <= MaxScale
  /\ Literal(text).digits < 10 ^ (MaxIntegerDigits + Literal(text).places)

RangedOk(window, key) == Required(window, key, "integer") /\ window[key].value \in 1 .. 12
WindowOk(root) ==
  /\ Required(root, "window", "table")
  /\ LET window == root["window"].value
     IN  OneOf(window, "kind", {"trailing-12-month-mean"})
         /\ RangedOk(window, "months") /\ RangedOk(window, "ends_month")

\* The months of the window that ends in a given month of the year
ExpectedMonths(root, year) ==
  LET window == root["window"].value
      last == year * MonthsPerYear + window["ends_month"].value - 1
  IN  last - window["months"].value + 1 .. last

Observed(root, text) == root["observations"].value[text].value

ObservationsOk(root) ==
  /\ Required(root, "observations", "table")
  /\ \A k \in DOMAIN root["observations"].value :
       /\ IsYearKey(k) /\ root["observations"].value[k].type = "table"
       /\ LET obs == Observed(root, k)
          IN  /\ {MonthOf[m] : m \in DOMAIN obs \cap DOMAIN MonthOf} = ExpectedMonths(root, YearOf[k])
              /\ DOMAIN obs \subseteq DOMAIN MonthOf
              /\ \A m \in DOMAIN obs : Required(obs, m, "string") /\ ObservationOk(obs[m].value)

\* The number of decimal places of the finest observation
Scale(root) ==
  LET texts(k) == {Observed(root, k)[m].value : m \in DOMAIN Observed(root, k)}
      places == {Literal(t).places : t \in UNION {texts(k) : k \in DOMAIN root["observations"].value}}
  IN  IF places = {} THEN 0 ELSE Max(places)

Scaled(text, scale) == Literal(text).digits * 10 ^ (scale - Literal(text).places)

\* The exact sum of each archived window, in units of the last place
WindowSums(root) ==
  LET map == root["observations"].value
      sumOf(obs) == SumFunction([m \in DOMAIN obs |-> Scaled(obs[m].value, Scale(root))])
  IN  [y \in Years(map) |-> sumOf(map[TextOf(map, y)].value)]

\* A declared sum is exactly the sum of the observations
DeclaredSumsOk(root) ==
  /\ Optional(root, "window_sum", "table")
  /\ LET declared == FieldOr(root, "window_sum", NoTable)
     IN  \A k \in DOMAIN declared :
           /\ IsYearKey(k) /\ declared[k].type = "string" /\ ObservationOk(declared[k].value)
           /\ YearOf[k] \in DOMAIN WindowSums(root)
           /\ LET places == Literal(declared[k].value).places
                  common == IF places > Scale(root) THEN places ELSE Scale(root)
              IN  Scaled(declared[k].value, common)
                    = WindowSums(root)[YearOf[k]] * 10 ^ (common - Scale(root))

SeriesOk(root) ==
  /\ DocumentIdOk(root)
  /\ OnlyFields(root, SeriesFields)
  /\ OneOf(root, "kind", {"index-series"})
  /\ Required(root, "index_series", "string") /\ root["index_series"].value # ""
  /\ WindowOk(root)
  /\ ObservationsOk(root)
  /\ DeclaredSumsOk(root)
  /\ Optional(root, "series_id", "string")
  /\ RequiredDate(root, "as_of")
  /\ VerificationOk(root)
  /\ SourcesOk(root)
  /\ OpenItemsOk(root)

Series(root) ==
  [id |-> root["id"].value, name |-> root["index_series"].value,
   verification |-> Verification(root), scale |-> Scale(root), sums |-> WindowSums(root)]

HasYear(series, year) == year \in DOMAIN series.sums

\* index(numerator) / index(denominator) in lowest terms: the averaging divisor cancels
Factor(series, numerator, denominator) ==
  LET num == series.sums[numerator]
      den == series.sums[denominator]
      g == Gcd[<<num, den>>]
  IN  IF den <= 0 \/ ~FitsInt(num \div g) \/ ~FitsInt(den \div g) THEN Err("None")
      ELSE NewRatio(num \div g, den \div g)

\* A window sum as digits over a power of ten, not reduced
WindowSum(series, year) ==
  LET den == 10 ^ series.scale
  IN  IF ~FitsInt(series.sums[year]) \/ ~FitsInt(den) THEN Err("None")
      ELSE NewRatio(series.sums[year], den)

=============================================================================
