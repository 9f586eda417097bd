--------------------------- MODULE MCCalculation ---------------------------
(***************************************************************************)
(* A small vintage - two statuses, two edges, four archived years - the    *)
(* ways a maintainer may write it, right and wrong, and incomes on, beside *)
(* and between the edges.                                                  *)
(***************************************************************************)
EXTENDS Calculation, TLC, FiniteSets

MCStatuses == {"single", "mfj"}
MCYearOf == ("2022" :> 2022) @@ ("2023" :> 2023) @@ ("2024" :> 2024) @@ ("2025" :> 2025)
            @@ ("2026" :> 2026) @@ ("1850" :> 1850)
MCMonthOf == ("2021-M12" :> 24263) @@ ("2022-M01" :> 24264) @@ ("2022-M12" :> 24275)
             @@ ("2023-M01" :> 24276) @@ ("2023-M12" :> 24287) @@ ("2024-M01" :> 24288)
             @@ ("2024-M12" :> 24299) @@ ("2025-M01" :> 24300)

Dec(digits, places) == [form |-> "decimal", negative |-> FALSE, digits |-> digits, places |-> places]
MCLiteralOf ==
  ("0.10" :> Dec(10, 2)) @@ ("0.125" :> Dec(125, 3)) @@ ("1.5" :> Dec(15, 1)) @@ ("2" :> Dec(2, 0))
  @@ ("1/3" :> [form |-> "fraction", num |-> 1, den |-> 3])
  @@ ("1/0" :> [form |-> "fraction", num |-> 1, den |-> 0])
  @@ ("-0.10" :> [form |-> "decimal", negative |-> TRUE, digits |-> 10, places |-> 2])
  @@ ("50" :> Dec(50, 0)) @@ ("50.5" :> Dec(505, 1)) @@ ("51.25" :> Dec(5125, 2))
  @@ ("53" :> Dec(53, 0)) @@ ("57.5" :> Dec(575, 1))
  @@ ("0.00001" :> Dec(1, 5)) @@ ("0.0000000001" :> Dec(1, 10))
  @@ ("110.5" :> Dec(1105, 1)) @@ ("110.50" :> Dec(11050, 2))
MCDateOf == ("2025-10-09" :> <<2025, 10, 9>>) @@ ("2025-02-29" :> <<2025, 2, 29>>)
            @@ ("2024-02-29" :> <<2024, 2, 29>>)

One(kind) == [bytes |-> 8, segments |-> <<kind>>]
MCSpellingOf ==
  ("irs.ordinary_brackets" :> [bytes |-> 21, segments |-> <<"lower", "lower">>])
  @@ ("single" :> One("lower")) @@ ("mfj" :> One("lower")) @@ ("low" :> One("lower"))
  @@ ("high" :> One("mixed")) @@ ("top of 22" :> One("other"))
  @@ ("a..b" :> [bytes |-> 4, segments |-> <<"lower", "empty", "lower">>])
  @@ ("top.high" :> [bytes |-> 8, segments |-> <<"lower", "lower">>])
  @@ ("long" :> [bytes |-> 97, segments |-> <<"lower">>])

-----------------------------------------------------------------------------
(* The documents                                                           *)

Without(map, key) == [k \in DOMAIN map \ {key} |-> map[k]]
Ints(seq) == Array([i \in DOMAIN seq |-> Integer(seq[i])])
Strs(seq) == Array([i \in DOMAIN seq |-> Str(seq[i])])

ASource == [title |-> Str("Rev. Proc."), url |-> Str("https"), retrieved |-> Str("2025-10-09"),
            sha256 |-> Str("hex64"), archive |-> Str("archived")]

Edges(low, high) == Ints(<<low, high>>)
ByEdge(low, high) == Table([low |-> Integer(low), high |-> Integer(high)])

Rounded == [increment |-> Integer(1), direction |-> Str("down"), basis |-> Str("IncreaseOverBase")]

IndexedBlock ==
  [rule |-> Str("index"), index |-> Str("cpi"), index_series |-> Str("cpi.jan2m"),
   lag_years |-> Integer(1), base_year_by_edge |-> Table("2024" :> ByEdge(2022, 2022)
                                                        @@ "2026" :> ByEdge(2023, 2022)),
   base_values |-> Table([single |-> Edges(9, 30), mfj |-> Edges(18, 60)]),
   rounding |-> Table(Rounded)]

Brackets ==
  [id |-> Str("irs.ordinary_brackets"), unit |-> Str("USD"), breakdown |-> Strs(<<"filingStatus">>),
   period |-> Str("year"), as_of |-> Str("2025-10-09"),
   verification |-> Str("pending-hand-verification"), edges |-> Strs(<<"low", "high">>),
   values |-> Table([single |-> Table("2025" :> Edges(10, 40)), mfj |-> Table("2025" :> Edges(20, 80))]),
   rates |-> Table("unit" :> Str("ratio") @@ "rule" :> Str("flat")
                   @@ "2024" :> Strs(<<"0.10", "0.125", "1/3">>)),
   projection |-> Table(IndexedBlock), source |-> Array(<<Table(ASource)>>),
   hand_verification |-> Table([open |-> Strs(<<"read back">>)])]

Deduction ==
  [id |-> Str("irs.std_deduction"), unit |-> Str("USD"), breakdown |-> Strs(<<"filingStatus">>),
   as_of |-> Str("2025-10-09"),
   values |-> Table([single |-> Table("2025" :> Integer(15)), mfj |-> Table("2025" :> Integer(30))]),
   projection |-> Table([rule |-> Str("flat")]), source |-> Array(<<Table(ASource)>>)]

Obs(first, a, second, b) == Table(first :> Str(a) @@ second :> Str(b))
Cpi ==
  [id |-> Str("bls.cpi"), kind |-> Str("index-series"), index_series |-> Str("cpi.jan2m"),
   as_of |-> Str("2025-10-09"),
   window |-> Table([kind |-> Str("trailing-12-month-mean"), months |-> Integer(2),
                     ends_month |-> Integer(1)]),
   observations |-> Table("2022" :> Obs("2021-M12", "50", "2022-M01", "50.5")
                          @@ "2023" :> Obs("2022-M12", "50.5", "2023-M01", "51.25")
                          @@ "2024" :> Obs("2023-M12", "51.25", "2024-M01", "53")
                          @@ "2025" :> Obs("2024-M12", "53", "2025-M01", "57.5")),
   window_sum |-> Table("2025" :> Str("110.50")),
   source |-> Array(<<Table(ASource)>>)]

Vintaged(doc) == [name |-> "federal-2026", tables |-> <<doc, Deduction>>, series |-> <<Cpi>>,
                  report |-> "generated"]
Base == Vintaged(Brackets)
Put(changes) == Vintaged(changes @@ Brackets)
Drop(key) == Vintaged(Without(Brackets, key))
Rule(changes) == Put([projection |-> Table(changes @@ IndexedBlock)])
DropRule(key) == Put([projection |-> Table(Without(IndexedBlock, key))])
RoundBy(changes) == Rule([rounding |-> Table(changes @@ Rounded)])
Cited(changes) == Put([source |-> Array(<<Table(changes @@ ASource)>>)])
Archived(changes) == [Base EXCEPT !.series = <<changes @@ Cpi>>]

\* One base year for every edge
Scalar(changes) ==
  [projection |-> Table(changes @@ [base_year |-> Integer(2022)]
                        @@ Without(IndexedBlock, "base_year_by_edge"))]
DerivedJoint == [base_values |-> Table([single |-> Edges(9, 30)]),
                 derived |-> Table([mfj |-> Table([from |-> Str("single"), multiplier |-> Str("1.5")])])]
FromDerived == [derived |-> Table([mfj |-> Table([from |-> Str("mfj"), multiplier |-> Str("2")])])]

PublishedAs(low, high) ==
  [values |-> Table([single |-> Table("2025" :> Edges(low, high)), mfj |-> Table("2025" :> Edges(20, 80))])]
Ladder(year, rates) ==
  [rates |-> Table("unit" :> Str("ratio") @@ "rule" :> Str("flat") @@ year :> Strs(rates))]
ByStatus(single, mfj) == Table([single |-> Integer(single), mfj |-> Integer(mfj)])

\* Accepted by the loader
Accepted == <<
  Base,
  Put(PublishedAs(10, 10)),                                          \* equal edges
  Put([edges |-> Strs(<<"low", "top of 22">>)] @@ Scalar(<<>>)),   \* a name that is no identifier
  Put([edges |-> Strs(<<"low", "top.high">>)] @@ Scalar(<<>>)),
  Put([projection |-> Table([rule |-> Str("flat")])]),
  Put([projection |-> Table([rule |-> Str("wage")])]),
  Put(Scalar(DerivedJoint)),
  Rule([first_adjusted_year |-> Integer(2027)]),
  Rule([lag_years |-> Integer(3)]),
  RoundBy([direction |-> Str("up"), basis |-> Str("Amount")]),
  RoundBy([increment |-> Integer(40), direction |-> Str("halfUp"), basis |-> Str("Amount")]),
  Rule([rounding |-> Table(Without(Rounded, "increment") @@ [increment_by_key |-> ByStatus(5, 2)])]),
  Put([verification |-> Str("hand-worked-reviewed")]),
  Drop("rates"),
  [Base EXCEPT !.report = "none"] >>

\* One fault each: refused before anything is served
Refused == <<
  [Base EXCEPT !.report = "malformed"],
  [Base EXCEPT !.series = <<>>], [Base EXCEPT !.series = <<Cpi, Cpi>>],
  [Base EXCEPT !.tables = <<Brackets, Brackets>>],
  [Base EXCEPT !.tables = <<Brackets, [id |-> Str("bls.cpi")] @@ Deduction>>],
  Drop("id"), Drop("unit"), Drop("breakdown"), Drop("values"), Drop("projection"), Drop("as_of"),
  Drop("source"), Put([units |-> Str("USD")]), Put([id |-> Str("")]), Put([unit |-> Str("EUR")]),
  Put([edges |-> Strs(<<>>)]), Put([edges |-> Strs(<<"low", "low">>)]),
  Put([edges |-> Strs(<<"low">>)]), Put([breakdown |-> Strs(<<"year">>)]),
  Put(PublishedAs(40, 10)), Put(PublishedAs(-1, 10)), Put(PublishedAs(10, 201)),
  Put([values |-> Table([single |-> Table("1850" :> Edges(1, 4)), mfj |-> Table("2025" :> Edges(20, 80))])]),
  Put([values |-> Table([single |-> Table("2025" :> Array(<<Float, Float>>)),
                         mfj |-> Table("2025" :> Edges(20, 80))])]),
  Put(Ladder("2024", <<"0.10", "0.125">>)), Put(Ladder("2024", <<"0.10", "0.125", "1.5">>)),
  Put(Ladder("2024", <<"0.10", "-0.10", "1/3">>)), Put(Ladder("2024", <<"0.10", "1/0", "1/3">>)),
  Put(Ladder("1850", <<"0.10", "0.125", "1/3">>)), Put(Ladder("2024", <<"0.10", "10%", "1/3">>)),
  DropRule("rule"), DropRule("index"), DropRule("index_series"), DropRule("lag_years"),
  DropRule("base_year_by_edge"), DropRule("base_values"), DropRule("rounding"),
  Rule([rule |-> Str("cpi")]), Rule([lag_years |-> Integer(11)]), Rule([base_year |-> Integer(2022)]),
  Rule([base_year_by_edge |-> Table("2024" :> Table([low |-> Integer(2022)]))]),
  Rule([base_values |-> Table([single |-> Edges(0, 30), mfj |-> Edges(18, 60)])]), Rule(FromDerived),
  RoundBy([increment_by_key |-> ByStatus(5, 2)]),
  RoundBy([direction |-> Str("nearer")]), RoundBy([basis |-> Str("Increase")]),
  Put([as_of |-> Str("2025-02-29")]), Put([verification |-> Str("verified")]),
  Put([source |-> Array(<<>>)]), Cited([url |-> Str("http")]), Cited([sha256 |-> Str("short")]),
  Cited([title |-> Str(" ")]), Cited([archive |-> Str("elsewhere")]), Cited([page |-> Integer(3)]),
  Put([hand_verification |-> Table([open |-> Str("read back")])]),
  Archived([kind |-> Str("table")]), Archived([index_series |-> Str("")]),
  Archived([window_sum |-> Table("2025" :> Str("110"))]),
  Archived([window_sum |-> Table("2026" :> Str("110.5"))]),
  Archived([window |-> Table([kind |-> Str("trailing-12-month-mean"), months |-> Integer(13),
                              ends_month |-> Integer(1)])]),
  Archived([window |-> Table([kind |-> Str("trailing-12-month-mean"), months |-> Integer(2),
                              ends_month |-> Integer(2)])]),
  Archived([observations |-> Table("2022" :> Obs("2021-M12", "50", "2022-M01", "-0.10"))]),
  Archived([observations |-> Table("2022" :> Obs("2021-M12", "50", "2022-M01", "0.0000000001"))]) >>

\* Refused too: what IndexedTablesAreComplete is about
Incomplete == <<
  Put([values |-> Table([single |-> Table("2025" :> Edges(10, 40))])]),
  Rule([base_values |-> Table([single |-> Edges(9, 30)])]),
  RoundBy([increment |-> Integer(0)]),
  Rule([rounding |-> Table(Without(Rounded, "increment") @@ [increment_by_key |-> ByStatus(5, 0)])]) >>

MCBuilds == Accepted \o Refused \o Incomplete

MCRequests ==
  [year : {2025, 2026}, status : {"single"}, income : {0, 1000, 3400, 4005, 15033}]
  \cup [year : {2024, 2027}, status : {"single"}, income : {1000}]
  \cup [year : {2026}, status : {"mfj"}, income : {-1, 3000, 16001}]

-----------------------------------------------------------------------------
(* The operators no request reaches, against what their comments promise   *)

ASSUME Literals ==
  /\ ParseRatio(Literal("0.10")) = Ok([num |-> 10, den |-> 100])
  /\ ParseRatio(Literal("1/0")) = Err("ZeroDenominator")
  /\ ParseRatio(Literal("10%")) = Err("Malformed")
  /\ ParseRatio(Literal("0.00001")) = Err("OutOfRange")

ASSUME LowestTerms ==
  \A num \in -6 .. 6, den \in (-6 .. 6) \ {0} :
    LET r == Reduced([num |-> num, den |-> den]).value
    IN  /\ r.den > 0 /\ r.num * den = num * r.den
        /\ \A d \in 2 .. r.den : ~(r.num % d = 0 /\ r.den % d = 0)
ASSUME Ends ==
  /\ Reduced([num |-> MinInt, den |-> -1]) = Err("None")
  /\ CheckedNeg(MinInt) = Err("Overflow") /\ CheckedNeg(MaxInt) = Ok(MinInt + 1)
  /\ CheckedAdd(MaxInt, 1) = Err("Overflow") /\ CheckedSub(MinInt, 1) = Err("Overflow")
  /\ FromDollars(MaxInt) = Err("Overflow")
  /\ Decimal(-5) = [negative |-> TRUE, dollars |-> 0, cents |-> 5]

ASSUME Names ==
  /\ NewRef("irs.ordinary_brackets").ok /\ ~NewRef("high").ok /\ ~NewRef("long").ok
  /\ ~WithKey(Whole("low"), "top.high").ok /\ ~WithElement(Whole("low"), "a..b").ok
  /\ ReadRef(WithKey(Whole("low"), "single").value).ok

ASSUME TopOfTheLadder ==
  LET r(num, den) == [num |-> num, den |-> den]
  IN  /\ TopRate(<<r(10, 100), r(1, 3), r(2, 6)>>) = r(1, 3)
      /\ TopRate(<<r(0, 7)>>) = r(0, 1)

ASSUME LocksOnlyItself ==
  LET v == ParseVintage(Base.name, Base.tables, Base.series).value
      w == ParseVintage("federal-2027", Base.tables, Base.series).value
  IN  /\ ~VintageId(v).ok /\ VintageId(LockedAs(v, v.contentId).value) = Ok(v.contentId)
      /\ LockedAs(v, w.contentId) = Err("VintageIdMismatch")
      /\ WindowSum(v.series["cpi.jan2m"], 2025) = Ok([num |-> 11050, den |-> 100])

ASSUME LoaderVerdicts ==
  /\ \A i \in DOMAIN Accepted : VintageOk(Accepted[i].tables, Accepted[i].series)
  /\ \A i \in DOMAIN Refused :
       ~(VintageOk(Refused[i].tables, Refused[i].series) /\ ReportOk(Refused[i]))

=============================================================================
