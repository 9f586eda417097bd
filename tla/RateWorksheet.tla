--------------------------- MODULE RateWorksheet ---------------------------
(***************************************************************************)
(* pfp-tax: one year's rate schedule for one filing status (table.rs) and  *)
(* the worksheet that applies it to a taxable income (schedule.rs), which  *)
(* is the loop over the brackets: one step of this specification is one    *)
(* round of the loop, with every early return in it.                       *)
(*                                                                         *)
(* The specification is stated for any table the constructor accepts and   *)
(* any income; Calculation runs it for the tables a vintage yields.        *)
(* A line id is <<what, bracket>>, for sched.ti, sched.b<n>.amount and so  *)
(* on, and brackets are counted from one.                                  *)
(***************************************************************************)
EXTENDS Integers, Sequences, Money, Lines

CONSTANT OrdinaryBrackets      \* the table id irs.ordinary_brackets

VARIABLES
  pc,            \* idle, brackets, done or failed
  table,         \* the schedule: year, status, tops, edgeNames, rates
  income,        \* taxable_income
  n,             \* brackets computed so far
  bottom,        \* the edge the next bracket starts over
  bottomRef,     \* the cells of that edge: none or one
  sum,           \* the tax of the brackets so far
  covered,       \* history: the income that has fallen in a bracket so far
  lines,         \* the trace
  error          \* why there is no answer

worksheet == <<pc, table, income, n, bottom, bottomRef, sum, covered, lines, error>>

TI == <<"ti", 0>>
AmountId(b) == <<"amount", b>>
TaxId(b) == <<"tax", b>>
Sum == <<"sum", 0>>
Tax == <<"total", 0>>
BracketTaxesBelow(last) == [b \in 1 .. last - 1 |-> TaxId(b)]   \* MUTANT of BracketTaxes
BracketTaxes(last) == [b \in 1 .. last |-> TaxId(b)]

\* MUTANT of WholeDollar: truncated
WholeDollarDown == [increment |-> CentsPerDollar, direction |-> "down", basis |-> "Amount"]
WholeDollar == [increment |-> CentsPerDollar, direction |-> "halfUp", basis |-> "Amount"]
CentHalfEven == [increment |-> 1, direction |-> "halfEven", basis |-> "Amount"]

-----------------------------------------------------------------------------
(* The table                                                               *)

\* One more rate than edges, a name for each edge, edges increasing from zero, rates in [0, 1]
IsSchedule(tops, edgeNames, rates) ==
  /\ Len(rates) = Len(tops) + 1
  /\ Len(edgeNames) = Len(tops)
  /\ Len(tops) > 0 => tops[1] >= 0
  /\ \A i \in 1 .. Len(tops) - 1 : tops[i] < tops[i + 1]
  /\ \A i \in DOMAIN rates :
       rates[i].den > 0 /\ 0 <= rates[i].num /\ rates[i].num <= rates[i].den

\* MUTANT of FromParts: nothing is checked
FromPartsUnchecked(year, status, tops, edgeNames, rates) ==
  Ok([year |-> year, status |-> status, tops |-> tops, edgeNames |-> edgeNames, rates |-> rates])

FromParts(year, status, tops, edgeNames, rates) ==
  IF IsSchedule(tops, edgeNames, rates)
  THEN Ok([year |-> year, status |-> status, tops |-> tops,
           edgeNames |-> edgeNames, rates |-> rates])
  ELSE Err("MalformedTable")

\* The first of the greatest rates, or zero
TopRate(rates) ==
  LET above(r, s) == r.num * s.den > s.num * r.den
      zero == [num |-> 0, den |-> 1]
      top == CHOOSE i \in DOMAIN rates :
               /\ \A j \in DOMAIN rates : ~above(rates[j], rates[i])
               /\ \A j \in 1 .. i - 1 : above(rates[i], rates[j])
  IN  IF \E i \in DOMAIN rates : above(rates[i], zero) THEN rates[top] ELSE zero

\* The parameter cell of an edge of the table
Cell(t, edge) ==
  LET key == WithKey(WithYear(Whole(OrdinaryBrackets), t.year), t.status)
  IN  IF ~ValidId(OrdinaryBrackets, Lower, TRUE) THEN Err("Id")
      ELSE IF ~key.ok THEN key ELSE WithElement(key.value, edge)

\* The parameter cell of a bracket's rate
RateCell(t, b) ==
  [WithYear(Whole(OrdinaryBrackets), t.year) EXCEPT !.element = <<"rates", b>>]

-----------------------------------------------------------------------------
(* The loop                                                                *)

Least(a, b) == IF a < b THEN a ELSE b
Greatest(a, b) == IF a > b THEN a ELSE b

Begin(t, ti) ==
  /\ pc = "idle"
  /\ table' = t /\ income' = ti
  /\ n' = 0 /\ bottom' = 0 /\ bottomRef' = <<>> /\ sum' = 0 /\ covered' = 0
  /\ IF ti < 0
     THEN pc' = "failed" /\ error' = "NegativeTaxableIncome" /\ lines' = <<>>
     ELSE pc' = "brackets" /\ error' = None /\ lines' = <<Line(TI, ti)>>

\* The cells of a bracket's upper edge; the last bracket has none
TopRef(t, b) ==
  LET cell == Cell(t, t.edgeNames[b])
  IN  IF b > Len(t.tops) THEN Ok(<<>>) ELSE IF cell.ok THEN Ok(<<cell.value>>) ELSE cell

\* How far the income goes in a bracket, over its lower edge
Above(t, ti, b, from) ==
  CheckedSub(IF b > Len(t.tops) THEN ti ELSE Least(ti, t.tops[b]), from)

AmountLine(b, amount, refs) == [Input(Line(AmountId(b), amount), TI) EXCEPT !.params = refs]
TaxLine(t, b, tax) ==
  RoundedBy(Param(Input(Line(TaxId(b), tax), AmountId(b)), RateCell(t, b)), "money.cent_half_even")

\* What a round of the loop makes of the state, or the error it returns
Round(t, ti, b, from, fromRef, total, trace) ==
  LET topRef == TopRef(t, b)
      above == Above(t, ti, b, from)
      amount == Greatest(above.value, 0)
      pushed == Push(trace, AmountLine(b, amount, fromRef \o topRef.value))
      tax == MulRatio(CentHalfEven, amount, t.rates[b])
      pushedTax == Push(pushed.value, TaxLine(t, b, tax.value))
      added == CheckedAdd(total, tax.value)
  IN  IF ~topRef.ok THEN topRef
      ELSE IF ~above.ok THEN above
      ELSE IF ~pushed.ok THEN pushed
      ELSE IF ~tax.ok THEN tax
      ELSE IF ~pushedTax.ok THEN pushedTax
      ELSE IF ~added.ok THEN added
      ELSE Ok([sum |-> added.value, lines |-> pushedTax.value, amount |-> amount,
               bottom |-> IF b > Len(t.tops) THEN from ELSE t.tops[b], bottomRef |-> topRef.value])

Fail(e) ==
  /\ pc' = "failed" /\ error' = e
  /\ UNCHANGED <<table, income, n, bottom, bottomRef, sum, covered, lines>>

Bracket ==
  LET round == Round(table, income, n + 1, bottom, bottomRef, sum, lines)
  IN  /\ pc = "brackets" /\ n < Len(table.rates)
      /\ IF round.ok
         THEN /\ n' = n + 1
              /\ sum' = round.value.sum /\ lines' = round.value.lines
              /\ bottom' = round.value.bottom /\ bottomRef' = round.value.bottomRef
              /\ covered' = covered + round.value.amount
              /\ UNCHANGED <<pc, table, income, error>>
         ELSE Fail(round.error)

\* The two lines after the loop: the sum, and the sum rounded once to the whole dollar
Totals(total, brackets, trace) ==
  LET sumLine == Inputs(Line(Sum, total), BracketTaxes(brackets))
      pushed == Push(trace, sumLine)
      rounded == CheckedRound(WholeDollar, total)
      taxLine == RoundedBy(Input(Line(Tax, rounded.value), Sum), "irs.whole_dollar")
  IN  IF ~pushed.ok THEN pushed
      ELSE IF ~rounded.ok THEN rounded
      ELSE Push(pushed.value, taxLine)

Total ==
  LET totals == Totals(sum, n, lines)
  IN  /\ pc = "brackets" /\ n = Len(table.rates)
      /\ IF totals.ok
         THEN /\ pc' = "done" /\ lines' = totals.value
              /\ UNCHANGED <<table, income, n, bottom, bottomRef, sum, covered, error>>
         ELSE Fail(totals.error)

\* The caller has the answer, or the error; the locals of the call are gone
Return ==
  /\ pc \in {"done", "failed"}
  /\ pc' = "idle" /\ table' = None /\ income' = 0 /\ n' = 0 /\ bottom' = 0 /\ bottomRef' = <<>>
  /\ sum' = 0 /\ covered' = 0 /\ lines' = <<>> /\ error' = None

-----------------------------------------------------------------------------
(* For every schedule the constructor accepts and every income             *)

Schedules ==
  [year : Int, status : STRING, tops : Seq(Int64), edgeNames : Seq(STRING),
   rates : Seq([num : Int64, den : Int64])]

AnyBegin ==
  /\ table' \in Schedules /\ IsSchedule(table'.tops, table'.edgeNames, table'.rates)
  /\ income' \in Int64
  /\ Begin(table', income')

WorksheetInit ==
  /\ pc = "idle" /\ table = None /\ income = 0 /\ n = 0 /\ bottom = 0 /\ bottomRef = <<>>
  /\ sum = 0 /\ covered = 0 /\ lines = <<>> /\ error = None

WorksheetNext == AnyBegin \/ Bracket \/ Total \/ Return

WorksheetSpec == WorksheetInit /\ [][WorksheetNext]_worksheet

(* What schedule.rs relies on when it hands its callers the errors of the  *)
(* money and explanation crates: of a schedule and an income that is not   *)
(* negative the worksheet always comes out, whatever the rates divide.     *)
(* Only an edge whose name is no identifier stops it, and an income within *)
(* half a dollar of i64::MAX, whose tax may round up past it; no line is   *)
(* refused by the trace and no product overflows.  And when it comes out,  *)
(* the brackets hold the whole income once, and the tax before rounding is *)
(* at most the income.                                                     *)
WorksheetIsTotal ==
  /\ pc = "failed" => \/ error \in {"NegativeTaxableIncome", "Id"}
                      \/ income > MaxInt - CentsPerDollar \div 2
  /\ pc = "done" => covered = income /\ 0 <= sum /\ sum <= income

=============================================================================
