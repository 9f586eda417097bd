---------------------------- MODULE Calculation ----------------------------
(***************************************************************************)
(* The calculating half of pfp-server: what the build embeds is parsed     *)
(* once, when the server is bound (server.rs); then the handlers of        *)
(* /tax/rate-schedule, its export, /assumptions/list and                   *)
(* /validation/report answer from it (api/tax.rs, api/export.rs,           *)
(* api/dto.rs, api/assumptions.rs, api/validation.rs).                     *)
(*                                                                         *)
(* The handlers share nothing that changes, so one request at a time is    *)
(* computed; a worksheet is computed by the steps of RateWorksheet.        *)
(***************************************************************************)
EXTENDS Integers, Sequences, Functions, Money, Lines, Parameters, RateWorksheet

CONSTANTS
  Builds,             \* sequence of [name, tables, series, report]: what a build may embed
  Requests,           \* [year, status, income]: rate-schedule requests
  Formats,            \* csv, json
  MaxTaxableIncome    \* 2^53 - 1 in the code

ASSUME CalculationAssumption ==
  /\ MaxTaxableIncome \in 0 .. MaxInt
  /\ ValidId(OrdinaryBrackets, Lower, TRUE) /\ \A s \in Statuses : ValidId(s, Mixed, FALSE)
  /\ \A request \in Requests :
       request.year \in Int /\ request.status \in STRING /\ request.income \in Int
  /\ \A i \in DOMAIN Builds :
       /\ \A j \in DOMAIN Builds[i].tables : IsDocument(Builds[i].tables[j])
       /\ \A j \in DOMAIN Builds[i].series : IsDocument(Builds[i].series[j])

VARIABLES
  phase,         \* stopped, refused or serving
  vintage,       \* the parsed vintage
  report,        \* the embedded validation report: none or generated
  job,           \* the request being computed
  answer,        \* the last answer
  last           \* history: the last worksheet answered before it

server == <<phase, vintage, report, job, answer, last>>
vars == <<worksheet, server>>

RequestOf(j) == [year |-> j.year, status |-> j.status, income |-> j.income]
Refusal(code, defect) == [kind |-> "error", code |-> code, event |-> defect]

\* What the build was made with, none of it readable at run time
ReportOk(build) == build.report \in {"none", "generated"}

Init ==
  /\ WorksheetInit
  /\ phase = "stopped" /\ vintage = None /\ report = "none"
  /\ job = None /\ answer = None /\ last = None

\* Server::bind refuses to start rather than serve parameters or a report it cannot read
Bind(build) ==
  LET parsed == ParseVintage(build.name, build.tables, build.series)
  IN  /\ phase = "stopped"
      /\ IF parsed.ok /\ ReportOk(build)
         THEN phase' = "serving" /\ vintage' = parsed.value /\ report' = build.report
         ELSE phase' = "refused" /\ UNCHANGED <<vintage, report>>
      /\ UNCHANGED <<worksheet, job, answer, last>>

-----------------------------------------------------------------------------
(* The rate schedule                                                       *)

\* The schedule in force for a year and a status
InForce(v, year, status) ==
  LET value == ValueInForce(v, OrdinaryBrackets, year, status)
      rates == RatesInForce(v, OrdinaryBrackets, year)
  IN  IF ~value.ok THEN value
      ELSE IF ~rates.ok THEN rates
      ELSE FromParts(year, status, value.value.amounts,
                     v.tables[OrdinaryBrackets].components, rates.value)

\* The caller's inputs are refused; a defect of the build is recorded and hidden
Failure(e) ==
  IF e \in {"MalformedTable", "Id", "DuplicateLine", "UnknownInput"}
  THEN Refusal("INTERNAL", TRUE)
  ELSE Refusal("SCHEDULE_INPUT_INVALID", FALSE)

Remembered == IF answer # None /\ answer.kind = "worksheet" THEN answer ELSE last

Reply(a) == answer' = a /\ last' = Remembered /\ job' = None

Compute(kind, request) ==
  LET t == InForce(vintage, request.year, request.status)
  IN  /\ phase = "serving" /\ job = None
      /\ IF request.income \notin 0 .. MaxTaxableIncome
         THEN Reply(Refusal("SCHEDULE_INPUT_INVALID", FALSE)) /\ UNCHANGED worksheet
         ELSE IF ~t.ok THEN Reply(Failure(t.error)) /\ UNCHANGED worksheet
         ELSE /\ Begin(t.value, request.income)
              /\ job' = [kind |-> kind, year |-> request.year, status |-> request.status,
                         income |-> request.income]
              /\ answer' = None /\ last' = Remembered
      /\ UNCHANGED <<phase, vintage, report>>

RateSchedule(request) == Compute("worksheet", request)
RateScheduleExport(request, format) == Compute(format, request)

Summary(v) ==
  [name |-> v.name, contentId |-> v.contentId, lockedId |-> VintageId(v),
   verified |-> VintageIsVerified(v)]

Response(kind) ==
  [kind |-> kind, request |-> RequestOf(job), tax |-> ValueOf(lines, Tax).value, root |-> Tax,
   lines |-> lines, locked |-> VintageId(vintage).ok, verified |-> VintageIsVerified(vintage)]

\* One record for each line in computation order, with the vintage's status in every one
CsvRow(response, i) ==
  LET line == response.lines[i]
  IN  [year |-> response.request.year, status |-> response.request.status, lineNo |-> i,
       lineId |-> line.id, amount |-> line.value, computedFrom |-> line.inputs,
       parameters |-> line.params, rounding |-> line.rounding,
       isResult |-> line.id = response.root,
       locked |-> response.locked, verified |-> response.verified]

Csv(response) ==
  [kind |-> "csv", request |-> response.request, contentType |-> "text/csv",
   file |-> "rate-schedule.csv",
   rows |-> [i \in DOMAIN response.lines |-> CsvRow(response, i)]]

Json(response) ==
  [kind |-> "json", request |-> response.request, contentType |-> "application/json",
   file |-> "rate-schedule.json", body |-> response]

Answer ==
  CASE job.kind = "csv" -> Csv(Response("worksheet"))
    [] job.kind = "json" -> Json(Response("worksheet"))
    [] OTHER -> Response("worksheet")

\* The worksheet is complete, or the computation stopped at its first error
Finish ==
  /\ job # None /\ Return
  /\ Reply(IF pc = "failed" THEN Failure(error)
           ELSE IF ~ValueOf(lines, Tax).ok THEN Refusal("INTERNAL", TRUE)
           ELSE Answer)
  /\ UNCHANGED <<phase, vintage, report>>

-----------------------------------------------------------------------------
(* The registry and the report                                             *)

\* The rates are listed for the years the table publishes amounts for
Assumption(t, contentId) ==
  LET years == UNION {DOMAIN t.values[k] : k \in DOMAIN t.values}
  IN  [id |-> t.id, vintageId |-> contentId, components |-> t.components,
       verification |-> t.verification, values |-> t.values, projection |-> t.projection,
       rates |-> [y \in {z \in years : HasRow(t.rates, z)} |-> t.rates[Latest(t.rates, y)]],
       openItems |-> t.openItems]

Registry(v) ==
  [kind |-> "registry", summary |-> Summary(v),
   tables |-> [id \in DOMAIN v.tables |-> Assumption(v.tables[id], v.contentId)],
   indexSeries |-> [k \in {v.tables[id].projection.indexSeries : id \in DOMAIN v.tables}
                            \cap DOMAIN v.series |->
                      [id |-> v.series[k].id, verification |-> v.series[k].verification,
                       years |-> DOMAIN v.series[k].sums]]]

ListAssumptions ==
  /\ phase = "serving" /\ job = None
  /\ Reply(Registry(vintage))
  /\ UNCHANGED <<worksheet, phase, vintage, report>>

ValidationReport ==
  /\ phase = "serving" /\ job = None
  /\ Reply([kind |-> "report", state |-> report])
  /\ UNCHANGED <<worksheet, phase, vintage, report>>

-----------------------------------------------------------------------------
Next ==
  \/ \E i \in DOMAIN Builds : Bind(Builds[i])
  \/ \E request \in Requests : RateSchedule(request)
  \/ \E request \in Requests, format \in Formats : RateScheduleExport(request, format)
  \/ Bracket /\ UNCHANGED server
  \/ Total /\ UNCHANGED server
  \/ Finish
  \/ ListAssumptions
  \/ ValidationReport

Spec == Init /\ [][Next]_vars

-----------------------------------------------------------------------------
(* Properties                                                              *)

Worksheet == answer # None /\ answer.kind = "worksheet"
ValuesOf(trace, what) == [b \in {i[2] : i \in {j \in Ids(trace) : j[1] = what}} |->
                           ValueOf(trace, <<what, b>>).value]

(* The worksheet adds up: the brackets hold the whole income and no more,  *)
(* the sum is that of their taxes, and the tax is a whole number of        *)
(* dollars no more than half a dollar from it.  Bracket edges, the cents   *)
(* of an income and the last, open bracket are where a schedule goes       *)
(* wrong.                                                                  *)
Reconciles ==
  Worksheet =>
    LET amounts == ValuesOf(answer.lines, "amount")
        taxes == ValuesOf(answer.lines, "tax")
        total == ValueOf(answer.lines, Sum).value
    IN  /\ SumFunction(amounts) = answer.request.income
        /\ SumFunction(taxes) = total
        /\ answer.tax % CentsPerDollar = 0
        /\ Magnitude(answer.tax - total) * 2 <= CentsPerDollar

(* Everything that was computed is in the audit trail of the result, and   *)
(* the trail is in an order in which each line follows its inputs.         *)
EveryLineIsAudited ==
  Worksheet =>
    /\ Trail(answer.lines, answer.root) = answer.lines
    /\ ReadBack(answer.lines) = Ok(answer.lines)

(* A higher income is never taxed less, in the same year and status,       *)
(* whatever is rounded on the way.                                         *)
TaxIsMonotone ==
  (Worksheet /\ last # None /\ last.request.year = answer.request.year
     /\ last.request.status = answer.request.status
     /\ last.request.income <= answer.request.income)
  => last.tax <= answer.tax

(* A projected amount is the base-year amount plus its increase to the     *)
(* index of the right year, rounded down once: it is independent of every  *)
(* published row and of every other projected year.                        *)
ProjectedOnce ==
  (job # None /\ ~Published(vintage.tables[OrdinaryBrackets], job.year, job.status)
     /\ vintage.tables[OrdinaryBrackets].projection.rule = "index"
     /\ job.year >= vintage.tables[OrdinaryBrackets].projection.firstAdjustedYear
     /\ job.status \notin DOMAIN vintage.tables[OrdinaryBrackets].projection.derived
     /\ vintage.tables[OrdinaryBrackets].projection.rounding[job.status].direction = "down")
  => LET p == vintage.tables[OrdinaryBrackets].projection
         sums == vintage.series[p.indexSeries].sums
         rule == p.rounding[job.status]
         years == BaseYearsFor(p, job.year, Len(table.tops)).value
         offset(i) == AddedBack(rule.basis, p.baseValues[job.status][i])
     IN  \A i \in DOMAIN table.tops :
           LET exact == p.baseValues[job.status][i] * sums[job.year - p.lagYears]
           IN  /\ (table.tops[i] - offset(i)) % rule.increment = 0
               /\ table.tops[i] * sums[years[i]] <= exact
               /\ (table.tops[i] + rule.increment) * sums[years[i]] > exact

(* What view.rs relies on ("Validation guarantees an indexed table has all *)
(* of these"): a table that is served has amounts for every status, in     *)
(* rows as wide as the table, the rows of rates one wider; and one that is *)
(* indexed has, for each status, base amounts of that width or a status to *)
(* derive them from, an increment, base years and the series it reads.     *)
IndexedTablesAreComplete ==
  phase = "serving" =>
    \A id \in DOMAIN vintage.tables :
      LET t == vintage.tables[id]
          p == t.projection
          width == IF t.components = <<>> THEN 1 ELSE Len(t.components)
      IN  /\ \A y \in DOMAIN t.rates : Len(t.rates[y]) = width + 1
          /\ DOMAIN t.values = Statuses
          /\ \A k \in DOMAIN t.values : \A y \in DOMAIN t.values[k] : Len(t.values[k][y]) = width
          /\ p.rule = "index" =>
               /\ p.indexSeries \in DOMAIN vintage.series
               /\ p.baseYear # 0 \/ p.baseYearByEdge # NoTable
               /\ \A k \in DOMAIN t.values :
                    LET from == IF k \in DOMAIN p.derived THEN p.derived[k].from ELSE k
                    IN  /\ from \in DOMAIN p.baseValues /\ Len(p.baseValues[from]) = width
                        /\ from \in DOMAIN p.rounding /\ p.rounding[from].increment > 0

(* A request for a year and status that can be served is never answered    *)
(* INTERNAL, but for what the loader lets through: edges that are equal    *)
(* after rounding or projection, and an edge whose name is no identifier.  *)
OnlyKnownDefects ==
  (answer # None /\ answer.kind = "error" /\ answer.event)
  => LET t == vintage.tables[OrdinaryBrackets]
     IN  \/ \E i \in DOMAIN t.components : ~ValidId(t.components[i], Mixed, TRUE)
         \/ \E request \in Requests :
              LET value == ValueInForce(vintage, OrdinaryBrackets, request.year, request.status)
              IN  value.ok /\ \E i \in 1 .. Len(value.value.amounts) - 1 :
                                value.value.amounts[i] >= value.value.amounts[i + 1]

=============================================================================
