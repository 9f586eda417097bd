-------------------------- MODULE ParameterTables --------------------------
(***************************************************************************)
(* pfp-params, the loader of parameter tables: which documents it accepts  *)
(* (raw.rs, provenance.rs, table.rs) and the table it makes of one.        *)
(*                                                                         *)
(* A document is a TOML table: a function from its keys to values, each    *)
(* with the type it is written in.  What a text spells is given by the     *)
(* constants.  A predicate XxxOk holds when the reader of Xxx returns no   *)
(* error; its conjuncts come in the order of the checks in the code, and   *)
(* which of the ParamErrors is reported is left out: the caller gives up   *)
(* on any of them.                                                         *)
(***************************************************************************)
EXTENDS Integers, Sequences, FiniteSets, Money

CONSTANTS
  Statuses,      \* the wire forms of FilingStatus
  YearOf,        \* text of digits -> the year it spells
  LiteralOf,     \* text -> the number it spells, where it spells one
  DateOf,        \* text of the form dddd-dd-dd -> <<year, month, day>>
  Https,         \* the texts that are https:// URLs
  Hex64,         \* the texts that are 64 lower-case hex digits
  ArchivePaths,  \* the texts that are paths under params/provenance/
  Blank          \* the texts that are empty or white space

ASSUME ParameterTablesAssumption ==
  \A s, t \in DOMAIN YearOf : YearOf[s] = YearOf[t] => s = t

ASSUME LiteralsAssumption ==
  \A text \in DOMAIN LiteralOf : LiteralOf[text].form = "decimal" =>
    LiteralOf[text].digits \in Nat /\ LiteralOf[text].places \in Nat

Str(s) == [type |-> "string", value |-> s]
Integer(i) == [type |-> "integer", value |-> i]
Float == [type |-> "float", value |-> 0]
Array(items) == [type |-> "array", value |-> items]
Table(map) == [type |-> "table", value |-> map]
NoTable == [k \in {} |-> Float]

\* What a document is made of, as deep as the loader reads: texts are strings, integers are
\* integers, a list is a sequence, and a table has finitely many keys
IsValue(v) ==
  /\ v.type = "string" => v.value \in STRING
  /\ v.type = "integer" => v.value \in Int
  /\ v.type = "array" => /\ Len(v.value) \in Nat /\ DOMAIN v.value = 1 .. Len(v.value)
                         /\ v.value = [i \in DOMAIN v.value |-> v.value[i]]
  /\ v.type = "table" => IsFiniteSet(DOMAIN v.value)
Inside(v, Good(_)) ==
  v.type \in {"table", "array"} => \A k \in DOMAIN v.value : Good(v.value[k])
IsTree2(v) == IsValue(v) /\ Inside(v, IsValue)
IsTree3(v) == IsValue(v) /\ Inside(v, IsTree2)
IsTree4(v) == IsValue(v) /\ Inside(v, IsTree3)
IsDocument(root) == \A k \in DOMAIN root : IsTree4(root[k])

-----------------------------------------------------------------------------
(* Reading one field                                                       *)

Optional(map, key, type) == key \in DOMAIN map => map[key].type = type
Required(map, key, type) == key \in DOMAIN map /\ map[key].type = type
OnlyFields(map, allowed) == DOMAIN map \subseteq allowed
OneOf(map, key, texts) == Required(map, key, "string") /\ map[key].value \in texts

\* A field's value where it is present
FieldOr(map, key, absent) == IF key \in DOMAIN map THEN map[key].value ELSE absent

AllStrings(items) == \A i \in DOMAIN items : items[i].type = "string"
OptionalStrings(map, key) ==
  Optional(map, key, "array") /\ (key \in DOMAIN map => AllStrings(map[key].value))
Strings(map, key) ==
  IF key \in DOMAIN map THEN [i \in DOMAIN map[key].value |-> map[key].value[i].value] ELSE <<>>

YearInDomain(year) == year \in 1900 .. 2200
OptionalYear(map, key) ==
  Optional(map, key, "integer") /\ (key \in DOMAIN map => YearInDomain(map[key].value))
IsYearKey(text) == text \in DOMAIN YearOf /\ YearInDomain(YearOf[text])

Literal(text) == IF text \in DOMAIN LiteralOf THEN LiteralOf[text] ELSE [form |-> "other"]

DocumentIdOk(root) == Required(root, "id", "string") /\ root["id"].value # ""

-----------------------------------------------------------------------------
(* Provenance                                                              *)

VerificationWires ==
  {"pending-hand-verification", "primary-source-confirmed", "hand-worked-reviewed"}
IsVerified(verification) ==
  verification \in {"primary-source-confirmed", "hand-worked-reviewed"}
VerificationOk(root) == "verification" \in DOMAIN root => OneOf(root, "verification", VerificationWires)
Verification(root) == FieldOr(root, "verification", "unstated")

IsLeap(year) == (year % 4 = 0 /\ year % 100 # 0) \/ year % 400 = 0
DaysIn(year, month) ==
  CASE month \in {1, 3, 5, 7, 8, 10, 12} -> 31
    [] month \in {4, 6, 9, 11} -> 30
    [] month = 2 -> IF IsLeap(year) THEN 29 ELSE 28
    [] OTHER -> 0
IsDate(text) ==
  text \in DOMAIN DateOf /\ LET d == DateOf[text] IN d[3] \in 1 .. DaysIn(d[1], d[2])

OptionalDate(map, key) ==
  Optional(map, key, "string") /\ (key \in DOMAIN map => IsDate(map[key].value))
RequiredDate(map, key) == key \in DOMAIN map /\ OptionalDate(map, key)

SourceFields ==
  {"title", "publisher", "url", "retrieved", "archive", "sha256", "locator", "as_of"}
NonEmpty(map, key) == Required(map, key, "string") /\ map[key].value \notin Blank

SourceOk(entry) ==
  /\ entry.type = "table"
  /\ LET map == entry.value
     IN  /\ OnlyFields(map, SourceFields)
         /\ NonEmpty(map, "url") /\ map["url"].value \in Https
         /\ NonEmpty(map, "sha256") /\ map["sha256"].value \in Hex64
         /\ "archive" \in DOMAIN map => OneOf(map, "archive", ArchivePaths)
         /\ NonEmpty(map, "title")
         /\ Optional(map, "publisher", "string") /\ RequiredDate(map, "retrieved")
         /\ Optional(map, "locator", "string") /\ OptionalDate(map, "as_of")

SourcesOk(root) ==
  /\ Required(root, "source", "array") /\ root["source"].value # <<>>
  /\ \A i \in DOMAIN root["source"].value : SourceOk(root["source"].value[i])

OpenItemsOk(root) ==
  /\ Optional(root, "hand_verification", "table")
  /\ OptionalStrings(FieldOr(root, "hand_verification", NoTable), "open")
OpenItems(root) == Strings(FieldOr(root, "hand_verification", NoTable), "open")

-----------------------------------------------------------------------------
(* Amounts, by filing status                                               *)

ComponentsOk(root) ==
  /\ OptionalStrings(root, "edges")
  /\ "edges" \in DOMAIN root =>
       LET edges == Strings(root, "edges")
       IN  /\ edges # <<>>
           /\ \A i \in DOMAIN edges :
                edges[i] # "" /\ \A j \in 1 .. i - 1 : edges[j] # edges[i]
Components(root) == Strings(root, "edges")

\* Every key a filing status, and every status there unless it is exempt
KeyedByStatus(map, exempt) == DOMAIN map \subseteq Statuses   \* MUTANT of Keyed: none need be there
Keyed(map, exempt) == DOMAIN map \subseteq Statuses /\ Statuses \ exempt \subseteq DOMAIN map

\* Whole dollars as published
DollarsOk(v) == v.type = "integer" /\ v.value >= 0 /\ FromDollars(v.value).ok

\* One amount, or one for each edge, low to high
AmountsOk(v, edges) ==
  IF edges = <<>> THEN DollarsOk(v)
  ELSE /\ v.type = "array" /\ Len(v.value) = Len(edges)
       /\ \A i \in DOMAIN v.value : DollarsOk(v.value[i])
       /\ \A i \in 1 .. Len(v.value) - 1 : v.value[i].value <= v.value[i + 1].value
Amounts(v, edges) ==
  IF edges = <<>> THEN <<FromDollars(v.value).value>>
  ELSE [i \in DOMAIN v.value |-> FromDollars(v.value[i].value).value]

YearsOk(v, edges) ==
  /\ v.type = "table"
  /\ \A k \in DOMAIN v.value : IsYearKey(k) /\ AmountsOk(v.value[k], edges)
  /\ DOMAIN v.value # {}

\* A map keyed by the text of a year, keyed by the year
Years(map) == {YearOf[k] : k \in DOMAIN map}
TextOf(map, year) == CHOOSE k \in DOMAIN map : YearOf[k] = year

ValuesOk(root) ==
  /\ Required(root, "values", "table")
  /\ Keyed(root["values"].value, {})
  /\ \A k \in DOMAIN root["values"].value : YearsOk(root["values"].value[k], Components(root))
Values(root) ==
  [k \in DOMAIN root["values"].value |->
     LET map == root["values"].value[k].value
     IN  [y \in Years(map) |-> Amounts(map[TextOf(map, y)], Components(root))]]

-----------------------------------------------------------------------------
(* [projection]                                                            *)

ProjectionFields ==
  {"rule", "index", "index_series", "lag_years", "base_year", "base_year_by_edge",
   "first_adjusted_year", "base_values", "derived", "rounding"}
ProjectionRules == {"index", "wage", "flat", "zero", "schedule"}
MaxLagYears == 10

DerivationOk(v) ==
  /\ v.type = "table" /\ OnlyFields(v.value, {"from", "multiplier"})
  /\ Required(v.value, "multiplier", "string")
  /\ LET r == ParseRatio(Literal(v.value["multiplier"].value)) IN r.ok /\ r.value.num > 0
  /\ Required(v.value, "from", "string")

Derived(block) == FieldOr(block, "derived", NoTable)
DerivedOk(block) ==
  /\ Optional(block, "derived", "table")
  /\ DOMAIN Derived(block) \subseteq Statuses
  /\ \A k \in DOMAIN Derived(block) : DerivationOk(Derived(block)[k])

\* Derived from a key that is a status and is not itself derived
DerivedFromOk(block) ==
  \A k \in DOMAIN Derived(block) :
    Derived(block)[k].value["from"].value \in Statuses \ DOMAIN Derived(block)

\* A base amount of zero means not yet transcribed
BaseValuesOk(block, edges) ==
  /\ Optional(block, "base_values", "table")
  /\ "base_values" \in DOMAIN block =>
       LET map == block["base_values"].value
       IN  /\ Keyed(map, DOMAIN Derived(block))
           /\ \A k \in DOMAIN map :
                /\ AmountsOk(map[k], edges)
                /\ \A i \in DOMAIN Amounts(map[k], edges) : Amounts(map[k], edges)[i] # 0
BaseValues(block, edges) ==
  LET map == FieldOr(block, "base_values", NoTable)
  IN  [k \in DOMAIN map |-> Amounts(map[k], edges)]

BaseYearOk(block, edges) ==
  /\ OptionalYear(block, "base_year")
  /\ Optional(block, "base_year_by_edge", "table")
  /\ ~({"base_year", "base_year_by_edge"} \subseteq DOMAIN block)
  /\ "base_year_by_edge" \in DOMAIN block =>
       LET map == block["base_year_by_edge"].value
       IN  /\ edges # <<>>
           /\ \A k \in DOMAIN map :
                /\ IsYearKey(k) /\ map[k].type = "table"
                /\ OnlyFields(map[k].value, {edges[i] : i \in DOMAIN edges})
                /\ \A i \in DOMAIN edges :
                     edges[i] \in DOMAIN map[k].value /\ OptionalYear(map[k].value, edges[i])
           /\ DOMAIN map # {}

\* The base years by the first tax year they are for, one for each edge
BaseYears(block, edges) ==
  IF "base_year_by_edge" \in DOMAIN block
  THEN LET map == block["base_year_by_edge"].value
       IN  [y \in Years(map) |->
              [i \in DOMAIN edges |-> map[TextOf(map, y)].value[edges[i]].value]]
  ELSE NoTable

HasBaseYear(block) == "base_year" \in DOMAIN block \/ "base_year_by_edge" \in DOMAIN block

PositiveOk(v) == DollarsOk(v) /\ v.value # 0
IncrementOk(map) ==
  /\ Optional(map, "increment_by_key", "table")
  /\ ("increment" \in DOMAIN map) # ("increment_by_key" \in DOMAIN map)
  /\ "increment" \in DOMAIN map => PositiveOk(map["increment"])
  /\ "increment_by_key" \in DOMAIN map =>
       LET byKey == map["increment_by_key"].value
       IN  Keyed(byKey, {}) /\ \A k \in DOMAIN byKey : PositiveOk(byKey[k])

RoundingOk(block) ==
  /\ Optional(block, "rounding", "table")
  /\ "rounding" \in DOMAIN block =>
       LET map == block["rounding"].value
       IN  /\ OnlyFields(map, {"increment", "increment_by_key", "direction", "basis"})
           /\ IncrementOk(map)
           /\ OneOf(map, "direction", RoundingDirections)
           /\ OneOf(map, "basis", RoundingBases)

\* The rounding rule of each status
Rounding(block) ==
  LET map == block["rounding"].value
      increment(k) == IF "increment" \in DOMAIN map THEN map["increment"].value
                      ELSE map["increment_by_key"].value[k].value
  IN  [k \in Statuses |-> [increment |-> FromDollars(increment(k)).value,
                           direction |-> map["direction"].value, basis |-> map["basis"].value]]

LagOk(block) ==
  /\ Optional(block, "lag_years", "integer")
  /\ "lag_years" \in DOMAIN block => block["lag_years"].value \in 0 .. MaxLagYears

HasBaseValues(block) == DOMAIN FieldOr(block, "base_values", NoTable) # {}

IncreaseOverBaseComplete(block) ==
  ("rounding" \in DOMAIN block /\ block["rounding"].value["basis"].value = "IncreaseOverBase")
    => HasBaseYear(block) /\ HasBaseValues(block) /\ "index_series" \in DOMAIN block

IndexComplete(block) ==
  block["rule"].value = "index" =>
    /\ {"rounding", "index", "index_series", "lag_years"} \subseteq DOMAIN block
    /\ HasBaseYear(block) /\ HasBaseValues(block)

ProjectionOk(root) ==
  /\ Required(root, "projection", "table")
  /\ LET block == root["projection"].value
         edges == Components(root)
     IN  /\ OnlyFields(block, ProjectionFields)
         /\ OneOf(block, "rule", ProjectionRules)
         /\ DerivedOk(block)
         /\ BaseValuesOk(block, edges)
         /\ DerivedFromOk(block)
         /\ BaseYearOk(block, edges)
         /\ RoundingOk(block)
         /\ Optional(block, "index_series", "string")
         /\ LagOk(block)
         /\ IncreaseOverBaseComplete(block)
         /\ IndexComplete(block)
         /\ Optional(block, "index", "string")
         /\ OptionalYear(block, "first_adjusted_year")

Derivation(v) ==
  [from |-> v.value["from"].value,
   multiplier |-> ParseRatio(Literal(v.value["multiplier"].value)).value]

Projection(root) ==
  LET block == root["projection"].value
      edges == Components(root)
  IN  [rule |-> block["rule"].value,
       indexSeries |-> FieldOr(block, "index_series", ""),
       lagYears |-> FieldOr(block, "lag_years", 0),
       baseYear |-> FieldOr(block, "base_year", 0),
       baseYearByEdge |-> BaseYears(block, edges),
       firstAdjustedYear |-> FieldOr(block, "first_adjusted_year", 0),
       baseValues |-> BaseValues(block, edges),
       derived |-> [k \in DOMAIN Derived(block) |-> Derivation(Derived(block)[k])],
       rounding |-> IF "rounding" \in DOMAIN block THEN Rounding(block) ELSE NoTable]

-----------------------------------------------------------------------------
(* [rates]                                                                 *)

RateOk(item) ==
  /\ item.type = "string"
  /\ LET r == ParseRatio(Literal(item.value)) IN r.ok /\ 0 <= r.value.num /\ r.value.num <= r.value.den

LadderYears(block) == DOMAIN block \ {"unit", "rule"}
RatesOk(root) ==
  /\ Optional(root, "rates", "table")
  /\ "rates" \in DOMAIN root =>
       LET block == root["rates"].value
       IN  /\ Components(root) # <<>>
           /\ OneOf(block, "unit", {"ratio"}) /\ OneOf(block, "rule", {"flat"})
           /\ \A k \in LadderYears(block) :
                /\ IsYearKey(k) /\ block[k].type = "array"
                /\ Len(block[k].value) = Len(Components(root)) + 1
                /\ \A i \in DOMAIN block[k].value : RateOk(block[k].value[i])
           /\ LadderYears(block) # {}

Rates(root) ==
  LET block == FieldOr(root, "rates", NoTable)
      ladder(k) == [i \in DOMAIN block[k].value |->
                      ParseRatio(Literal(block[k].value[i].value)).value]
  IN  [y \in {YearOf[k] : k \in LadderYears(block)} |->
         ladder(CHOOSE k \in LadderYears(block) : YearOf[k] = y)]

-----------------------------------------------------------------------------
(* The whole document                                                      *)

TopFields ==
  {"id", "unit", "period", "breakdown", "as_of", "verification", "edges", "values",
   "rates", "projection", "hand_verification", "source"}

TableOk(root) ==
  /\ DocumentIdOk(root)
  /\ OnlyFields(root, TopFields)
  /\ OneOf(root, "unit", {"USD"})
  /\ "breakdown" \in DOMAIN root /\ OptionalStrings(root, "breakdown")
  /\ Strings(root, "breakdown") = <<"filingStatus">>
  /\ ComponentsOk(root)
  /\ ValuesOk(root)
  /\ ProjectionOk(root)
  /\ RatesOk(root)
  /\ Optional(root, "period", "string")
  /\ RequiredDate(root, "as_of")
  /\ VerificationOk(root)
  /\ SourcesOk(root)
  /\ OpenItemsOk(root)

ParamTable(root) ==
  [id |-> root["id"].value, verification |-> Verification(root),
   components |-> Components(root), values |-> Values(root), rates |-> Rates(root),
   projection |-> Projection(root), openItems |-> OpenItems(root)]

\* The latest row at or before a year, and what is published for a year
Latest(rows, year) == CHOOSE y \in DOMAIN rows :
  y <= year /\ \A z \in DOMAIN rows : z <= year => z <= y
HasRow(rows, year) == \E y \in DOMAIN rows : y <= year
Published(t, year, key) == year \in DOMAIN t.values[key]

=============================================================================
