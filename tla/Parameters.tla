----------------------------- MODULE Parameters -----------------------------
(***************************************************************************)
(* pfp-params, a vintage and the view of it (view.rs): the parameter       *)
(* tables that were loaded with the index series they read, the id of      *)
(* their contents, and the amounts in force for a year and a filing        *)
(* status: published, carried forward, or projected from the statutory     *)
(* base year.                                                              *)
(***************************************************************************)
EXTENDS Integers, Sequences, Money, ParameterTables, IndexSeries

-----------------------------------------------------------------------------
(* A vintage: tables and series are the documents, in the order given      *)

Elements(seq) == {seq[i] : i \in DOMAIN seq}

DistinctNames(docs, field) ==
  \A i, j \in DOMAIN docs : docs[i][field].value = docs[j][field].value => i = j

IsIndexed(root) == root["projection"].value["rule"].value = "index"
SeriesName(root) == root["projection"].value["index_series"].value
NamesRead(tables) == {SeriesName(t) : t \in {u \in Elements(tables) : IsIndexed(u)}}
SeriesRead(tables, series) ==
  {s \in Elements(series) : s["index_series"].value \in NamesRead(tables)}

\* Each document is valid, its name is its own, and the series the tables read are there
VintageOk(tables, series) ==
  /\ \A i \in DOMAIN series : SeriesOk(series[i])
  /\ DistinctNames(series, "index_series")
  /\ \A i \in DOMAIN tables : TableOk(tables[i])
  /\ NamesRead(tables) \subseteq {s["index_series"].value : s \in Elements(series)}
  /\ DistinctNames(tables, "id")
  /\ \A t \in Elements(tables), s \in SeriesRead(tables, series) : t["id"].value # s["id"].value

\* The name and, by id, the bytes of each table and of each series a table reads; of the series
\* that share an id, those of the one read last
ContentId(name, tables, series) ==
  LET table(id) == CHOOSE t \in Elements(tables) : t["id"].value = id
      readers(id) == {i \in DOMAIN tables : IsIndexed(tables[i]) /\ \E s \in Elements(series) :
                        s["index_series"].value = SeriesName(tables[i]) /\ s["id"].value = id}
      lastReader(id) == CHOOSE i \in readers(id) : \A j \in readers(id) : j <= i
      source(id) == CHOOSE s \in Elements(series) :
                      s["index_series"].value = SeriesName(tables[lastReader(id)])
      tableIds == {t["id"].value : t \in Elements(tables)}
      seriesIds == {s["id"].value : s \in SeriesRead(tables, series)}
  IN  [name |-> name,
       documents |-> [id \in tableIds \cup seriesIds |->
                        IF id \in tableIds THEN <<"table", table(id)>>
                        ELSE <<"index-series", source(id)>>]]

Vintage(name, tables, series) ==
  [name |-> name, contentId |-> ContentId(name, tables, series), locked |-> FALSE,
   tables |-> [id \in {t["id"].value : t \in Elements(tables)} |->
                 ParamTable(CHOOSE t \in Elements(tables) : t["id"].value = id)],
   series |-> [k \in NamesRead(tables) |->
                 Series(CHOOSE s \in Elements(series) : s["index_series"].value = k)]]

ParseVintage(name, tables, series) ==
  IF VintageOk(tables, series) THEN Ok(Vintage(name, tables, series)) ELSE Err("Params")

\* A vintage is locked only as the one whose recorded id is its own
LockedAs(v, recorded) ==
  IF recorded = v.contentId THEN Ok([v EXCEPT !.locked = TRUE]) ELSE Err("VintageIdMismatch")

VintageId(v) == IF v.locked THEN Ok(v.contentId) ELSE Err("None")

VintageIsVerified(v) ==
  /\ \A id \in DOMAIN v.tables : IsVerified(v.tables[id].verification)
  /\ \A k \in DOMAIN v.series : IsVerified(v.series[k].verification)

-----------------------------------------------------------------------------
(* Projection.  A ProjectionError is "Params": no caller tells them apart. *)

Amount(amounts, origin) == Ok([amounts |-> amounts, origin |-> origin])

\* The base year of each amount, for a tax year
BaseYearsFor(p, year, width) ==
  IF p.baseYear # 0 THEN Ok([i \in 1 .. width |-> p.baseYear])
  ELSE IF HasRow(p.baseYearByEdge, year) THEN Ok(p.baseYearByEdge[Latest(p.baseYearByEdge, year)])
  ELSE Err("Params")

\* One amount uprated from its base year by the index, rounded once
Step(series, base, baseYear, numeratorYear, rule) ==
  LET factor == Factor(series, numeratorYear, baseYear)
  IN  IF ~HasYear(series, numeratorYear) \/ ~HasYear(series, baseYear) THEN Err("Params")
      ELSE IF ~factor.ok THEN Err("Params")
      ELSE IF factor.value.num < factor.value.den THEN Err("Params")
      ELSE MulRatio(rule, base, factor.value)

ProjectBase(v, t, year, key) ==
  LET p == t.projection
      bases == p.baseValues[key]
      years == BaseYearsFor(p, year, Len(bases))
      steps == [i \in DOMAIN bases |->
                  Step(v.series[p.indexSeries], bases[i], years.value[i],
                       year - p.lagYears, p.rounding[key])]
  IN  IF key \notin DOMAIN p.baseValues THEN Err("Params")
      ELSE IF p.firstAdjustedYear # 0 /\ year < p.firstAdjustedYear THEN Amount(bases, "unadjustedBase")
      ELSE IF ~years.ok THEN years
      ELSE IF \E i \in DOMAIN steps : ~steps[i].ok THEN Err("Params")
      ELSE Amount([i \in DOMAIN steps |-> steps[i].value], "projected")

\* A whole number of cents, or nothing
MultiplyExact(amount, multiplier) ==
  IF (amount * multiplier.num) % multiplier.den # 0 THEN Err("Params")
  ELSE Checked((amount * multiplier.num) \div multiplier.den)

\* An exact multiple of the rounded result of another key
ProjectDerived(source, multiplier) ==
  LET products == [i \in DOMAIN source.value.amounts |->
                     MultiplyExact(source.value.amounts[i], multiplier)]
  IN  IF ~source.ok THEN source
      ELSE IF \E i \in DOMAIN products : ~products[i].ok THEN Err("Params")
      ELSE Amount([i \in DOMAIN products |-> products[i].value], source.value.origin)

ProjectIndex(v, t, year, key) ==
  LET derived == t.projection.derived
  IN  IF key \in DOMAIN derived
      THEN ProjectDerived(ProjectBase(v, t, year, derived[key].from), derived[key].multiplier)
      ELSE ProjectBase(v, t, year, key)

\* The rule applied whether or not the year is published
Project(v, id, year, key) ==
  LET t == v.tables[id]
  IN  IF id \notin DOMAIN v.tables THEN Err("Params")
      ELSE IF key \notin DOMAIN t.values THEN Err("Params")
      ELSE IF t.projection.rule = "index" THEN ProjectIndex(v, t, year, key)
      ELSE IF t.projection.rule = "flat" /\ HasRow(t.values[key], year)
           THEN Amount(t.values[key][Latest(t.values[key], year)], "carriedForward")
      ELSE Err("Params")

ValueInForce(v, id, year, key) ==
  IF id \notin DOMAIN v.tables THEN Err("Params")
  ELSE IF key \notin DOMAIN v.tables[id].values THEN Err("Params")
  ELSE IF Published(v.tables[id], year, key)
       THEN Amount(v.tables[id].values[key][year], "published")
  ELSE Project(v, id, year, key)

RatesInForce(v, id, year) ==
  IF id \in DOMAIN v.tables /\ HasRow(v.tables[id].rates, year)
  THEN Ok(v.tables[id].rates[Latest(v.tables[id].rates, year)])
  ELSE Err("Params")

=============================================================================
