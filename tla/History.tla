------------------------------ MODULE History ------------------------------
(***************************************************************************)
(* What the two ResultStores hold and what their reads return:              *)
(* InMemoryStore (ayn_ml/stores/memory.py), a bounded deque of reports, and *)
(* SqliteStore (ayn_ml/stores/sqlite.py), rows in four tables.  A write() is *)
(* one step: both take a lock around it, and SqliteStore (the module) has    *)
(* its statements.  Last, the page that HtmlRenderer.render_history() makes  *)
(* of such reports.                                                          *)
(*                                                                          *)
(* A timestamp is what isoformat() writes of it: local time and UTC offset,  *)
(* None for a naive one.  Errors and alerts are opaque; a threshold is <<>>    *)
(* (None), <<t>> or a range <<low, high>>.                                     *)
(***************************************************************************)
EXTENDS Lists, SequencesExt, FiniteSetsExt

CONSTANTS Reports,    \* the MonitoringReports that may be written
          Queries,    \* the arguments of read_history()
          MaxLen,     \* InMemoryStore's maxlen, or None
          MaxWrites,  \* bound on the number of writes
          None

IsList(list) == list \in Seq(ToSet(list))

(* A report as run() makes it: the spec of a result is one of the plan's, and *)
(* "profile" is no metric type.                                               *)
IsReport(r) ==
  /\ r = [run |-> r.run, model |-> r.model, version |-> r.version, at |-> r.at,
          start |-> r.start, counts |-> r.counts, plan |-> r.plan, results |-> r.results,
          errors |-> r.errors, alerts |-> r.alerts, profile |-> r.profile]
  /\ r.at \in Int /\ (r.start # None => r.start.local \in Nat)
  /\ IsList(r.plan.specs) /\ IsList(r.results) /\ IsList(r.errors) /\ IsList(r.alerts)
  /\ \A i \in DOMAIN r.plan.specs : r.plan.specs[i].type # "profile"
  /\ \A x \in ToSet(r.results) :
       /\ x = [spec |-> x.spec, value |-> x.value, status |-> x.status, effect |-> x.effect]
       /\ x.spec \in ToSet(r.plan.specs)
  /\ r.profile # None =>
       /\ IsList(r.profile)
       /\ \A c \in ToSet(r.profile) : c = [col |-> c.col, stat |-> c.stat, value |-> c.value]

ASSUME HistoryAssumption ==
  /\ \A r \in Reports : IsReport(r)
  /\ \A r, o \in Reports : r.run = o.run => r = o
  /\ \A q \in Queries : q.limit \in Int \cup {None}
  /\ MaxLen \in Nat \cup {None}
  /\ MaxWrites \in Nat

VARIABLES reports,  \* InMemoryStore._reports, oldest write first
          tables,   \* the tables of the file; a row's id is its position
          writes    \* number of writes

vars == <<reports, tables, writes>>

NoRows == [runs |-> <<>>, results |-> <<>>, errors |-> <<>>, alerts |-> <<>>]

Init == reports = <<>> /\ tables = NoRows /\ writes = 0

----------------------------------------------------------------------------
(* A report as flat rows. *)

Row(r, metric, feature, value, status, effect, type) ==
  [run |-> r.run, model |-> r.model, version |-> r.version, metric |-> metric,
   feature |-> feature, value |-> value, status |-> status, effect |-> effect,
   start |-> r.start, type |-> type, meta |-> None]

ToRow(r, result) ==
  Row(r, result.spec.name, result.spec.feature, result.value, result.status,
      result.effect, result.spec.type)

ProfileToRows(r) ==
  IF r.profile = None THEN <<>>
  ELSE [i \in DOMAIN r.profile |->
          LET cell == r.profile[i]
          IN  Row(r, cell.stat, cell.col, cell.value, None, None, "profile")]

ResultRows(r) == [i \in DOMAIN r.results |-> ToRow(r, r.results[i])] \o ProfileToRows(r)

(* Mutant of TableRows: the profile is not written. *)
NoProfileRows(r) == [i \in DOMAIN r.results |-> ToRow(r, r.results[i])]

ExtractPlanMeta(plan, counts) ==
  [plan |-> plan.name, window |-> plan.window, counts |-> counts]

ReportToRows(r, metadata) ==
  LET meta == IF metadata THEN ExtractPlanMeta(r.plan, r.counts) ELSE None
      rows == ResultRows(r)
  IN  [i \in DOMAIN rows |-> [rows[i] EXCEPT !.meta = meta]]

(* What a column of NUMERIC affinity makes of a value: NaN becomes NULL, and *)
(* text that reads as a number becomes that number.                          *)
Numeric(value) ==
  IF value = None \/ value.kind = "nan" THEN None
  ELSE [value EXCEPT !.kind = IF @ = "numeral" THEN "number" ELSE @]

AsStored(item) == [item EXCEPT !.value = Numeric(@)]

TableRows(r) ==
  LET rows == ResultRows(r)
  IN  [i \in DOMAIN rows |-> AsStored(rows[i])]

----------------------------------------------------------------------------
(* Writes. *)

(* Mutant of MemoryWrite: a list in place of the bounded deque. *)
MemoryWriteUnbounded(r) ==
  /\ writes < MaxWrites /\ writes' = writes + 1
  /\ reports' = Append(reports, r)
  /\ UNCHANGED tables

MemoryWrite(r) ==
  /\ writes < MaxWrites /\ writes' = writes + 1
  /\ reports' = IF MaxLen = None \/ Len(reports) < MaxLen
                THEN Append(reports, r)
                ELSE Tail(Append(reports, r))
  /\ UNCHANGED tables

(* The rows of errors or alerts, opaque, of a run. *)
Stamped(run, items) == [i \in DOMAIN items |-> [run |-> run, item |-> items[i]]]

Persisted(run) == \E i \in DOMAIN tables.runs : tables.runs[i].run = run

(* Of a report whose plan has a time_window, json.dumps() raises (the model  *)
(* SqliteStore has that call); a run that is already there is skipped.       *)
SqliteWrite(r) ==
  /\ r.plan.window # "time_window"
  /\ writes < MaxWrites /\ writes' = writes + 1
  /\ IF Persisted(r.run) THEN UNCHANGED tables
     ELSE tables' =
       [runs    |-> Append(tables.runs,
                      [run |-> r.run, model |-> r.model, version |-> r.version,
                       at |-> r.at, start |-> r.start, counts |-> r.counts,
                       plan |-> r.plan]),
        results |-> tables.results \o TableRows(r),
        errors  |-> tables.errors \o Stamped(r.run, r.errors),
        alerts  |-> tables.alerts \o Stamped(r.run, r.alerts)]
  /\ UNCHANGED reports

Next == \E r \in Reports : MemoryWrite(r) \/ SqliteWrite(r)

Spec == Init /\ [][Next]_vars

----------------------------------------------------------------------------
(* read_history(). *)

ForModel(r, q) == r.model = q.model /\ q.version \in {None, r.version}
ForMetric(row, q) == q.metric \in {None, row.metric} /\ q.type \in {None, row.type}

(* Mutant of NewestFirst: the deque is walked as it is. *)
OldestFirst(seq) == seq

NewestFirst(seq) == Reverse(seq)

(* The reports of the model, in the order of the reading. *)
Mine(q) == NewestFirst(Picked(reports, {i \in DOMAIN reports : ForModel(reports[i], q)}))

MatchingRows(r, q) ==
  LET rows == ReportToRows(r, q.metadata)
  IN  Picked(rows, {i \in DOMAIN rows : ForMetric(rows[i], q)})

AllRows(q) ==
  LET mine == Mine(q)
  IN  FlattenSeq([k \in DOMAIN mine |-> MatchingRows(mine[k], q)])

(* InMemoryStore counts after it appends: a limit of 0 limits nothing. *)
MemoryHistory(q) ==
  IF q.limit \in 1..Len(AllRows(q)) THEN SubSeq(AllRows(q), 1, q.limit) ELSE AllRows(q)

(* period_start is compared as text, and NULL comes last in DESC order. *)
TextOrder(start) == IF start = None THEN -1 ELSE start.local

Matching(q) ==
  {i \in DOMAIN tables.results :
     ForModel(tables.results[i], q) /\ ForMetric(tables.results[i], q)}

(* The sets of rows, by id, that SqliteStore may return: ORDER BY leaves open *)
(* which rows of one period_start come first, and so which ones LIMIT keeps;  *)
(* a negative LIMIT keeps all.                                                *)
SqliteHistories(q) ==
  LET hits == Matching(q)
      size == IF q.limit \in 0..Cardinality(hits) THEN q.limit ELSE Cardinality(hits)
  IN  {ids \in kSubset(size, hits) :
         \A i \in ids, o \in hits \ ids :
           TextOrder(tables.results[i].start) >= TextOrder(tables.results[o].start)}

(* run_id is the primary key of the runs. *)
RunRow(run) == CHOOSE row \in ToSet(tables.runs) : row.run = run

(* A row as the dict that read_history() returns, with the LEFT JOIN. *)
SqlRowToDict(row, metadata) ==
  IF metadata
  THEN [row EXCEPT !.meta = ExtractPlanMeta(RunRow(row.run).plan, RunRow(row.run).counts)]
  ELSE row

----------------------------------------------------------------------------
(* SqliteStore.get_report(). *)

(* Mutant of LookUp: by metric name only. *)
LookUpName(plan, name, feature) ==
  plan.specs[Max({i \in DOMAIN plan.specs : plan.specs[i].name = name})]

(* spec_lookup is a dict: of two specs with one key the last one is found. *)
LookUp(plan, name, feature) ==
  LET hits == {i \in DOMAIN plan.specs :
                 plan.specs[i].name = name /\ plan.specs[i].feature = feature}
  IN  IF hits # {} THEN plan.specs[Max(hits)]
      ELSE [name |-> name, feature |-> feature, type |-> None, threshold |-> <<>>]

ReconstructResult(row, plan) ==
  [spec |-> LookUp(plan, row.metric, row.feature), value |-> row.value,
   status |-> row.status, effect |-> row.effect]

(* _reconstruct_context() takes a naive timestamp for UTC. *)
Parse(start) ==
  IF start # None /\ start.offset = None THEN [start EXCEPT !.offset = 0] ELSE start

OfRun(rows, run) == Picked(rows, {i \in DOMAIN rows : rows[i].run = run})

GetReport(run) ==
  LET row     == RunRow(run)
      mine    == OfRun(tables.results, run)
      regular == Picked(mine, {i \in DOMAIN mine : mine[i].type # "profile"})
      profile == Picked(mine, {i \in DOMAIN mine : mine[i].type = "profile"})
      errors  == OfRun(tables.errors, run)
      alerts  == OfRun(tables.alerts, run)
  IN  IF ~Persisted(run) THEN None ELSE
      [run |-> run, model |-> row.model, version |-> row.version, at |-> row.at,
       start |-> Parse(row.start), counts |-> row.counts, plan |-> row.plan,
       results |-> [i \in DOMAIN regular |-> ReconstructResult(regular[i], row.plan)],
       errors  |-> [i \in DOMAIN errors |-> errors[i].item],
       alerts  |-> [i \in DOMAIN alerts |-> alerts[i].item],
       profile |-> IF profile = <<>> THEN None
                   ELSE [i \in DOMAIN profile |->
                           [col |-> profile[i].feature, stat |-> profile[i].metric,
                            value |-> profile[i].value]]]

----------------------------------------------------------------------------
(* HtmlRenderer.render_history(): a time series per metric and feature. *)

(* Mutant of ByTime: the reports are taken in the order given. *)
AsGiven(page) == page

(* sorted() is stable: each report comes after those that do not follow it.   *)
NotAfter(page, i) ==
  {j \in DOMAIN page : \/ page[j].at < page[i].at
                       \/ page[j].at = page[i].at /\ j <= i}

ByTime(page) ==
  [k \in DOMAIN page |->
     page[CHOOSE i \in DOMAIN page : Cardinality(NotAfter(page, i)) = k]]

IsNumber(value) == value # None /\ value.kind \in {"number", "nan"}

(* The threshold that a chart draws: one number, and no range. *)
Scalar(threshold) == IF Len(threshold) = 1 THEN threshold ELSE <<>>

KeyOf(result) == <<result.spec.name, result.spec.feature>>

(* The results of all reports, report after report, with the report's time. *)
Measured(sorted) ==
  FlattenSeq([n \in DOMAIN sorted |->
    [i \in DOMAIN sorted[n].results |->
       [at |-> sorted[n].at, result |-> sorted[n].results[i]]]])

(* Mutant of Latest: the entry of a key is never updated. *)
LatestIsFirst(series) == Head(series).result

Latest(series) == Last(series).result

(* The chart of a key, whose threshold is the first one seen, and its line  *)
(* in the table of the latest results.                                        *)
Entry(measured, k) ==
  LET series == {i \in DOMAIN measured : KeyOf(measured[i].result) = k}
      points == Picked(measured, {i \in series : IsNumber(measured[i].result.value)})
  IN  [points    |-> [i \in DOMAIN points |-> <<points[i].at, points[i].result.value>>],
       threshold |-> Scalar(Head(Picked(measured, series)).result.spec.threshold),
       latest    |-> Latest(Picked(measured, series))]

Rendered(sorted) ==
  LET measured == Measured(sorted)
  IN  [plan |-> Head(sorted).plan, first |-> Head(sorted).at, last |-> Last(sorted).at,
       series |-> [k \in {KeyOf(measured[i].result) : i \in DOMAIN measured} |->
                     Entry(measured, k)]]

RenderHistory(page) == Rendered(ByTime(page))

----------------------------------------------------------------------------
(* Properties. *)

TypeOK ==
  /\ reports \in Seq(Reports) /\ (MaxLen # None => Len(reports) <= MaxLen)
  /\ \A i \in DOMAIN tables.runs : tables.runs[i].run \in {r.run : r \in Reports}
  /\ writes \in 0..MaxWrites

Restored(r) ==
  [r EXCEPT !.start   = Parse(@),
            !.results = [i \in DOMAIN @ |-> AsStored(@[i])],
            !.profile = IF @ \in {None, <<>>} THEN None
                        ELSE [i \in DOMAIN @ |-> AsStored(@[i])]]

KeysAreUnique(plan) ==
  \A i, j \in DOMAIN plan.specs :
    plan.specs[i].name = plan.specs[j].name
      /\ plan.specs[i].feature = plan.specs[j].feature => i = j

(* get_report() gives back the whole report (docs/stores.md, "Reconstructs   *)
(* the complete MonitoringReport"), up to what the file cannot hold: NaN,    *)
(* text that reads as a number, naive timestamps, an empty profile; and       *)
(* specs of one metric and feature are told apart by nothing.                 *)
ReportsComeBack ==
  \A r \in Reports :
    Persisted(r.run) /\ KeysAreUnique(r.plan) => GetReport(r.run) = Restored(r)

(* The stores flatten a report alike (stores/_helpers.py, "consistent         *)
(* flat-dict rows"): for the runs that both hold, a query without a limit      *)
(* finds the same rows, in the same order within the run.                     *)
StoresAgree ==
  \A q \in Queries, r \in ToSet(reports) : q.limit = None /\ Persisted(r.run) =>
    LET inMemory == MatchingRows(r, q)
        inFile   == Picked(tables.results,
                           {i \in Matching(q) : tables.results[i].run = r.run})
    IN  ForModel(r, q) =>
          [n \in DOMAIN inFile |-> SqlRowToDict(inFile[n], q.metadata)]
            = [n \in DOMAIN inMemory |-> AsStored(inMemory[n])]

(* Both stores were given the same runs, once each and in period order, and   *)
(* InMemoryStore has only dropped its oldest.                                 *)
WrittenAlike ==
  LET held == {r.run : r \in ToSet(reports)}
      start(r) == TextOrder(r.start)
  IN  /\ \A i, j \in DOMAIN reports : i < j => start(reports[i]) < start(reports[j])
      /\ \A r \in ToSet(reports) : Persisted(r.run)
      /\ \A i \in DOMAIN tables.runs, r \in ToSet(reports) :
           tables.runs[i].run \notin held => start(tables.runs[i]) < start(r)

(* "limit: maximum number of rows" (stores/base.py): a limited query takes    *)
(* the same number of rows of the same runs from either store, as long as     *)
(* InMemoryStore still has that many.                                         *)
LimitsAgree ==
  WrittenAlike => \A q \in Queries :
    LET rows == MemoryHistory(q)
    IN  q.limit # None /\ q.limit > 0 /\ Len(rows) = q.limit =>
          \A ids \in SqliteHistories(q), r \in Reports :
            Cardinality({i \in ids : tables.results[i].run = r.run})
              = Cardinality({n \in DOMAIN rows : rows[n].run = r.run})

(* The page does not depend on the order in which the caller collected the     *)
(* reports ("Reports are sorted internally", renderers/html.py).               *)
PageIsOrderFree ==
  IsInjective([i \in DOMAIN reports |-> reports[i].at]) /\ reports # <<>> =>
    \A page \in SetToSeqs(ToSet(reports)) : RenderHistory(page) = RenderHistory(reports)

(* A metric has two places on the page, its chart and its line in the table   *)
(* (renderers/html.py).  The line is a result of the newest report that has    *)
(* the metric, and the chart ends in it if it is a number.  Where the plans of  *)
(* the reports differ the two do not tell one threshold: the line has that of   *)
(* the newest report, the chart that of the oldest, if it is one number.        *)
ChartsMatchTable ==
  IsInjective([i \in DOMAIN reports |-> reports[i].at]) /\ reports # <<>> =>
    LET series  == RenderHistory(reports).series
        Have(k) == {i \in DOMAIN reports : \E x \in ToSet(reports[i].results) : KeyOf(x) = k}
    IN \A k \in DOMAIN series :
         LET chart  == series[k]
             latest == series[k].latest
         IN \E i, h \in Have(k) :
              /\ \A j \in Have(k) : reports[h].at <= reports[j].at /\ reports[j].at <= reports[i].at
              /\ latest \in ToSet(reports[i].results) /\ KeyOf(latest) = k
              /\ IsNumber(latest.value) => Last(chart.points) = <<reports[i].at, latest.value>>
              /\ \E x \in ToSet(reports[h].results) :
                   KeyOf(x) = k /\ chart.threshold = Scalar(x.spec.threshold)

(* docs/stores.md on both stores: a second write() of a run has no effect, so  *)
(* a history has the rows of a run once.                                       *)
RunsAreHeldOnce == \A i, j \in DOMAIN reports : reports[i].run = reports[j].run => i = j

(* stores/base.py: "Results are ordered by period_start descending (newest     *)
(* first)".                                                                    *)
MemoryIsNewestFirst ==
  \A q \in Queries : LET rows == MemoryHistory(q) IN
    \A i, j \in DOMAIN rows : i < j => TextOrder(rows[i].start) >= TextOrder(rows[j].start)
============================================================================
