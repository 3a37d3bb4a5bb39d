----------------------------- MODULE Monitoring -----------------------------
(***************************************************************************)
(* The library in use: a process imports ayn_ml and its extensions, and for  *)
(* every period partitions a growing table of events at the period's cutoff   *)
(* and calls Runner.run() with a store and a channel; it may die at any step, *)
(* is restarted, and its caller repeats what has not returned.                *)
(*                                                                          *)
(* The caller and the table are external.  A metric is abstracted to the      *)
(* class that computes it, and the alert to one on the number of rows.        *)
(* Runner (the other module) has the metric loop and the dispatch in detail,  *)
(* SqliteStore what a write() of the store may leave behind.                  *)
(***************************************************************************)
EXTENDS DataWindow, Channels

CONSTANTS Plans,        \* [schema, metrics, model, version, window, sampling, strict]
          Source,       \* how the plan's data is loaded: [kind, backend, exists]
          Installed,    \* the data frame libraries that are installed
          TableCols,    \* the columns of the table
          Stamps, Models,   \* what rows may hold: instants, and [id, version]
          Cutoffs,      \* the periods' cutoffs, in order
          Width,        \* reference_window of the partitioner
          Base,         \* metrics that the library registers itself
          Extensions,   \* the metrics that each entry point registers, in order
          AlertBelow,   \* the alert rule fires for fewer rows than this
          Channel,      \* the rule's channel
          MaxRows, MaxCalls, MaxCrashes   \* bounds of the model

ASSUME MonitoringAssumption ==
  /\ \A p \in Plans : WindowValid(p.window)
  /\ \A p \in Plans : p.window.type = "last_n" => p.window.n \in Nat
  /\ \A p \in Plans : p.window.type = "time_window" =>
                        p.window.start \in Int /\ p.window.end \in Int
  /\ \A p \in Plans : p.sampling \in Seq(Samplings)
  /\ \A p \in Plans : \A i \in DOMAIN p.sampling : SamplingValid(p.sampling[i])
  /\ Stamps \subseteq Int
  /\ Width \in Nat /\ Width > 0
  /\ ChannelValid(Channel)
  /\ Extensions \in Seq(Seq(STRING)) /\ Base \subseteq STRING
  /\ Cutoffs \in Seq(Int)

VARIABLES plan,
          table,        \* rows, in the order of arrival: [id, ts, model, version]
          registry,     \* metric name -> what registered it: 0 or an extension
          status,       \* of each extension: "pending", "loaded" or "failed"
          ext, at,      \* the extension being loaded, and its next metric
          pc,           \* the step of the process
          work,         \* the run's data: [cols, cur, ref], ref as <<rows>> or <<>>
          period,       \* the caller's position in Cutoffs
          runs,         \* every call of run(), in order
          crashes

vars == <<plan, table, registry, status, ext, at, pc, work, period, runs, crashes>>
imports == <<registry, status, ext, at>>

NoWork == [cols |-> {}, cur |-> <<>>, ref |-> <<>>]
Running == {"resolve", "window", "sample", "filter", "validate", "evaluate", "store",
            "tell", "return"}

Init ==
  /\ plan \in Plans
  /\ table = <<>>
  /\ registry = <<>> /\ status = [e \in DOMAIN Extensions |-> "pending"]
  /\ ext = 1 /\ at = 1
  /\ pc = "down" /\ work = NoWork
  /\ period = 1 /\ runs = <<>> /\ crashes = 0

(* A row arrives.  Rows that arrive during a run, or while the process is     *)
(* down or importing, are seen by the next call only, as if they arrived just *)
(* before it.                                                                 *)
Arrive ==
  /\ pc = "idle" /\ Len(table) < MaxRows
  /\ \E ts \in Stamps, m \in Models :
       table' = Append(table, [id |-> Len(table) + 1, ts |-> ts,
                               model |-> m.id, version |-> m.version])
  /\ UNCHANGED <<plan, imports, pc, work, period, runs, crashes>>

----------------------------------------------------------------------------
(* Import: the library's own metrics, then the extensions one after another. *)

Import ==
  /\ pc = "down" /\ pc' = "import"
  /\ registry' = [n \in Base |-> 0]
  /\ status' = [e \in DOMAIN Extensions |-> "pending"]
  /\ ext' = 1 /\ at' = 1
  /\ UNCHANGED <<plan, table, work, period, runs, crashes>>

Loading == pc = "import" /\ ext \in DOMAIN Extensions

(* _load_extensions() goes on to the next entry point. *)
NextExtension(outcome) ==
  /\ status' = [status EXCEPT ![ext] = outcome]
  /\ ext' = ext + 1 /\ at' = 1
  /\ UNCHANGED <<plan, table, pc, work, period, runs, crashes>>

Bound(n, e) == [m \in DOMAIN registry \cup {n} |-> IF m = n THEN e ELSE registry[m]]

(* Mutant of Register: a name that is taken is bound again. *)
RegisterAgain ==
  /\ Loading /\ at <= Len(Extensions[ext])
  /\ registry' = Bound(Extensions[ext][at], ext) /\ at' = at + 1
  /\ UNCHANGED <<plan, table, status, ext, pc, work, period, runs, crashes>>

(* register_metric() of the extension's next metric: a name that is taken    *)
(* raises, and the extension is given up; what it registered stays.           *)
Register ==
  /\ Loading /\ at <= Len(Extensions[ext])
  /\ IF Extensions[ext][at] \in DOMAIN registry
     THEN NextExtension("failed") /\ UNCHANGED registry
     ELSE /\ registry' = Bound(Extensions[ext][at], ext) /\ at' = at + 1
          /\ UNCHANGED <<plan, table, status, ext, pc, work, period, runs, crashes>>

ExtensionLoaded ==
  /\ Loading /\ at > Len(Extensions[ext])
  /\ NextExtension("loaded") /\ UNCHANGED registry

(* The extension raises something of its own. *)
ExtensionRaises == Loading /\ NextExtension("failed") /\ UNCHANGED registry

Imported ==
  /\ pc = "import" /\ ext \notin DOMAIN Extensions
  /\ pc' = "idle"
  /\ UNCHANGED <<plan, table, imports, work, period, runs, crashes>>

----------------------------------------------------------------------------
(* The caller. *)

Frame(rows) == [cols |-> TableCols, rows |-> rows]
NewRun(sides) ==
  [period |-> period, seen |-> table, side |-> sides.current, refSide |-> sides.reference,
   evaluated |-> <<>>, ref |-> <<>>, bounds |-> <<>>,
   fired |-> FALSE, stored |-> FALSE, warned |-> {}, reached |-> {}, end |-> "running"]

Split == PartitionError(Frame(table), plan.schema, Cutoffs[period])

(* It partitions the table at the cutoff, and calls run(). *)
Call ==
  /\ pc = "idle" /\ period \in DOMAIN Cutoffs /\ Len(runs) < MaxCalls
  /\ Split = "none"
  /\ LET sides == Partition(table, Cutoffs[period], Width) IN
     /\ runs' = Append(runs, NewRun(sides))
     /\ work' = [cols |-> TableCols, cur |-> sides.current, ref |-> sides.reference]
  /\ pc' = "resolve"
  /\ UNCHANGED <<plan, table, imports, period, crashes>>

(* Without a row after the cutoff the period is given up. *)
Skip ==
  /\ pc = "idle" /\ period \in DOMAIN Cutoffs /\ Split # "none"
  /\ period' = period + 1
  /\ UNCHANGED <<plan, table, imports, pc, work, runs, crashes>>

----------------------------------------------------------------------------
(* One call of run(). *)

Now == Len(runs)
At(step, next) == pc = step /\ pc' = next
Ends(how) == work' = NoWork /\ runs' = [runs EXCEPT ![Now].end = how]
Outside == <<plan, table, imports, crashes>>

(* run() raises: the caller repeats the call, or gives the period up. *)
RunRaises(step) ==
  /\ At(step, "idle") /\ Ends("raised")
  /\ period' \in {period, period + 1}
  /\ UNCHANGED Outside

Goes(step, next) == At(step, next) /\ UNCHANGED <<Outside, period, runs>>

(* Step 1: both sides are loaded, and keep the columns of the plan. *)
Resolve ==
  IF LoadError(Source, Installed) # "none" THEN RunRaises("resolve")
  ELSE /\ Goes("resolve", "window")
       /\ work' = [work EXCEPT !.cols = Projected(Frame(work.cur), plan).cols]

CurrentFrame == [cols |-> work.cols, rows |-> work.cur]

(* Step 2: the window, of the current side only. *)
Window ==
  IF WindowError(CurrentFrame, plan.window, plan.schema) # "none" THEN RunRaises("window")
  ELSE /\ Goes("window", "sample")
       /\ work' = [work EXCEPT !.cur = ApplyWindow(@, plan.window)]

(* Step 3: the sub-sample, when the plan asks for one. *)
Sample ==
  CASE plan.sampling = <<>> -> Goes("sample", "filter") /\ UNCHANGED work
    [] plan.sampling # <<>> /\ SampleError(work.cur) # "none" -> RunRaises("sample")
    [] plan.sampling # <<>> /\ SampleError(work.cur) = "none" ->
         /\ Goes("sample", "filter")
         /\ \E rows \in Samples(work.cur, plan.sampling[1]) :
              work' = [work EXCEPT !.cur = rows]

(* Mutant of Filter: the reference keeps the rows of all models. *)
FilterCurrentOnly ==
  /\ Goes("filter", "validate")
  /\ work' = [work EXCEPT !.cur = FilterModel(CurrentFrame, plan)]

(* Step 4: the model's rows, on both sides. *)
Filter ==
  /\ Goes("filter", "validate")
  /\ LET Kept(rows) == FilterModel([cols |-> work.cols, rows |-> rows], plan) IN
     work' = [work EXCEPT !.cur = Kept(@), !.ref = [i \in DOMAIN @ |-> Kept(@[i])]]

(* Step 5: strict runners refuse a plan whose columns are missing. *)
Validate ==
  IF plan.strict /\ MissingColumns(work.cols, plan) # {} THEN RunRaises("validate")
  ELSE Goes("validate", "evaluate") /\ UNCHANGED work

(* Steps 6 to 9: the context, the metrics that are registered, the alert. *)
Evaluate ==
  /\ At("evaluate", "store")
  /\ LET known == {spec.name : spec \in plan.metrics} \cap DOMAIN registry
     IN runs' = [runs EXCEPT
          ![Now].evaluated = <<work.cur>>, ![Now].ref = work.ref,
          ![Now].bounds = Period(work.cols, work.cur, plan.schema),
          ![Now].fired = known # {} /\ Len(work.cur) < AlertBelow]
  /\ UNCHANGED <<Outside, period, work>>

(* A write() raises before or after its commit; that of a plan with instants *)
(* always does, at json.dumps(), and stores nothing.                          *)
StoreOutcomes ==
  IF plan.window.type = "time_window" THEN {[stored |-> FALSE, raised |-> TRUE]}
  ELSE {[stored |-> s, raised |-> r] : s \in BOOLEAN, r \in BOOLEAN}
         \ {[stored |-> FALSE, raised |-> FALSE]}

(* Mutant of StoreWrite: what the store raises leaves run(). *)
StoreWriteRaises ==
  /\ pc = "store"
  /\ \E o \in StoreOutcomes :
       /\ pc' = IF o.raised THEN "idle" ELSE "tell"
       /\ runs' = [runs EXCEPT ![Now].stored = o.stored,
                               ![Now].end = IF o.raised THEN "raised" ELSE @]
  /\ UNCHANGED <<Outside, period, work>>

(* Mutant of StoreWrite: a report that was not stored is not told. *)
StoreWriteOrReturn ==
  /\ pc = "store"
  /\ \E o \in StoreOutcomes :
       /\ pc' = IF o.raised THEN "return" ELSE "tell"
       /\ runs' = [runs EXCEPT ![Now].stored = o.stored,
                               ![Now].warned = IF o.raised THEN @ \cup {"store"} ELSE @]
  /\ UNCHANGED <<Outside, period, work>>

(* Step 10: what the store raises is logged. *)
StoreWrite ==
  /\ At("store", "tell")
  /\ \E o \in StoreOutcomes :
       runs' = [runs EXCEPT ![Now].stored = o.stored,
                            ![Now].warned = IF o.raised THEN @ \cup {"store"} ELSE @]
  /\ UNCHANGED <<Outside, period, work>>

(* Step 11: the channel of the rule that fired. *)
Tell ==
  /\ At("tell", "return")
  /\ IF ~runs[Now].fired THEN UNCHANGED runs
     ELSE \E o \in ChannelWrites(Channel) :
            runs' = [runs EXCEPT ![Now].reached = o.reached,
                                 ![Now].warned = IF o.raised THEN @ \cup {"channel"} ELSE @]
  /\ UNCHANGED <<Outside, period, work>>

(* Step 12: the caller turns to the next period. *)
Return ==
  /\ At("return", "idle") /\ Ends("returned")
  /\ period' = period + 1
  /\ UNCHANGED Outside

(* The process dies; the caller repeats the period after a restart. *)
Crash ==
  /\ pc \in Running \cup {"import"} /\ crashes < MaxCrashes
  /\ pc' = "down" /\ work' = NoWork /\ crashes' = crashes + 1
  /\ runs' = IF pc = "import" THEN runs ELSE [runs EXCEPT ![Now].end = "died"]
  /\ UNCHANGED <<plan, table, imports, period>>

Loads == Register \/ ExtensionLoaded \/ ExtensionRaises
Steps == \/ Resolve \/ Window \/ Sample \/ Filter \/ Validate \/ Evaluate
         \/ StoreWrite \/ Tell \/ Return

Next == Arrive \/ Import \/ Loads \/ Imported \/ Call \/ Skip \/ Steps \/ Crash

Spec == Init /\ [][Next]_vars

----------------------------------------------------------------------------
(* Properties. *)

Evaluated == {i \in DOMAIN runs : runs[i].evaluated # <<>>}
RowSet(rows) == {rows[i] : i \in DOMAIN rows}

(* The plan's model and version, each as far as the table has a column for   *)
(* it ("Missing columns are silently skipped", _filter_model).               *)
Own(row) == OfModel(row, TableCols, plan)

(* The rows of the side that the plan's window is to keep. *)
InWindow(row, side) ==
  CASE plan.window.type = "last_n" ->
         Cardinality({r \in RowSet(side) : r.id > row.id}) < plan.window.n
    [] plan.window.type = "time_window" -> row.ts \in plan.window.start..plan.window.end
    [] OTHER -> TRUE

(* A report speaks of exactly the rows it should: those of the plan's model   *)
(* among the rows of the window - the window is taken before the other models *)
(* are filtered out, so last_n may leave fewer than n - in the order of the   *)
(* table unless they are sampled, never more than the sample; its bounds are  *)
(* those of these rows; its reference has the model's rows, all of them.      *)
EvaluatedRowsExact ==
  \A i \in Evaluated :
    LET r      == runs[i]
        rows   == r.evaluated[1]
        wanted == {x \in RowSet(r.side) : Own(x) /\ InWindow(x, r.side)}
    IN /\ RowSet(rows) \subseteq wanted
       /\ plan.sampling = <<>> =>
            /\ RowSet(rows) = wanted
            /\ \A j, k \in DOMAIN rows : j < k => rows[j].id < rows[k].id
       /\ plan.sampling # <<>> =>
            /\ \A j, k \in DOMAIN rows : rows[j] = rows[k] => j = k
            /\ plan.sampling[1].n # <<>> => Len(rows) <= plan.sampling[1].n[1]
       /\ r.bounds # <<>> => \A x \in RowSet(rows) : r.bounds[1] <= x.ts /\ x.ts <= r.bounds[2]
       /\ r.ref # <<>> =>
            RowSet(r.ref[1]) = {x \in RowSet(r.refSide[1]) : Own(x)}

(* Periods tile the table: no row is on both sides of a cutoff, every row    *)
(* that a call saw after its cutoff and up to the next one is in the next     *)
(* call's reference, and no other row that both have seen is.                 *)
PeriodsTile ==
  \A i \in DOMAIN runs :
    LET r == runs[i]
        ref == IF r.refSide = <<>> THEN {} ELSE RowSet(r.refSide[1])
    IN /\ RowSet(r.side) \cap ref = {}
       /\ \A j \in DOMAIN runs :
            runs[j].period + 1 = r.period /\ Cutoffs[r.period] - Width = Cutoffs[runs[j].period] =>
              \A x \in RowSet(runs[j].seen) :
                x \in ref <=> x \in RowSet(runs[j].side) /\ x.ts <= Cutoffs[r.period]

(* An extension that was loaded without a warning owns every metric that it  *)
(* lists, and the library's own metrics are never replaced: so two processes  *)
(* in which the same extensions were loaded compute a metric by the same      *)
(* class, whatever the others registered before they failed.                  *)
ExtensionsOwnTheirs ==
  pc # "down" =>
    /\ \A n \in Base : n \in DOMAIN registry /\ registry[n] = 0
    /\ \A e \in DOMAIN Extensions : status[e] = "loaded" =>
         \A k \in DOMAIN Extensions[e] :
           Extensions[e][k] \in DOMAIN registry /\ registry[Extensions[e][k]] = e

(* A period is stored once for every call of it that died, and once more:    *)
(* run ids are fresh on every call, so the store cannot tell a repeated call,  *)
(* but a call that raised has stored nothing, and what the store raises does  *)
(* not make run() raise.                                                      *)
RerunsExplainDuplicates ==
  \A p \in DOMAIN Cutoffs :
    LET calls == {i \in DOMAIN runs : runs[i].period = p}
    IN Cardinality({i \in calls : runs[i].stored})
         <= 1 + Cardinality({i \in calls : runs[i].end = "died"})

(* Nothing is lost without a trace: a call that returned has stored its      *)
(* report and told its alert to a recipient at least, or logged that it could *)
(* not (that a mail server refused some of several recipients is logged       *)
(* nowhere); only the death of the process leaves a stored alert untold; and  *)
(* nobody is told of a report whose store was not tried.  A plan with a time   *)
(* window is never stored.                                                     *)
NothingLostSilently ==
  \A i \in DOMAIN runs :
    LET r == runs[i] IN
    /\ r.end = "returned" =>
         /\ r.stored \/ "store" \in r.warned
         /\ r.fired => r.reached # {} \/ "channel" \in r.warned
    /\ r.stored /\ r.fired /\ r.reached = {} /\ "channel" \notin r.warned =>
         r.end = "died" \/ (r.end = "running" /\ i = Now /\ pc = "tell")
    /\ r.reached # {} => r.fired /\ (r.stored \/ "store" \in r.warned)
    /\ r.stored => plan.window.type # "time_window"
    /\ r.end = "raised" => r.evaluated = <<>> /\ ~r.stored
=============================================================================
