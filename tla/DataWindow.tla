----------------------------- MODULE DataWindow -----------------------------
(***************************************************************************)
(* From a data source to the rows that the metrics see: the columns that a   *)
(* plan needs, the sources (ayn_ml/data/source.py, csv.py, excel.py), the     *)
(* windows and the sub-sampling (sampling.py, core/data_selection.py), the    *)
(* partition (partitioner.py) and the runner's own filters (runner.py).       *)
(*                                                                          *)
(* A frame is [cols, rows]: its columns and its rows, each with a timestamp   *)
(* ts, a model, a version and whatever else the caller puts in.  A schema is  *)
(* [type, role, protected]: role maps each column attribute to a column's     *)
(* name, "" for None, and protected is the set of the protected columns.      *)
(* None is the empty sequence, and a value x that may be None is <<x>>.       *)
(***************************************************************************)
EXTENDS Lists

----------------------------------------------------------------------------
(* Columns. *)

BaseRoles == {"timestamp_col", "model_id_col", "model_version_col"}

(* The attributes that column_names lists, by type of schema. *)
Roles(type) ==
  BaseRoles \cup
  (CASE type = "tabular" -> {"label_col", "prediction_col", "proba_col"}
     [] type = "text"   -> {"input_col", "output_col", "reference_col", "embedding_col"}
     [] type = "agent"  -> {"input_col", "output_col", "trace_col", "success_col",
                            "tool_calls_col", "tokens_used_col", "latency_col", "cost_col"}
    [] type = "recsys"  -> {"user_id_col", "item_id_col", "relevance_col", "score_col"})

RoleOf(schema, r) == IF r \in DOMAIN schema.role THEN schema.role[r] ELSE ""

ColumnNames(schema) ==
  ({RoleOf(schema, r) : r \in Roles(schema.type)} \cup schema.protected) \ {""}

(* required_columns(): the schema's, the specs' features and item features.  *)
RequiredColumns(plan) ==
  ((ColumnNames(plan.schema) \cup {spec.feature : spec \in plan.metrics}) \ {""})
    \cup UNION {spec.itemFeatures : spec \in plan.metrics}

(* Loading keeps the required columns that the data has. *)
Projected(frame, plan) == [frame EXCEPT !.cols = @ \cap RequiredColumns(plan)]

(* A source is a frame, a file read by a backend, or something else.        *)
(* "auto" takes the first installed one of polars and pandas.                 *)
BackendFor(source, installed) ==
  IF source.backend # "auto" THEN source.backend
  ELSE IF "polars" \in installed THEN "polars" ELSE "pandas"

(* narwhals reads a CSV file with any of its backends that is installed. *)
CsvError(backend, installed) == IF backend \in installed THEN "none" ELSE "ImportError"

(* Two of them have a reader for Excel files; another one is refused.        *)
ExcelError(backend, installed) ==
  IF backend \notin {"polars", "pandas"} THEN "ValueError" ELSE CsvError(backend, installed)

(* What resolving the data of a plan raises. *)
LoadError(source, installed) ==
  LET backend == BackendFor(source, installed) IN
  CASE source.kind = "other"                            -> "SchemaError"
    [] source.kind \in {"csv", "excel"} /\ ~source.exists -> "FileNotFoundError"
    [] source.kind = "csv" /\ source.exists              -> CsvError(backend, installed)
    [] source.kind = "excel" /\ source.exists            -> ExcelError(backend, installed)
    [] OTHER                                            -> "none"

----------------------------------------------------------------------------
(* Windows. *)

(* A window is full, the last n rows, or the rows between two instants. *)
WindowValid(w) ==
  CASE w.type = "last_n"      -> w.n > 0
    [] w.type = "time_window" -> w.start < w.end
    [] OTHER                  -> TRUE

(* A sub-sample of n rows, or of a fraction of them, given in percent. *)
Samplings == [n : Seq(Nat), frac : Seq(Nat)]

(* Exactly one of n and frac. *)
SamplingValid(sampling) ==
  /\ (sampling.n = <<>>) # (sampling.frac = <<>>)
  /\ \A i \in DOMAIN sampling.n : sampling.n[i] > 0
  /\ \A i \in DOMAIN sampling.frac : sampling.frac[i] \in 1..100

LastRows(rows, n) == SubSeq(rows, Len(rows) - n + 1, Len(rows))

Between(rows, start, end) ==
  Picked(rows, {i \in DOMAIN rows : rows[i].ts >= start /\ rows[i].ts <= end})

(* _apply_window(): what it raises, and the rows it keeps.  The column of    *)
(* the timestamps may be unset, or missing in the data.                       *)
WindowError(frame, w, schema) ==
  LET ts == RoleOf(schema, "timestamp_col") IN
  CASE w.type = "last_n" /\ Len(frame.rows) < w.n -> "InsufficientDataError"
    [] w.type = "time_window" /\ ts \notin frame.cols -> "SchemaError"
    [] w.type = "time_window" /\ ts \in frame.cols
         /\ Between(frame.rows, w.start, w.end) = <<>> -> "InsufficientDataError"
    [] OTHER -> "none"

ApplyWindow(rows, w) ==
  CASE w.type = "last_n"      -> LastRows(rows, w.n)
    [] w.type = "time_window" -> Between(rows, w.start, w.end)
    [] OTHER                  -> rows

SampleError(rows) == IF rows = <<>> THEN "InsufficientDataError" ELSE "none"

(* RandomSampling: how many rows it takes, any of them and in any order. *)
SampleSize(sampling, total) ==
  IF sampling.n # <<>> THEN IF sampling.n[1] < total THEN sampling.n[1] ELSE total
  ELSE LET share == (total * sampling.frac[1]) \div 100 IN IF share > 1 THEN share ELSE 1

Samples(rows, sampling) ==
  LET size == SampleSize(sampling, Len(rows))
  IN {[i \in 1..size |-> rows[f[i]]] :
        f \in {f \in [1..size -> DOMAIN rows] : \A i, j \in 1..size : f[i] = f[j] => i = j}}

(* _filter_model(): the rows of the plan's model and of its version, each    *)
(* when the schema names a column for it and the data has that column.        *)
OfModel(row, cols, plan) ==
  LET Looked(r) == RoleOf(plan.schema, r) \in cols \ {""}
  IN /\ Looked("model_id_col") => row.model = plan.model
     /\ Looked("model_version_col") => row.version = plan.version

FilterModel(frame, plan) ==
  Picked(frame.rows, {i \in DOMAIN frame.rows : OfModel(frame.rows[i], frame.cols, plan)})

(* _validate_plan_columns(): in strict mode, columns that are missing. *)
MissingColumns(cols, plan) ==
  ({RoleOf(plan.schema, r) : r \in BaseRoles} \cup {spec.feature : spec \in plan.metrics})
    \ (cols \cup {""})

(* _build_context(): the first and last instant, None without a column or    *)
(* without a row.                                                             *)
Period(cols, rows, schema) ==
  LET stamps == {rows[i].ts : i \in DOMAIN rows}
  IN IF RoleOf(schema, "timestamp_col") \notin cols \/ stamps = {} THEN <<>>
     ELSE << CHOOSE t \in stamps : \A u \in stamps : t <= u,
             CHOOSE t \in stamps : \A u \in stamps : t >= u >>

----------------------------------------------------------------------------
(* Partition. *)

(* The sides of a cutoff: after it, and up to it. *)
AfterCutoff(t, cutoff) == t > cutoff

(* Mutant of InReferenceWindow: the first instant of the window counts. *)
InReferenceWindowClosed(t, cutoff, width) == t >= cutoff - width /\ t <= cutoff

InReferenceWindow(t, cutoff, width) == t > cutoff - width /\ t <= cutoff

CurrentSide(rows, cutoff) ==
  Picked(rows, {i \in DOMAIN rows : AfterCutoff(rows[i].ts, cutoff)})

ReferenceSide(rows, cutoff, width) ==
  Picked(rows, {i \in DOMAIN rows : InReferenceWindow(rows[i].ts, cutoff, width)})

(* TimeBasedPartitioner: no row after the cutoff is an error, no row before  *)
(* it a reference of None.                                                    *)
PartitionError(frame, schema, cutoff) ==
  CASE RoleOf(schema, "timestamp_col") \notin frame.cols -> "SchemaError"
    [] RoleOf(schema, "timestamp_col") \in frame.cols
         /\ CurrentSide(frame.rows, cutoff) = <<>>       -> "InsufficientDataError"
    [] OTHER                                            -> "none"

SomeOrNone(rows) == IF rows = <<>> THEN <<>> ELSE <<rows>>

Partition(rows, cutoff, width) ==
  [current |-> CurrentSide(rows, cutoff),
   reference |-> SomeOrNone(ReferenceSide(rows, cutoff, width))]
=============================================================================
