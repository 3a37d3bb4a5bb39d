------------------------------ MODULE Routing ------------------------------
(***************************************************************************)
(* What the runner does with one metric spec (Runner._run_one): it resolves  *)
(* the metric, and refuses it without a reference or for a column of a type  *)
(* that the metric's class does not accept.                                   *)
(*                                                                          *)
(* A spec is [name, feature]; feature is Nameless when there is none.         *)
(***************************************************************************)
EXTENDS Statistics, Drift, Scores

(* The metrics of each module. *)
OfNumbers == {"mean", "median", "std", "skewness", "kurtosis", "quantile", "sum",
              "in_range_count", "out_range_count"}
OfAnyColumn == {"count", "unique_count", "in_list_count"}
OfFrame == {"row_count", "column_count", "almost_constant_columns", "duplicate_rows",
            "empty_columns"}
Performance == {"accuracy", "precision", "recall", "f1", "log_loss", "auc", "aucpr",
                "brier", "mse", "mae", "r2", "mape"}
Fairness == {"demographic_parity", "equalized_odds", "disparate_impact"}
Estimation == {"cbpe_accuracy", "cbpe_precision", "cbpe_recall", "cbpe_f1", "cbpe_auc"}

DriftOfNumbers == {"wasserstein", "mmd", "ks_2samp", "ttest", "mannwhitney", "levene",
                   "cramervonmises", "energy_distance", "anderson_darling", "epps_singleton"}
DriftOfAny     == {"psi", "hellinger", "jensenshannon", "tvd"}
DriftOfClasses == {"chisquare", "gtest"}
DriftOfBinary  == {"fisher_exact", "ztest_proportions"}
DriftMetrics   == DriftOfNumbers \cup DriftOfAny \cup DriftOfClasses \cup DriftOfBinary
                    \cup {"target_drift"}

Builtin == OfNumbers \cup OfAnyColumn \cup {"top_category"} \cup OfFrame \cup Performance
             \cup Fairness \cup Estimation \cup DriftMetrics

AllTypes == {"numeric", "categorical", "binary"}

(* requires_reference *)
RequiresReference(name) == name \in DriftMetrics \cup Estimation

(* accepted_column_types; all types for a metric that does not declare any.  *)
Accepted(name) ==
  CASE name \in OfNumbers \cup DriftOfNumbers                     -> {"numeric", "binary"}
    [] name \in DriftOfClasses \cup Fairness \cup {"top_category"} -> {"categorical", "binary"}
    [] name \in DriftOfBinary                                     -> {"binary"}
    [] name \in OfFrame                                           -> {}
    [] OTHER                                                      -> AllTypes

(* accepted_target_types: the columns of the schema that must be binary. *)
Targets(name, s) ==
  (IF name \in Fairness THEN {s.pred} ELSE {})
    \cup (IF name = "equalized_odds" THEN {s.label} ELSE {})

Declared(s, c) == IF c \in DOMAIN s.types THEN s.types[c] ELSE Nameless

(* TabularSchema.from_dataframe(): a type for every column that has no role,  *)
(* unless one is given; a column of 0 and 1 is declared numeric like any       *)
(* other, and so is never binary again.                                       *)
InferredTypes(df, s, given) ==
  LET free == DOMAIN df.cols \ ({s.label, s.pred, s.proba} \cup Range(s.protected)) IN
  [c \in free \cup DOMAIN given |->
     IF c \in DOMAIN given THEN given[c]
     ELSE IF df.cols[c].dtype \in Number THEN "numeric" ELSE "categorical"]

(* classify_columns() of the current window; a column it lacks has no type.  *)
Known(df, c) == c # Nameless /\ Has(df, c)
TypeIn(df, s, c, types) == ~Known(df, c) \/ ColumnType(df.cols[c], Declared(s, c)) \in types

(* Mutant of Routed: a constraint on the feature's type is not looked at. *)
RoutedAnywhere(spec, cur, ref, s) ==
  When(spec.name \notin Builtin, "UnknownMetricError")
  \o When(RequiresReference(spec.name) /\ ref = <<>>, "MissingReferenceError")
  \o When(\E c \in Targets(spec.name, s) : ~TypeIn(cur, s, c, {"binary"}), "SchemaError")

(* The checks of _run_one() before it calls compute(). *)
Routed(spec, cur, ref, s) ==
  When(spec.name \notin Builtin, "UnknownMetricError")
  \o When(RequiresReference(spec.name) /\ ref = <<>>, "MissingReferenceError")
  \o When(~TypeIn(cur, s, spec.feature, Accepted(spec.name)), "SchemaError")
  \o When(\E c \in Targets(spec.name, s) : ~TypeIn(cur, s, c, {"binary"}), "SchemaError")

(* What compute() returns or raises, for the metrics of one column. *)
ComputeOf(spec, cur, ref, s, params) ==
  IF spec.name \in DriftMetrics
  THEN DriftOf(cur, ref, spec.feature, Declared(s, spec.feature), s, params)[spec.name]
  ELSE StatisticsOf(cur, spec.feature, params)[spec.name]

RunOne(spec, cur, ref, s, params) ==
  Guarded(Routed(spec, cur, ref, s), ComputeOf(spec, cur, ref, s, params))
=============================================================================
