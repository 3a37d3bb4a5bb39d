------------------------------ MODULE Advisor ------------------------------
(***************************************************************************)
(* MetricAdvisor.suggest(): the plan it proposes for a training window and a *)
(* reference (ayn_ml/advisor).                                               *)
(*                                                                          *)
(* The normality tests of scipy are external: their verdict is a parameter.  *)
(***************************************************************************)
EXTENDS Routing

CONSTANTS NormalMin,    \* 8: below it nothing is tested for normality
          SmallN,       \* 30: below it no hypothesis test is suggested
          LargeN,       \* 50000: above it neither
          Imbalanced,   \* 5: above it f1 and auc replace accuracy
          Severe        \* 10: above it f1 and aucpr do

ASSUME AdvisorAssumption ==
  /\ NormalMin \in Nat /\ SmallN \in Nat /\ LargeN \in Nat
  /\ Imbalanced \in Nat /\ Severe \in Nat /\ Imbalanced <= Severe

Special(s) == {s.label, s.pred, s.proba}

(* _feature_cols() *)
FeatureCols(df, s) ==
  (IF DOMAIN s.types # {} THEN DOMAIN s.types ELSE DOMAIN df.cols) \ Special(s)

(* |skewness| < 1, of the population; it is NaN for a constant column. *)
Level(vals) ==
  LET m2 == Deviations(vals, 2)
      m3 == Deviations(vals, 3)
  IN m2 # 0 /\ Len(vals) * m3 * m3 < m2 * m2 * m2

(* The square of _variance_ratio(): zero for a window of one value, None for *)
(* a reference without a spread.                                              *)
SquareOr(vals, default) == IF Len(vals) > 1 THEN Variance(vals) ELSE default
VarianceRatio(vals, ref, c) ==
  IF ref = <<>> \/ ~Has(FrameOf(ref), c) THEN Unbound
  ELSE LET past == SquareOr(Floats(FrameOf(ref), c), Zero)
       IN IF past = Zero THEN Unbound ELSE Over(SquareOr(vals, Zero), past)

(* One column, of analyze_columns(): the reference decides about normality,  *)
(* the current window about the sample size.                                  *)
ColumnAnalysis(df, s, ref, c, verdict) ==
  LET type == ColumnType(df.cols[c], Declared(s, c))
      vals == Floats(df, c)
      past == IF ref # <<>> /\ Has(FrameOf(ref), c) THEN Floats(FrameOf(ref), c) ELSE <<>>
      norm == IF past = <<>> THEN vals ELSE past
  IN IF type = "categorical"
     THEN [type |-> type, n |-> df.n, level |-> TRUE, normal |-> FALSE, ratio |-> Unbound]
     ELSE [type |-> type, n |-> Len(vals), level |-> norm = <<>> \/ Level(norm),
           normal |-> norm # <<>> /\ Len(norm) >= NormalMin /\ verdict,
           ratio |-> VarianceRatio(vals, ref, c)]

Analysed(df, s) == {c \in FeatureCols(df, s) : Has(df, c)}

(* to_float_array() of texts declared numeric. *)
AnalysisRaises(df, s, ref) ==
  \E c \in Analysed(df, s) :
    /\ ColumnType(df.cols[c], Declared(s, c)) # "categorical"
    /\ NotCastable(df, c) \/ NotCastable(FrameOf(ref), c)

(* Mutant of DriftSpecs: a column of categories gets the metrics of numbers. *)
DriftSpecsAlike(a) ==
  IF a.n < SmallN THEN {"wasserstein"} ELSE {"psi", "wasserstein"}

(* suggest_drift_specs(): 1.5 and 0.67, squared. *)
DriftSpecs(a) ==
  LET spread == /\ a.ratio # Unbound
                /\ Less(Frac(9, 4), a.ratio) \/ Less(a.ratio, Frac(4489, 10000))
  IN CASE a.type = "categorical" -> {"psi", "chisquare"}
       [] a.type # "categorical" /\ a.n < SmallN -> {"wasserstein"}
       [] a.type # "categorical" /\ a.n >= SmallN /\ a.n > LargeN -> {"psi", "wasserstein"}
       [] OTHER -> {IF a.normal /\ a.level THEN "ttest" ELSE "mannwhitney",
                    "cramervonmises", "wasserstein", "psi"}
                     \cup IF spread THEN {"levene"} ELSE {}

(* _compute_imbalance(): rows of the largest class over those of the smallest. *)
Imbalance(df, s) ==
  LET labels == IF Has(df, s.label) THEN NonNull(Vals(df, s.label)) ELSE <<>>
      counts == {CountOf(labels, k) : k \in Range(labels)}
  IN IF Cardinality(Range(labels)) < 2 THEN One ELSE Frac(Max(counts), Min(counts))

(* suggest_performance_specs() *)
PerformanceSpecs(df, s, task) ==
  LET above(limit) == Less(Whole(limit), Imbalance(df, s)) IN
  IF task = "regression" THEN {"mae", "r2"}
  ELSE IF above(Severe) THEN {"f1", "aucpr"}
  ELSE IF above(Imbalanced) THEN {"f1", "auc"} ELSE {"accuracy"}

(* suggest(): the specs of the plan, or what it raises. *)
Suggest(df, s, ref, task, verdict) ==
  LET specs == {[name |-> m, feature |-> Nameless] :
                   m \in PerformanceSpecs(df, s, task) \cup {"target_drift"}}
        \cup UNION {{[name |-> m, feature |-> c] :
                       m \in DriftSpecs(ColumnAnalysis(df, s, ref, c, verdict))} :
                      c \in Analysed(df, s)}
  IN CASE ref = <<>> \/ task \notin {"classification", "regression"} ->
            [err |-> "ValueError", specs |-> {}]
       [] ref # <<>> /\ AnalysisRaises(df, s, ref) -> [err |-> "ValueError", specs |-> {}]
       [] OTHER -> [err |-> "none", specs |-> specs]
=============================================================================
