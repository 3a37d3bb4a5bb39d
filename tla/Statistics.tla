----------------------------- MODULE Statistics -----------------------------
(***************************************************************************)
(* Descriptive statistics of the current window                             *)
(* (ayn_ml/metrics/tabular/statistics.py) and the column profile of          *)
(* ayn_ml/metrics/tabular/profiler.py.                                       *)
(*                                                                          *)
(* std is given by its square and skewness by its sign: the fractions stay   *)
(* exact.  A metric here takes the window, the column (or Nameless) and the  *)
(* spec's params.                                                             *)
(***************************************************************************)
EXTENDS Frames, TLC

AsFractions(vals) == [i \in DOMAIN vals |-> Whole(vals[i])]

(* Sum of the k-th powers of the deviations, each scaled by the length. *)
Power(x, k) == CASE k = 2 -> x * x [] k = 3 -> x * x * x [] k = 4 -> x * x * x * x
Deviations(vals, k) ==
  LET n == Len(vals)
      total == FoldLeft(+, 0, vals)
      Add(acc, v) == acc + Power(n * v - total, k)
  IN FoldLeft(Add, 0, vals)

Average(vals) == MeanF(AsFractions(vals))

(* Sample variance, ddof=1. *)
Variance(vals) ==
  LET n == Len(vals) IN
  IF n < 2 THEN NotANumber ELSE Frac(Deviations(vals, 2), n * n * (n - 1))

Sign(n) == IF n > 0 THEN One ELSE IF n < 0 THEN Whole(-1) ELSE Zero

(* The statistics that numpy computes on floats: NaN as soon as one value is. *)
OnFloats(df, c, minRows, asFloat, F(_)) ==
  LET vals == Vals(df, c) IN
  Guarded(Extraction(df, c, asFloat, minRows)
            \o When(NotCastable(df, c), "ValueError"),
          Stat(IF HasNull(vals) THEN NotANumber ELSE F(vals)))

Mean(df, c)   == OnFloats(df, c, 1, FALSE, Average)
MedianOf(vals) == Quantile(vals, Frac(1, 2))
Median(df, c) == OnFloats(df, c, 1, FALSE, MedianOf)
Std(df, c)    == OnFloats(df, c, 1, FALSE, Variance)

SkewnessOf(vals) ==
  IF Deviations(vals, 2) = 0 THEN NotANumber ELSE Sign(Deviations(vals, 3))
Skewness(df, c) == OnFloats(df, c, 1, FALSE, SkewnessOf)

KurtosisOf(vals) ==
  LET m2 == Deviations(vals, 2) IN
  IF m2 = 0 THEN NotANumber
  ELSE Minus(Frac(Len(vals) * Deviations(vals, 4), m2 * m2), Whole(3))
Kurtosis(df, c) == OnFloats(df, c, 1, FALSE, KurtosisOf)

QuantileMetric(df, c, params) ==
  LET AtQ(vals) == Quantile(vals, params.q) IN OnFloats(df, c, 1, FALSE, AtQ)

TotalOf(vals) == Whole(FoldLeft(+, 0, vals))
SumMetric(df, c) == OnFloats(df, c, 0, TRUE, TotalOf)

(* The counts: of rows, of values, of values in or out of a range or a list. *)
CountWhere(df, c, checks, T(_)) ==
  LET vals == Vals(df, c) IN
  Guarded(checks, Stat(Whole(Cardinality({i \in DOMAIN vals : T(vals[i])}))))

CountMetric(df, c) ==
  LET Always(v) == TRUE IN CountWhere(df, c, Extraction(df, c, FALSE, 0), Always)

InRangeCount(df, c, params) ==
  LET In(v) == v # Null /\ v >= params.low /\ v <= params.high
  IN CountWhere(df, c, Extraction(df, c, TRUE, 0), In)

(* Mutant of OutRangeCount: the complement of the range, NaN included. *)
OutRangeComplement(df, c, params) ==
  LET Out(v) == v = Null \/ ~(v >= params.low /\ v <= params.high)
  IN CountWhere(df, c, Extraction(df, c, TRUE, 0), Out)

OutRangeCount(df, c, params) ==
  LET Out(v) == v # Null /\ (v < params.low \/ v > params.high)
  IN CountWhere(df, c, Extraction(df, c, TRUE, 0), Out)

InListCount(df, c, params) ==
  LET Listed(v) == v \in params.values
  IN CountWhere(df, c, Extraction(df, c, FALSE, 0), Listed)

UniqueCount(df, c) ==
  Guarded(Extraction(df, c, FALSE, 0) \o When(Unsortable(df, c), "TypeError"),
          Stat(Whole(Cardinality(Range(Vals(df, c))))))

(* The most frequent value as a string, the first in sorted order on a tie; *)
(* NaN sorts last and reads "nan".                                            *)
TextNaN == -1
MostFrequent(vals) ==
  LET seen == Range(vals)
      tops == {v \in seen : \A w \in seen : CountOf(vals, w) <= CountOf(vals, v)}
  IN IF tops \ {Null} = {} THEN TextNaN ELSE Min(tops \ {Null})

TopCategory(df, c) ==
  Guarded(Extraction(df, c, FALSE, 1) \o When(Unsortable(df, c), "TypeError"),
          Stat(Category(MostFrequent(Vals(df, c)))))

(* The statistics of the whole frame; they raise nothing. *)
RowCount(df)    == Stat(Whole(df.n))
ColumnCount(df) == Stat(Whole(Cardinality(DOMAIN df.cols)))

AlmostConstantColumns(df, params) ==
  Stat(Whole(Cardinality(
    {c \in DOMAIN df.cols : Cardinality(Range(Vals(df, c))) <= params.nUnique})))

RowsOf(df) == {[c \in DOMAIN df.cols |-> Vals(df, c)[i]] : i \in 1..df.n}
DuplicateRows(df) == Stat(Whole(df.n - Cardinality(RowsOf(df))))

EmptyColumns(df) ==
  Stat(Whole(Cardinality({c \in DOMAIN df.cols : CountOf(Vals(df, c), Null) = df.n})))

StatisticsOf(df, c, params) ==
  [mean |-> Mean(df, c), median |-> Median(df, c), std |-> Std(df, c),
   skewness |-> Skewness(df, c), kurtosis |-> Kurtosis(df, c),
   quantile |-> QuantileMetric(df, c, params), sum |-> SumMetric(df, c),
   count |-> CountMetric(df, c), unique_count |-> UniqueCount(df, c),
   in_range_count |-> InRangeCount(df, c, params),
   out_range_count |-> OutRangeCount(df, c, params),
   in_list_count |-> InListCount(df, c, params),
   top_category |-> TopCategory(df, c),
   row_count |-> RowCount(df), column_count |-> ColumnCount(df),
   almost_constant_columns |-> AlmostConstantColumns(df, params),
   duplicate_rows |-> DuplicateRows(df), empty_columns |-> EmptyColumns(df)]

----------------------------------------------------------------------------
(* profile_columns(), for a column that the frame has: unlike the metrics,   *)
(* it leaves the missing values out.  null_pct and std (by its square) are   *)
(* None for no row and for fewer than two values.                            *)
IfAny(vals, v) == IF vals = <<>> THEN Unbound ELSE v

(* Texts declared numeric make it raise, and with it the whole run. *)
ProfileRaises(df, c, declared) ==
  ColumnType(df.cols[c], declared) # "categorical" /\ NotCastable(df, c)

(* np.unique() refuses nothing here: the nulls are dropped first. *)
Profile(df, c, declared) ==
  LET arr   == Floats(df, c)
      nulls == CountOf(Vals(df, c), Null)
      pct   == IF df.n = 0 THEN Unbound ELSE Frac(nulls, df.n)
  IN IF ColumnType(df.cols[c], declared) = "categorical"
     THEN [null_count |-> Whole(nulls), null_pct |-> pct,
           n_unique     |-> Whole(Cardinality(Range(arr))),
           top_category |-> IfAny(arr, Category(MostFrequent(arr)))]
     ELSE [null_count |-> Whole(nulls), null_pct |-> pct,
           min  |-> IfAny(arr, Whole(Min(Range(arr)))),
           max  |-> IfAny(arr, Whole(Max(Range(arr)))),
           mean |-> IfAny(arr, Average(arr)),
           std  |-> IF Len(arr) > 1 THEN Variance(arr) ELSE Unbound,
           p25  |-> IfAny(arr, Quantile(arr, Frac(1, 4))),
           p50  |-> IfAny(arr, Quantile(arr, Frac(1, 2))),
           p75  |-> IfAny(arr, Quantile(arr, Frac(3, 4)))]
=============================================================================
