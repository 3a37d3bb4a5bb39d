---------------------------- MODULE MetricProofs ----------------------------
(***************************************************************************)
(* Theorems about MetricCalls: which metrics run on which columns, and that  *)
(* the plans of the advisor run.                                             *)
(***************************************************************************)
EXTENDS MetricCalls, ListTheorems

(***************************************************************************)
(* Guards.                                                                  *)
(***************************************************************************)

(* A guard that does not hold adds nothing to what is raised. *)
LEMMA Silent == ASSUME NEW p, NEW e, ~p PROVE When(p, e) = <<>>
  BY DEF When

LEMMA SilentBoth == <<>> \o <<>> = <<>>
  OBVIOUS

LEMMA NamesAreNames == Nameless \notin {"x", "y", "numeric", "categorical"}
  BY Zenon DEF Nameless

(* The windows that the properties speak of: x in enough rows, and, where   *)
(* they are full, without missing values.                                     *)
IsLong(df) == df.n >= MinRows /\ Has(df, "x")
IsFull(df) == IsLong(df) /\ NoNulls(df)

LEMMA ExtractionIsSilent ==
  ASSUME NEW df, NEW asFloat, NEW minRows, IsLong(df), df.n \in Nat, minRows \in Nat,
         minRows <= MinRows, asFloat => ~NotCastable(df, "x")
  PROVE  Extraction(df, "x", asFloat, minRows) = <<>>
<1>1. ~(df.n < minRows)
  BY FramesAssumption DEF IsLong, FramesAssumption
<1> QED
  BY <1>1, NamesAreNames, Silent, SilentBoth DEF Extraction, IsLong

LEMMA EnoughRows == MinRows \in Nat /\ 0 <= MinRows /\ 1 <= MinRows /\ MinRows <= MinRows
  BY FramesAssumption DEF FramesAssumption

LEMMA PairIsSilent ==
  ASSUME NEW cur, NEW past, NEW asFloat, IsLong(cur), IsLong(past), cur.n \in Nat, past.n \in Nat,
         asFloat => ~NotCastable(cur, "x") /\ ~NotCastable(past, "x")
  PROVE  PairChecks(cur, <<past>>, "x", asFloat) = <<>>
<1>1. FrameOf(<<past>>) = past /\ ReferenceCheck(<<past>>) = <<>>
  BY Silent DEF FrameOf, ReferenceCheck
<1>2. Extraction(past, "x", asFloat, MinRows) = <<>> /\ Extraction(cur, "x", asFloat, MinRows) = <<>>
  BY ExtractionIsSilent, FramesAssumption DEF FramesAssumption
<1> QED
  BY <1>1, <1>2, SilentBoth DEF PairChecks

LEMMA NothingRaised ==
  ASSUME NEW raised, NEW o, raised = <<>>
  PROVE  Guarded(raised, o) = o
  BY DEF Guarded

LEMMA NothingMissing ==
  ASSUME NEW df, IsFull(df)
  PROVE  ~Missing(df, "x") /\ ~Unsortable(df, "x")
  BY DEF IsFull, NoNulls, Missing, Unsortable

(***************************************************************************)
(* The drift metrics of a column.                                           *)
(***************************************************************************)

(* Those that read the values as they are. *)
LEMMA DriftOfValuesRuns ==
  ASSUME NEW cur, NEW past, NEW declared, NEW params, IsFull(cur), IsFull(past),
         cur.n \in Nat, past.n \in Nat,
         IsNumeric(past, "x", declared) => ~NotCastable(cur, "x") /\ ~NotCastable(past, "x")
  PROVE  /\ Got(Psi(cur, <<past>>, "x", declared, params))
         /\ Got(Hellinger(cur, <<past>>, "x", params))
         /\ Got(JensenShannon(cur, <<past>>, "x", params))
         /\ Got(TotalVariation(cur, <<past>>, "x", params))
         /\ Got(FisherExact(cur, <<past>>, "x"))
         /\ ~Floating(cur, "x") /\ ~Floating(past, "x") =>
              Got(ChiSquare(cur, <<past>>, "x")) /\ Got(GTest(cur, <<past>>, "x"))
<1>1. FrameOf(<<past>>) = past
  BY DEF FrameOf
<1>2. PairChecks(cur, <<past>>, "x", FALSE) = <<>>
  BY PairIsSilent DEF IsFull
<1>3. /\ ~Missing(cur, "x") /\ ~Unsortable(cur, "x")
      /\ ~Missing(past, "x") /\ ~Unsortable(past, "x")
  BY NothingMissing
<1>4. Got(Psi(cur, <<past>>, "x", declared, params))
  <2>1. PsiChecks(cur, <<past>>, "x", IsNumeric(past, "x", declared)) = <<>>
    BY <1>1, <1>3, Silent, SilentBoth DEF PsiChecks, Either
  <2>2. Got(PsiCore(cur, <<past>>, "x", IsNumeric(past, "x", declared), params))
    BY <2>1, NothingRaised DEF PsiCore, Result, Got
  <2> QED
    BY <1>1, <1>2, <2>2, NothingRaised DEF Psi
<1>5. /\ Got(Hellinger(cur, <<past>>, "x", params))
      /\ Got(JensenShannon(cur, <<past>>, "x", params))
      /\ Got(TotalVariation(cur, <<past>>, "x", params))
  <2> DEFINE numeric == BothNumbers(cur, <<past>>, "x")
  <2>1. When(numeric /\ Either(Missing, cur, <<past>>, "x"), "ValueError") = <<>>
    BY <1>1, <1>3, Silent DEF Either
  <2>2. When(~numeric /\ Either(Unsortable, cur, <<past>>, "x"), "TypeError") = <<>>
    BY <1>1, <1>3, Silent DEF Either
  <2> QED
    BY <1>2, <2>1, <2>2, SilentBoth
    DEF Guarded, Hellinger, JensenShannon, TotalVariation, OnProbs, Result, Got
<1>6. Got(FisherExact(cur, <<past>>, "x"))
  BY <1>2 DEF FisherExact, Guarded, Result, Got
<1>7. ASSUME ~Floating(cur, "x"), ~Floating(past, "x")
      PROVE  Got(ChiSquare(cur, <<past>>, "x")) /\ Got(GTest(cur, <<past>>, "x"))
  <2>1. TableChecks(cur, <<past>>, "x") = <<>>
    BY <1>1, <1>2, <1>3, <1>7, Silent, SilentBoth DEF TableChecks, Either
  <2>2. ASSUME NEW v PROVE Got(OnTable(cur, <<past>>, "x", v))
    BY <2>1, NothingRaised DEF OnTable, Result, Got
  <2> QED
    BY <2>2 DEF ChiSquare, GTest
<1> QED
  BY <1>4, <1>5, <1>6, <1>7

(* Those that compute on floats: a missing value makes them NaN. *)
LEMMA DriftOfFloatsRuns ==
  ASSUME NEW cur, NEW past, NEW declared, IsLong(cur), IsLong(past), cur.n \in Nat, past.n \in Nat,
         ~NotCastable(cur, "x"), ~NotCastable(past, "x")
  PROVE  /\ IsNumeric(past, "x", declared) => /\ Got(Wasserstein(cur, <<past>>, "x", declared))
                                              /\ Got(Mmd(cur, <<past>>, "x", declared))
         /\ Got(KS2Samp(cur, <<past>>, "x")) /\ Got(TTest(cur, <<past>>, "x"))
         /\ Got(MannWhitney(cur, <<past>>, "x")) /\ Got(Levene(cur, <<past>>, "x"))
         /\ Got(CramerVonMises(cur, <<past>>, "x")) /\ Got(EnergyDistance(cur, <<past>>, "x"))
         /\ Got(ZTestProportions(cur, <<past>>, "x"))
         /\ ~NoSpread(Pooled(cur, <<past>>, "x")) => Got(EppsSingleton(cur, <<past>>, "x"))
         /\ ~(Cardinality(Range(Pooled(cur, <<past>>, "x"))) < 2) =>
              Got(AndersonDarling(cur, <<past>>, "x"))
<1>1. FrameOf(<<past>>) = past
  BY DEF FrameOf
<1>2. PairChecks(cur, <<past>>, "x", FALSE) = <<>> /\ PairChecks(cur, <<past>>, "x", TRUE) = <<>>
  BY PairIsSilent
<1>3. \A v, w : Got(Result(v, w))
  BY DEF Got, Result
<1>4. ASSUME NEW o, Got(o)
      PROVE  Got(OnFloatPair(cur, <<past>>, "x", o)) /\ Got(OrNaN(cur, <<past>>, "x", o))
  <2>1. Got(OrNaN(cur, <<past>>, "x", o))
    BY <1>3, <1>4 DEF OrNaN
  <2> QED
    BY <1>2, <2>1 DEF OnFloatPair, Guarded
<1>5. \A v, w : Got(Result(v, w))
  BY <1>3
<1>6. ASSUME IsNumeric(past, "x", declared)
      PROVE  Got(Wasserstein(cur, <<past>>, "x", declared)) /\ Got(Mmd(cur, <<past>>, "x", declared))
  <2>1. NumericChecks(cur, <<past>>, "x", declared) = <<>>
    BY <1>1, <1>2, <1>6, Silent, SilentBoth DEF NumericChecks, Either
  <2> QED
    BY <1>4, <1>5, <2>1 DEF Wasserstein, Mmd, Guarded
<1>7. /\ Got(KS2Samp(cur, <<past>>, "x")) /\ Got(MannWhitney(cur, <<past>>, "x"))
      /\ Got(CramerVonMises(cur, <<past>>, "x")) /\ Got(EnergyDistance(cur, <<past>>, "x"))
  BY <1>4, <1>5 DEF KS2Samp, MannWhitney, CramerVonMises, EnergyDistance
<1>8. /\ Got(TTest(cur, <<past>>, "x")) /\ Got(Levene(cur, <<past>>, "x"))
      /\ Got(ZTestProportions(cur, <<past>>, "x"))
  <2>1. Got(TTest(cur, <<past>>, "x"))
    BY <1>2, <1>5 DEF TTest, Guarded
  <2>2. Got(Levene(cur, <<past>>, "x"))
    BY <1>2, <1>5 DEF Levene, Guarded
  <2>3. Got(ZTestProportions(cur, <<past>>, "x"))
    BY <1>2, <1>5 DEF ZTestProportions, Guarded
  <2> QED
    BY <2>1, <2>2, <2>3
<1>9. ASSUME ~NoSpread(Pooled(cur, <<past>>, "x"))
      PROVE  Got(EppsSingleton(cur, <<past>>, "x"))
  <2> DEFINE checks == PairChecks(cur, <<past>>, "x", TRUE)
             flat   == checks = <<>> /\ ~Either(Missing, cur, <<past>>, "x")
                         /\ NoSpread(Pooled(cur, <<past>>, "x"))
  <2>1. When(flat, "LinAlgError") = <<>>
    BY <1>9, Silent
  <2> QED
    BY <1>2, <1>4, <1>5, <2>1, SilentBoth DEF EppsSingleton, Guarded
<1>10. ASSUME ~(Cardinality(Range(Pooled(cur, <<past>>, "x"))) < 2)
       PROVE  Got(AndersonDarling(cur, <<past>>, "x"))
  <2> DEFINE few == Cardinality(Range(Pooled(cur, <<past>>, "x"))) < 2
  <2>1. When(Has(cur, "x") /\ Has(FrameOf(<<past>>), "x") /\ few, "ValueError") = <<>>
    BY <1>10, Silent
  <2> QED
    BY <1>2, <1>4, <1>5, <2>1, SilentBoth DEF AndersonDarling, Guarded
<1> QED
  BY <1>6, <1>7, <1>8, <1>9, <1>10

(* target_drift, of a label that is no text with missing values. *)
LEMMA TargetDriftRuns ==
  ASSUME NEW cur, NEW past, NEW s, NEW params, cur.n \in Nat, past.n \in Nat,
         cur.n >= MinRows, past.n >= MinRows,
         s.type = "tabular", s.label # Nameless, Has(cur, s.label), Has(past, s.label),
         params.treatAs = "auto", ~Missing(cur, s.label), ~Missing(past, s.label),
         Floating(past, s.label) => ~NotCastable(cur, s.label) /\ ~NotCastable(past, s.label)
  PROVE  Got(TargetDrift(cur, <<past>>, s, params))
<1>1. FrameOf(<<past>>) = past
  BY DEF FrameOf
<1>2. ~Unsortable(cur, s.label) /\ ~Unsortable(past, s.label)
  BY DEF Missing, Unsortable
<1>3. TargetNumeric(<<past>>, s.label, params.treatAs) = Floating(past, s.label)
  BY <1>1 DEF TargetNumeric
<1>4. Got(PsiCore(cur, <<past>>, s.label, Floating(past, s.label), params))
  <2>1. PsiChecks(cur, <<past>>, s.label, Floating(past, s.label)) = <<>>
    BY <1>1, <1>2, Silent, SilentBoth DEF PsiChecks, Either
  <2> QED
    BY <2>1 DEF PsiCore, Guarded, Result, Got
<1>5. /\ ReferenceCheck(<<past>>) = <<>> /\ TabularCheck(s) = <<>>
      /\ ColumnCheck(past, s.label) = <<>> /\ ColumnCheck(cur, s.label) = <<>>
  BY Silent DEF ReferenceCheck, TabularCheck, ColumnCheck
<1>6. When(past.n < MinRows \/ cur.n < MinRows, "InsufficientDataError") = <<>>
  <2>1. MinRows \in Int
    BY FramesAssumption DEF FramesAssumption
  <2>2. \A k \in Nat : k >= MinRows => ~(k < MinRows)
    BY <2>1
  <2>3. ~(past.n < MinRows) /\ ~(cur.n < MinRows)
    BY <2>2
  <2> QED
    BY <2>3, Silent
<1> QED
  BY <1>1, <1>3, <1>4, <1>5, <1>6, SilentBoth DEF TargetDrift, Guarded

(***************************************************************************)
(* The statistics of a column.                                              *)
(***************************************************************************)

(* Those of any column. *)
LEMMA CountsRun ==
  ASSUME NEW df, NEW params, IsFull(df), df.n \in Nat
  PROVE  /\ Got(CountMetric(df, "x")) /\ Got(UniqueCount(df, "x"))
         /\ Got(InListCount(df, "x", params)) /\ Got(TopCategory(df, "x"))
<1>1. Extraction(df, "x", FALSE, 0) = <<>> /\ Extraction(df, "x", FALSE, 1) = <<>>
  <2>1. 0 \in Nat /\ 1 \in Nat
    OBVIOUS
  <2> QED
    BY <2>1, EnoughRows, ExtractionIsSilent, Zenon DEF IsFull
<1>2. When(Unsortable(df, "x"), "TypeError") = <<>>
  BY NothingMissing, Silent
<1>3. \A v : Got(Stat(v))
  BY DEF Got, Stat
<1>4. Got(CountMetric(df, "x")) /\ Got(InListCount(df, "x", params))
  BY <1>1, <1>3 DEF CountMetric, InListCount, CountWhere, Guarded
<1>5. Got(UniqueCount(df, "x")) /\ Got(TopCategory(df, "x"))
  BY <1>1, <1>2, <1>3, SilentBoth DEF UniqueCount, TopCategory, Guarded
<1> QED
  BY <1>4, <1>5

(* Those that compute on floats. *)
LEMMA NumbersRun ==
  ASSUME NEW df, NEW params, IsFull(df), df.n \in Nat, ~NotCastable(df, "x")
  PROVE  /\ Got(Mean(df, "x")) /\ Got(Median(df, "x")) /\ Got(Std(df, "x"))
         /\ Got(Skewness(df, "x")) /\ Got(Kurtosis(df, "x"))
         /\ Got(QuantileMetric(df, "x", params)) /\ Got(SumMetric(df, "x"))
         /\ Got(InRangeCount(df, "x", params)) /\ Got(OutRangeCount(df, "x", params))
<1>1. Extraction(df, "x", FALSE, 1) = <<>> /\ Extraction(df, "x", TRUE, 0) = <<>>
  <2>1. 0 \in Nat /\ 1 \in Nat
    OBVIOUS
  <2> QED
    BY <2>1, EnoughRows, ExtractionIsSilent, Zenon DEF IsFull
<1>2. When(NotCastable(df, "x"), "ValueError") = <<>>
  BY Silent
<1>3. \A v : Got(Stat(v))
  BY DEF Got, Stat
<1>4. Got(Mean(df, "x")) /\ Got(Median(df, "x")) /\ Got(Std(df, "x"))
  BY <1>1, <1>2, <1>3, SilentBoth DEF Mean, Median, Std, OnFloats, Guarded
<1>5. Got(Skewness(df, "x")) /\ Got(Kurtosis(df, "x"))
  BY <1>1, <1>2, <1>3, SilentBoth DEF Skewness, Kurtosis, OnFloats, Guarded
<1>6. Got(QuantileMetric(df, "x", params)) /\ Got(SumMetric(df, "x"))
  BY <1>1, <1>2, <1>3, SilentBoth DEF QuantileMetric, SumMetric, OnFloats, Guarded
<1>7. Got(InRangeCount(df, "x", params)) /\ Got(OutRangeCount(df, "x", params))
  BY <1>1, <1>3 DEF InRangeCount, OutRangeCount, CountWhere, Guarded
<1> QED
  BY <1>4, <1>5, <1>6, <1>7

(***************************************************************************)
(* The type of the column.                                                  *)
(***************************************************************************)

Declarations == {Nameless, "numeric", "categorical"}

(* A column that is not of categories is one of numbers, or declared so; only *)
(* undeclared numbers are binary.                                            *)
LEMMA TypeOfColumn ==
  ASSUME NEW column, NEW declared \in Declarations
  PROVE  /\ ColumnType(column, declared) \in {"numeric", "categorical", "binary"}
         /\ ColumnType(column, declared) # "categorical" =>
              \/ declared = Nameless /\ column.dtype \in Number
              \/ declared = "numeric"
         /\ ColumnType(column, declared) = "binary" => column.dtype \in Number
         /\ ColumnType(column, declared) = "categorical" =>
              \/ declared = Nameless /\ column.dtype \notin Number
              \/ declared = "categorical"
<1>1. CASE declared # Nameless
  <2>1. ColumnType(column, declared) = declared
    BY <1>1 DEF ColumnType
  <2> QED
    BY <1>1, <2>1 DEF Declarations
<1>2. CASE declared = Nameless
  <2>1. CASE column.dtype = "int"
    BY <1>2, <2>1 DEF ColumnType, Number
  <2>2. CASE column.dtype = "float"
    BY <1>2, <2>2 DEF ColumnType, Number
  <2>3. CASE column.dtype \notin Number
    BY <1>2, <2>3 DEF ColumnType, Number
  <2> QED
    BY <2>1, <2>2, <2>3 DEF Number
<1> QED
  BY <1>1, <1>2

(* Columns of the same dtype, or both of numbers. *)
LEMMA AlikeColumns ==
  ASSUME NEW df, NEW other, Alike(df, other)
  PROVE  /\ df.cols["x"].dtype = "str" <=> other.cols["x"].dtype = "str"
         /\ df.cols["x"].dtype \in Number <=> other.cols["x"].dtype \in Number
<1> DEFINE a == df.cols["x"].dtype
           b == other.cols["x"].dtype
<1>1. CASE Cardinality({a, b}) = 1
  <2>1. a = b
    <3>1. IsFiniteSet({a}) /\ Cardinality({a}) = 1
      BY FS_Singleton
    <3>2. a # b => Cardinality({a} \cup {b}) = 2
      BY <3>1, FS_AddElement
    <3> QED
      BY <1>1, <3>2
  <2> QED
    BY <2>1
<1>2. CASE {a, b} \subseteq Number
  BY <1>2 DEF Number
<1> QED
  BY <1>1, <1>2 DEF Alike

(* Two such columns, declared alike, are both of categories or both not.      *)
LEMMA TypesAgree ==
  ASSUME NEW a, NEW b, NEW declared \in Declarations,
         a.dtype \in Number <=> b.dtype \in Number
  PROVE  ColumnType(a, declared) = "categorical" <=> ColumnType(b, declared) = "categorical"
<1>1. CASE declared # Nameless
  BY <1>1 DEF ColumnType
<1>2. CASE declared = Nameless
  BY <1>2, TypeOfColumn, NamesAreNames
<1> QED
  BY <1>1, <1>2

LEMMA DeclaredOfInput ==
  ASSUME NEW in, IsInput(in)
  PROVE  Declared(in.s, "x") \in Declarations
BY DEF IsInput, Declared, Declarations

(***************************************************************************)
(* compute() of a metric that the column's type lets through.               *)
(***************************************************************************)

(* The exceptions of RoutedMetricsRun. *)
Excused(name, cur, past, declared) ==
  \/ name \in DriftOfClasses /\ Either(Floating, cur, <<past>>, "x")
  \/ name = "anderson_darling" /\ Cardinality(Values(cur, past)) = 1
  \/ name = "epps_singleton" /\ NoSpread(Pooled(cur, <<past>>, "x"))
  \/ Texts(cur) /\ declared = "numeric"

LEMMA ComparableWindows ==
  ASSUME NEW in, IsInput(in), NEW past, past = in.ref[1], Comparable(in.cur, past)
  PROVE  /\ IsFull(in.cur) /\ IsFull(past) /\ in.cur.n \in Nat /\ past.n \in Nat
         /\ in.ref = <<past>> /\ Alike(in.cur, past)
         /\ Texts(in.cur) <=> Texts(past)
         /\ in.cur.cols["x"].dtype \in Number <=> past.cols["x"].dtype \in Number
<1>1. /\ IsFull(in.cur) /\ IsFull(past) /\ in.cur.n \in Nat /\ past.n \in Nat
      /\ in.ref = <<past>> /\ Alike(in.cur, past)
  BY DEF IsInput, IsWindow, Comparable, IsFull, IsLong, Enough, Has
<1> QED
  BY <1>1, AlikeColumns DEF Texts

(* What is in the records of all outcomes, for one spec. *)
LEMMA DriftComputed ==
  ASSUME NEW spec, NEW cur, NEW ref, NEW s, NEW params, NEW d,
         spec.feature = "x", d = Declared(s, "x")
  PROVE  LET o == ComputeOf(spec, cur, ref, s, params) IN
         /\ spec.name = "psi" => o = Psi(cur, ref, "x", d, params)
         /\ spec.name = "wasserstein" => o = Wasserstein(cur, ref, "x", d)
         /\ spec.name = "mmd" => o = Mmd(cur, ref, "x", d)
         /\ spec.name = "ks_2samp" => o = KS2Samp(cur, ref, "x")
         /\ spec.name = "ttest" => o = TTest(cur, ref, "x")
         /\ spec.name = "mannwhitney" => o = MannWhitney(cur, ref, "x")
         /\ spec.name = "levene" => o = Levene(cur, ref, "x")
         /\ spec.name = "cramervonmises" => o = CramerVonMises(cur, ref, "x")
         /\ spec.name = "chisquare" => o = ChiSquare(cur, ref, "x")
         /\ spec.name = "gtest" => o = GTest(cur, ref, "x")
         /\ spec.name = "hellinger" => o = Hellinger(cur, ref, "x", params)
         /\ spec.name = "jensenshannon" => o = JensenShannon(cur, ref, "x", params)
         /\ spec.name = "tvd" => o = TotalVariation(cur, ref, "x", params)
         /\ spec.name = "energy_distance" => o = EnergyDistance(cur, ref, "x")
         /\ spec.name = "anderson_darling" => o = AndersonDarling(cur, ref, "x")
         /\ spec.name = "epps_singleton" => o = EppsSingleton(cur, ref, "x")
         /\ spec.name = "fisher_exact" => o = FisherExact(cur, ref, "x")
         /\ spec.name = "ztest_proportions" => o = ZTestProportions(cur, ref, "x")
<1>1. ASSUME spec.name \in DriftMetrics
      PROVE  ComputeOf(spec, cur, ref, s, params) = DriftOf(cur, ref, "x", d, s, params)[spec.name]
  BY <1>1 DEF ComputeOf
<1>2. {"psi", "wasserstein", "mmd", "ks_2samp", "ttest", "mannwhitney", "levene",
       "cramervonmises", "chisquare", "gtest", "hellinger", "jensenshannon", "tvd",
       "energy_distance", "anderson_darling", "epps_singleton", "fisher_exact",
       "ztest_proportions"} \subseteq DriftMetrics
  BY DEF DriftMetrics, DriftOfNumbers, DriftOfAny, DriftOfClasses, DriftOfBinary
<1> QED
  BY <1>1, <1>2 DEF DriftOf

LEMMA StatisticsComputed ==
  ASSUME NEW spec, NEW cur, NEW ref, NEW s, NEW params, spec.feature = "x"
  PROVE  LET o == ComputeOf(spec, cur, ref, s, params) IN
         /\ spec.name = "mean" => o = Mean(cur, "x")
         /\ spec.name = "median" => o = Median(cur, "x")
         /\ spec.name = "std" => o = Std(cur, "x")
         /\ spec.name = "skewness" => o = Skewness(cur, "x")
         /\ spec.name = "kurtosis" => o = Kurtosis(cur, "x")
         /\ spec.name = "quantile" => o = QuantileMetric(cur, "x", params)
         /\ spec.name = "sum" => o = SumMetric(cur, "x")
         /\ spec.name = "in_range_count" => o = InRangeCount(cur, "x", params)
         /\ spec.name = "out_range_count" => o = OutRangeCount(cur, "x", params)
         /\ spec.name = "count" => o = CountMetric(cur, "x")
         /\ spec.name = "unique_count" => o = UniqueCount(cur, "x")
         /\ spec.name = "in_list_count" => o = InListCount(cur, "x", params)
         /\ spec.name = "top_category" => o = TopCategory(cur, "x")
<1>1. ASSUME spec.name \notin DriftMetrics
      PROVE  ComputeOf(spec, cur, ref, s, params) = StatisticsOf(cur, "x", params)[spec.name]
  BY <1>1 DEF ComputeOf
<1>2. ASSUME spec.name \in OfNumbers \cup OfAnyColumn \cup {"top_category"}
      PROVE  spec.name \notin DriftMetrics
  BY <1>2 DEF DriftMetrics, DriftOfNumbers, DriftOfAny, DriftOfClasses, DriftOfBinary,
              OfNumbers, OfAnyColumn
<1> QED
  BY <1>1, <1>2 DEF StatisticsOf, OfNumbers, OfAnyColumn

LEMMA ValuesOfPair ==
  ASSUME NEW cur, NEW past, IsWindow(cur), IsWindow(past), past.n > 0
  PROVE  /\ Range(Pooled(cur, <<past>>, "x")) = Values(cur, past)
         /\ Cardinality(Values(cur, past)) < 2 => Cardinality(Values(cur, past)) = 1
<1> DEFINE r == Vals(past, "x")
           x == Vals(cur, "x")
<1>1. /\ r \in Seq(Int \cup {Null}) /\ x \in Seq(Int \cup {Null})
      /\ Len(r) = past.n /\ past.n \in Nat
  BY DEF IsWindow, IsColumn, Vals
<1> HIDE DEF r, x
<1>2. Range(r \o x) = Range(r) \cup Range(x)
  <2>1. DOMAIN (r \o x) = 1..(Len(r) + Len(x)) /\ DOMAIN r = 1..Len(r) /\ DOMAIN x = 1..Len(x)
    BY <1>1
  <2>2. ASSUME NEW v \in Range(r \o x) PROVE v \in Range(r) \cup Range(x)
    <3>1. PICK i \in 1..(Len(r) + Len(x)) : v = (r \o x)[i]
      BY <2>1, <2>2 DEF Range
    <3>2. CASE i <= Len(r)
      <4>1. v = r[i] /\ i \in DOMAIN r
        BY <1>1, <2>1, <3>1, <3>2
      <4> QED
        BY <4>1 DEF Range
    <3>3. CASE i > Len(r)
      <4>1. i \in Int /\ Len(r) \in Nat /\ Len(x) \in Nat
        BY <1>1, <3>1
      <4>2. i - Len(r) \in 1..Len(x)
        BY <3>1, <3>3, <4>1
      <4>3. v = x[i - Len(r)]
        BY <1>1, <3>1, <3>3
      <4> QED
        BY <2>1, <4>2, <4>3 DEF Range
    <3> QED
      BY <1>1, <3>1, <3>2, <3>3
  <2>3. ASSUME NEW i \in DOMAIN r PROVE r[i] \in Range(r \o x)
    <3>1. r[i] = (r \o x)[i] /\ i \in DOMAIN (r \o x)
      BY <1>1, <2>1
    <3> QED
      BY <3>1 DEF Range
  <2>4. ASSUME NEW i \in DOMAIN x PROVE x[i] \in Range(r \o x)
    <3>1. x[i] = (r \o x)[Len(r) + i] /\ Len(r) + i \in DOMAIN (r \o x)
      BY <1>1, <2>1
    <3> QED
      BY <3>1 DEF Range
  <2>5. Range(r) \subseteq Range(r \o x) /\ Range(x) \subseteq Range(r \o x)
    BY <2>3, <2>4 DEF Range
  <2> QED
    BY <2>2, <2>5
<1>3. Values(cur, past) = Range(x) \cup Range(r)
  BY DEF Values, x, r
<1>4. Pooled(cur, <<past>>, "x") = r \o x
  BY DEF Pooled, RefVals, FrameOf, r, x
<1>5. IsFiniteSet(Range(r)) /\ IsFiniteSet(Range(x))
  <2>1. ASSUME NEW q \in Seq(Int \cup {Null}) PROVE IsFiniteSet(Range(q))
    <3>1. IsFiniteSet(1..Len(q)) /\ DOMAIN q = 1..Len(q)
      BY FS_Interval
    <3>2. q \in Surjection(DOMAIN q, Range(q))
      BY <3>1 DEF Surjection, Range
    <3> QED
      BY <3>1, <3>2, FS_Surjection
  <2> QED
    BY <1>1, <2>1
<1>6. Range(r) # {}
  <2>1. 1 \in DOMAIN r
    BY <1>1
  <2> QED
    BY <2>1 DEF Range
<1>7. IsFiniteSet(Values(cur, past)) /\ Values(cur, past) # {}
  BY <1>3, <1>5, <1>6, FS_Union
<1>8. Cardinality(Values(cur, past)) \in Nat /\ Cardinality(Values(cur, past)) # 0
  BY <1>7, FS_CardinalityType, FS_EmptySet
<1>9. \A k \in Nat : k # 0 /\ k < 2 => k = 1
  OBVIOUS
<1>10. Range(Pooled(cur, <<past>>, "x")) = Values(cur, past)
  BY <1>2, <1>3, <1>4
<1> QED
  BY <1>8, <1>9, <1>10

LEMMA ComputeRuns ==
  ASSUME NEW in, IsInput(in), NEW past, past = in.ref[1], Comparable(in.cur, past),
         NEW spec, spec.feature = "x",
         NEW d, d = Declared(in.s, "x"),
         NEW type, type = ColumnType(in.cur.cols["x"], d),
         spec.name \in ColumnMetrics \ {"target_drift"}, type \in Accepted(spec.name),
         ~Excused(spec.name, in.cur, past, d)
  PROVE  Got(ComputeOf(spec, in.cur, in.ref, in.s, in.params))
<1> DEFINE cur == in.cur
           s == in.s
           params == in.params
<1>1. /\ IsFull(cur) /\ IsFull(past) /\ cur.n \in Nat /\ past.n \in Nat
      /\ in.ref = <<past>> /\ (Texts(cur) <=> Texts(past))
      /\ (cur.cols["x"].dtype \in Number <=> past.cols["x"].dtype \in Number)
      /\ Has(cur, "x") /\ Has(past, "x") /\ IsLong(cur) /\ IsLong(past)
  BY ComparableWindows DEF IsFull, IsLong
<1>2. d \in Declarations
  BY DeclaredOfInput
<1>3. ASSUME type # "categorical"
      PROVE  /\ ~NotCastable(cur, "x") /\ ~NotCastable(past, "x")
             /\ IsNumeric(past, "x", d)
  <2>1. \/ d = Nameless /\ cur.cols["x"].dtype \in Number
        \/ d = "numeric"
    BY <1>2, <1>3, TypeOfColumn
  <2>2. ~(Texts(cur) /\ d = "numeric")
    BY DEF Excused
  <2>3. cur.cols["x"].dtype # "str" /\ past.cols["x"].dtype # "str"
    BY <1>1, <2>1, <2>2 DEF Texts, Number
  <2> QED
    BY <1>1, <2>1, <2>3, NamesAreNames DEF NotCastable, IsType, IsNumeric
<1>4. IsNumeric(past, "x", d) => ~NotCastable(cur, "x") /\ ~NotCastable(past, "x")
  <2>1. CASE d = Nameless
    BY <1>1, <2>1 DEF IsNumeric, IsType, NotCastable, Number, Texts
  <2>2. CASE d = "categorical"
    BY <2>2, NamesAreNames DEF IsNumeric
  <2>3. CASE d = "numeric"
    BY <1>1, <2>3 DEF Excused, Texts, IsType, NotCastable
  <2> QED
    BY <1>2, <2>1, <2>2, <2>3 DEF Declarations
<1>5. CASE spec.name \in OfNumbers
  <2>1. type # "categorical"
    BY <1>5 DEF Accepted, OfNumbers, DriftOfClasses, Fairness, DriftOfBinary, OfFrame
  <2>2. ~NotCastable(cur, "x")
    BY <1>3, <2>1
  <2> QED
    BY <1>1, <1>5, <2>2, NumbersRun, StatisticsComputed DEF OfNumbers
<1>6. CASE spec.name \in OfAnyColumn \cup {"top_category"}
  BY <1>1, <1>6, CountsRun, StatisticsComputed DEF OfAnyColumn
<1>7. CASE spec.name \in DriftOfNumbers
  <2>1. type # "categorical"
    BY <1>7 DEF Accepted, DriftOfNumbers, DriftOfClasses, Fairness, DriftOfBinary, OfFrame
  <2>2. /\ ~NotCastable(cur, "x") /\ ~NotCastable(past, "x")
        /\ IsNumeric(past, "x", d)
    BY <1>3, <2>1
  <2>3. CASE spec.name = "anderson_darling"
    <3>1. ~(Cardinality(Range(Pooled(cur, <<past>>, "x"))) < 2)
      <4>1. IsWindow(cur) /\ IsWindow(past)
        BY DEF IsInput
      <4>2. past.n > 0
        BY <1>1, EnoughRows DEF IsLong
      <4> QED
        BY <2>3, <4>1, <4>2, ValuesOfPair DEF Excused
    <3> QED
      BY <1>1, <2>2, <2>3, <3>1, DriftOfFloatsRuns, DriftComputed
  <2>4. CASE spec.name = "epps_singleton"
    <3>1. ~NoSpread(Pooled(cur, <<past>>, "x"))
      BY <2>4 DEF Excused
    <3> QED
      BY <1>1, <2>2, <2>4, <3>1, DriftOfFloatsRuns, DriftComputed
  <2>5. CASE spec.name \notin {"anderson_darling", "epps_singleton"}
    BY <1>1, <1>7, <2>2, <2>5, DriftOfFloatsRuns, DriftComputed DEF DriftOfNumbers
  <2> QED
    BY <2>3, <2>4, <2>5
<1>8. CASE spec.name \in DriftOfAny
  BY <1>1, <1>4, <1>8, DriftOfValuesRuns, DriftComputed DEF DriftOfAny
<1>9. CASE spec.name \in DriftOfClasses
  <2>1. ~Floating(cur, "x") /\ ~Floating(past, "x")
    BY <1>1, <1>9 DEF Excused, Either, FrameOf
  <2> QED
    BY <1>1, <1>4, <1>9, <2>1, DriftOfValuesRuns, DriftComputed DEF DriftOfClasses
<1>10. CASE spec.name \in DriftOfBinary
  <2>1. type # "categorical"
    BY <1>10 DEF Accepted, OfNumbers, DriftOfNumbers, DriftOfClasses, Fairness, DriftOfBinary, OfFrame
  <2>2. ~NotCastable(cur, "x") /\ ~NotCastable(past, "x")
    BY <1>3, <2>1
  <2> QED
    BY <1>1, <1>4, <1>10, <2>2, DriftOfValuesRuns, DriftOfFloatsRuns, DriftComputed
    DEF DriftOfBinary
<1> QED
  BY <1>5, <1>6, <1>7, <1>8, <1>9, <1>10
  DEF ColumnMetrics, Builtin, DriftMetrics

(***************************************************************************)
(* Routing.                                                                 *)
(***************************************************************************)

LEMMA ColumnMetricsHaveNoTarget ==
  ASSUME NEW name \in ColumnMetrics, NEW s
  PROVE  name \in Builtin /\ Targets(name, s) = {}
<1>1. name \in Builtin /\ name \notin Fairness
  BY DEF ColumnMetrics
<1> QED
  BY <1>1 DEF Targets, Fairness

LEMMA AcceptedIsCalled ==
  ASSUME NEW spec, NEW cur, NEW ref, NEW s, NEW params, spec.name \in ColumnMetrics,
         ref # <<>>, TypeIn(cur, s, spec.feature, Accepted(spec.name))
  PROVE  RunOne(spec, cur, ref, s, params) = ComputeOf(spec, cur, ref, s, params)
<1>1. spec.name \in Builtin /\ Targets(spec.name, s) = {}
  BY ColumnMetricsHaveNoTarget
<1>2. Routed(spec, cur, ref, s) = <<>>
  BY <1>1, Silent, SilentBoth DEF Routed
<1> QED
  BY <1>2, NothingRaised DEF RunOne

LEMMA OthersAreRefused ==
  ASSUME NEW spec, NEW cur, NEW ref, NEW s, NEW params, spec.name \in ColumnMetrics,
         ref # <<>>, ~TypeIn(cur, s, spec.feature, Accepted(spec.name))
  PROVE  RunOne(spec, cur, ref, s, params).err = "SchemaError"
<1>1. spec.name \in Builtin /\ Targets(spec.name, s) = {}
  BY ColumnMetricsHaveNoTarget
<1>2. /\ When(spec.name \notin Builtin, "UnknownMetricError") = <<>>
      /\ When(RequiresReference(spec.name) /\ ref = <<>>, "MissingReferenceError") = <<>>
      /\ When(~TypeIn(cur, s, spec.feature, Accepted(spec.name)), "SchemaError") = <<"SchemaError">>
      /\ When(\E c \in Targets(spec.name, s) : ~TypeIn(cur, s, c, {"binary"}), "SchemaError") = <<>>
  BY <1>1 DEF When
<1>3. <<>> \o <<>> \o <<"SchemaError">> \o <<>> = <<"SchemaError">>
  OBVIOUS
<1>4. Routed(spec, cur, ref, s) = <<"SchemaError">>
  BY <1>2, <1>3 DEF Routed
<1> QED
  BY <1>4 DEF RunOne, Guarded, Err

(* target_drift looks at the label, whatever the feature. *)
LEMMA TargetDriftComputed ==
  ASSUME NEW spec, NEW cur, NEW ref, NEW s, NEW params, spec.name = "target_drift"
  PROVE  ComputeOf(spec, cur, ref, s, params) = TargetDrift(cur, ref, s, params)
<1>1. "target_drift" \in DriftMetrics
  BY DEF DriftMetrics
<1> QED
  BY <1>1 DEF ComputeOf, DriftOf

LEMMA TargetDriftIsCalled ==
  ASSUME NEW spec, NEW cur, NEW ref, NEW s, NEW params,
         spec.name = "target_drift", spec.feature = Nameless, ref # <<>>
  PROVE  RunOne(spec, cur, ref, s, params) = TargetDrift(cur, ref, s, params)
<1>1. spec.name \in ColumnMetrics
  BY DEF ColumnMetrics, Builtin, DriftMetrics, Performance, Fairness, Estimation, OfFrame
<1>2. TypeIn(cur, s, spec.feature, Accepted(spec.name))
  BY DEF TypeIn, Known
<1> QED
  BY <1>1, <1>2, AcceptedIsCalled, TargetDriftComputed

(***************************************************************************)
(* What a call leaves in out.                                               *)
(***************************************************************************)

FromInputs == \E i \in DOMAIN Inputs : input \in Inputs[i]

Measured ==
  Ran("column") =>
    \A name \in ColumnMetrics :
      out.ran[name] = RunOne([name |-> name, feature |-> FeatureFor(name)],
                             input.cur, input.ref, input.s, input.params)

Plans == {Suggest(input.train, input.s, input.ref, task, verdict) :
            task \in {"classification", "regression"}, verdict \in BOOLEAN}

Planned ==
  pc = "run" => Is("advice") /\ \E plan \in Plans : out = [plan |-> plan, ran |-> {}]

RanAsPlanned ==
  Ran("advice") =>
    \E plan \in Plans : \A r \in out.ran :
      /\ r.spec \in plan.specs /\ r.spec.name \in DriftMetrics
      /\ r.err = RunOne(r.spec, input.cur, input.ref, input.s, input.params).err

Described ==
  Ran("column") =>
    LET declared == Declared(input.s, "x") IN
    /\ out.stats = StatisticsOf(input.cur, "x", input.params)
    /\ out.raises = ProfileRaises(input.cur, "x", declared)
    /\ out.profile = IF out.raises THEN <<>> ELSE Profile(input.cur, "x", declared)

(* What Convert makes of two matrices. *)
Outcome(checks, rows) ==
  [err |-> Guarded(checks, Stat(Zero)).err,
   table |-> IF Guarded(checks, Stat(Zero)).err = "none" THEN rows ELSE <<>>]

Converted ==
  Ran("matrix") =>
    out = Outcome(R!MatrixChecks(input.lib, input.truth, input.pred),
                  R!Interactions(input.lib, input.truth, input.pred).rows)

CallInv == FromInputs /\ Measured /\ Described /\ Planned /\ RanAsPlanned /\ Converted

(* What is in out after a call is of one input, and of the advised plan: the  *)
(* input does not change, and only an advised plan is run.                    *)
LEMMA CallInvariance == Spec => []CallInv
<1>1. Init => CallInv
  BY DEF Init, CallInv, FromInputs, Measured, Described, Planned, RanAsPlanned, Converted, Ran
<1>2. CallInv /\ [Next]_vars => CallInv'
  <2> SUFFICES ASSUME CallInv, [Next]_vars PROVE CallInv'
    OBVIOUS
  <2>1. ASSUME NEW family, Call(family, "done"), family \notin {"column", "advice", "matrix"}
        PROVE  CallInv'
    BY <2>1 DEF CallInv, Call, Is, FromInputs, Measured, Described, Planned, RanAsPlanned, Converted, Ran
  <2>2. CASE Predict \/ Estimate \/ Recommend
    BY <2>1, <2>2 DEF Predict, Estimate, Recommend
  <2>3. CASE Measure
    <3>1. Is("column") /\ pc' = "done" /\ input' = input
      BY <2>3 DEF Measure, Call
    <3>2. Measured'
      BY <2>3, <3>1 DEF Measure, Measured, Ran
    <3>3. Described'
      BY <2>3, <3>1 DEF Measure, Described, Ran
    <3> QED
      BY <3>1, <3>2, <3>3 DEF CallInv, FromInputs, Planned, RanAsPlanned,
                              Converted, Ran, Is
  <2>4. CASE Advise
    <3>1. Is("advice") /\ pc' = "run" /\ input' = input
      BY <2>4 DEF Advise, Call
    <3>2. \E plan \in Plans : out' = [plan |-> plan, ran |-> {}]
      <4>1. PICK verdict \in BOOLEAN, task \in {"classification", "regression"} :
              out' = [plan |-> Suggest(input.train, input.s, input.ref, task, verdict), ran |-> {}]
        BY <2>4 DEF Advise
      <4>2. Suggest(input.train, input.s, input.ref, task, verdict) \in Plans
        BY DEF Plans
      <4> QED
        BY <4>1, <4>2
    <3>3. Plans' = Plans
      BY <3>1 DEF Plans
    <3> QED
      BY <3>1, <3>2, <3>3 DEF CallInv, FromInputs, Measured, Described, Planned, RanAsPlanned,
                              Converted, Ran, Is
  <2>5. CASE RunAdvised
    <3>1. pc = "run" /\ pc' = "done" /\ input' = input
      BY <2>5 DEF RunAdvised
    <3>2. Is("advice") /\ Plans' = Plans
      BY <3>1 DEF CallInv, Planned, Plans
    <3>3. PICK plan \in Plans : out = [plan |-> plan, ran |-> {}]
      BY <3>1 DEF CallInv, Planned
    <3>4. out'.ran = {[spec |-> spec,
                       err  |-> RunOne(spec, input.cur, input.ref, input.s, input.params).err] :
                        spec \in {spec \in plan.specs : spec.name \in DriftMetrics}}
      BY <2>5, <3>3 DEF RunAdvised
    <3>5. \A r \in out'.ran :
            /\ r.spec \in plan.specs /\ r.spec.name \in DriftMetrics
            /\ r.err = RunOne(r.spec, input.cur, input.ref, input.s, input.params).err
      BY <3>4
    <3>6. RanAsPlanned'
      BY <3>1, <3>2, <3>5 DEF RanAsPlanned
    <3> QED
      BY <3>1, <3>2, <3>6 DEF CallInv, FromInputs, Measured, Described, Planned, Converted, Ran, Is
  <2>6. CASE Convert
    <3>1. Is("matrix") /\ pc' = "done" /\ input' = input
      BY <2>6 DEF Convert, Call
    <3>2. Converted'
      BY <2>6, <3>1 DEF Convert, Converted, Outcome, Ran
    <3> QED
      BY <3>1, <3>2 DEF CallInv, FromInputs, Measured, Described, Planned, RanAsPlanned, Ran, Is
  <2>7. CASE UNCHANGED vars
    BY <2>7 DEF vars, CallInv, FromInputs, Measured, Described, Planned, Plans, RanAsPlanned, Converted, Ran, Is
  <2> QED
    BY <2>2, <2>3, <2>4, <2>5, <2>6, <2>7 DEF Next
<1> QED
  BY <1>1, <1>2, PTL DEF Spec

(* Of a measured column, by metric. *)
LEMMA MeasuredAsRouted == ASSUME CallInv PROVE RoutedMetricsRun
<1> SUFFICES ASSUME Ran("column"), Comparable(input.cur, input.ref[1])
             PROVE  LET type == ColumnType(input.cur.cols["x"], Declared(input.s, "x"))
                        Suits(name) == name = "target_drift" \/ type \in Accepted(name)
                    IN \A name \in ColumnMetrics :
                         /\ ~Suits(name) => out.ran[name].err = "SchemaError"
                         /\ Suits(name) /\ ~Got(out.ran[name]) =>
                              Excused(name, input.cur, input.ref[1], Declared(input.s, "x"))
  <2>1. Ran("column") => input.ref = <<input.ref[1]>>
    BY MetricCallsAssumption DEF CallInv, FromInputs, Ran, Is, IsInput
  <2> QED
    BY <2>1 DEF RoutedMetricsRun, Excused
<1> DEFINE cur == input.cur
           past == input.ref[1]
           s == input.s
           d == Declared(input.s, "x")
           type == ColumnType(input.cur.cols["x"], Declared(input.s, "x"))
<1>1. IsInput(input) /\ input.s.label = "x" /\ input.s.type = "tabular"
      /\ input.params.treatAs = "auto"
  BY MetricCallsAssumption DEF CallInv, FromInputs, Ran, Is, IsInput
<1>2. /\ IsFull(cur) /\ IsFull(past) /\ cur.n \in Nat /\ past.n \in Nat
      /\ input.ref = <<past>> /\ (Texts(cur) <=> Texts(past))
  BY <1>1, ComparableWindows
<1>3. SUFFICES ASSUME NEW name \in ColumnMetrics
               PROVE  /\ name # "target_drift" /\ type \notin Accepted(name)
                           => out.ran[name].err = "SchemaError"
                      /\ name = "target_drift" => Got(out.ran[name])
                      /\ name # "target_drift" /\ type \in Accepted(name)
                           /\ ~Excused(name, cur, past, d) => Got(out.ran[name])
  OBVIOUS
<1> DEFINE spec == [name |-> name, feature |-> FeatureFor(name)]
<1>4. out.ran[name] = RunOne(spec, cur, input.ref, s, input.params)
  BY DEF CallInv, Measured
<1>5. spec.name = name /\ spec.feature = FeatureFor(name)
  OBVIOUS
<1>6. input.ref # <<>>
  BY <1>2
<1> HIDE DEF spec
<1>7. CASE name = "target_drift"
  <2>1. spec.feature = Nameless
    BY <1>5, <1>7 DEF FeatureFor
  <2>2. out.ran[name] = TargetDrift(cur, input.ref, s, input.params)
    BY <1>4, <1>5, <1>6, <1>7, <2>1, TargetDriftIsCalled
  <2>3. ~Missing(cur, "x") /\ ~Missing(past, "x") /\ Has(cur, "x") /\ Has(past, "x")
        /\ cur.n >= MinRows /\ past.n >= MinRows
    BY <1>2, NothingMissing DEF IsFull, IsLong
  <2>4. Floating(past, "x") => ~NotCastable(cur, "x") /\ ~NotCastable(past, "x")
    BY <1>2, <2>3 DEF Floating, IsType, NotCastable, Texts
  <2>5. Got(TargetDrift(cur, <<past>>, s, input.params))
    BY <1>1, <1>2, <2>3, <2>4, NamesAreNames, TargetDriftRuns
  <2> QED
    BY <1>2, <1>7, <2>2, <2>5
<1>8. CASE name # "target_drift"
  <2>1. spec.feature = "x"
    BY <1>5, <1>8 DEF FeatureFor
  <2>2. TypeIn(cur, s, "x", Accepted(name)) <=> type \in Accepted(name)
    <3>1. Known(cur, "x")
      BY <1>2, NamesAreNames DEF Known, IsFull, IsLong
    <3> QED
      BY <3>1 DEF TypeIn
  <2>3. ASSUME type \notin Accepted(name) PROVE out.ran[name].err = "SchemaError"
    BY <1>4, <1>5, <1>6, <2>1, <2>2, <2>3, OthersAreRefused
  <2>4. ASSUME type \in Accepted(name), ~Excused(name, cur, past, d) PROVE Got(out.ran[name])
    <3>1. out.ran[name] = ComputeOf(spec, cur, input.ref, s, input.params)
      BY <1>4, <1>5, <1>6, <2>1, <2>2, <2>4, AcceptedIsCalled
    <3>2. spec.name \in ColumnMetrics \ {"target_drift"}
      BY <1>5, <1>8
    <3>3. Got(ComputeOf(spec, cur, input.ref, s, input.params))
      BY <1>1, <1>5, <2>1, <2>4, <3>2, ComputeRuns
    <3> QED
      BY <3>1, <3>3
  <2> QED
    BY <1>8, <2>3, <2>4
<1> QED
  BY <1>7, <1>8

(***************************************************************************)
(* A metric computes on exactly the columns of the types that it accepts,    *)
(* with the exceptions that RoutedMetricsRun names (Runner._run_one and the   *)
(* compute methods).                                                          *)
(***************************************************************************)
THEOREM RoutedSpecsRun == Spec => []RoutedMetricsRun
<1>1. CallInv => RoutedMetricsRun
  BY MeasuredAsRouted
<1> QED
  BY <1>1, CallInvariance, PTL

(***************************************************************************)
(* The specs of a plan.                                                     *)
(***************************************************************************)

NumericDrift == {"wasserstein", "psi", "ttest", "mannwhitney", "cramervonmises", "levene"}

LEMMA DriftSpecsByType ==
  ASSUME NEW a
  PROVE  DriftSpecs(a) \subseteq
           IF a.type = "categorical" THEN {"psi", "chisquare"} ELSE NumericDrift
<1> DEFINE spread == /\ a.ratio # Unbound
                     /\ Less(Frac(9, 4), a.ratio) \/ Less(a.ratio, Frac(4489, 10000))
<1> HIDE DEF spread
<1>1. CASE a.type = "categorical"
  <2>1. DriftSpecs(a) = {"psi", "chisquare"}
    BY <1>1 DEF DriftSpecs
  <2> QED
    BY <1>1, <2>1
<1>2. CASE a.type # "categorical"
  <2>1. CASE a.n < SmallN
    <3>1. a.n \in Int /\ SmallN \in Int => ~(a.n >= SmallN)
      BY <2>1
    <3> QED
      BY <1>2, <2>1, <3>1 DEF DriftSpecs, NumericDrift
  <2>2. CASE ~(a.n < SmallN)
    BY <1>2, <2>2 DEF DriftSpecs, NumericDrift
  <2> QED
    BY <2>1, <2>2
<1> QED
  BY <1>1, <1>2

LEMMA PerformanceIsNoDrift ==
  ASSUME NEW df, NEW s, NEW task
  PROVE  PerformanceSpecs(df, s, task) \cap DriftMetrics = {}
<1>1. PerformanceSpecs(df, s, task) \subseteq {"mae", "r2", "f1", "aucpr", "auc", "accuracy"}
  BY DEF PerformanceSpecs
<1> QED
  BY <1>1 DEF DriftMetrics, DriftOfNumbers, DriftOfAny, DriftOfClasses, DriftOfBinary

(* A drift spec of a plan is target_drift, or is of the column x and suits    *)
(* what it was in the training window; texts declared numeric are in no plan. *)
LEMMA SpecsOfPlan ==
  ASSUME NEW in, IsInput(in), IsWindow(in.train), in.s.label = "y",
         NEW task, NEW verdict, NEW spec,
         spec \in Suggest(in.train, in.s, in.ref, task, verdict).specs,
         spec.name \in DriftMetrics
  PROVE  \/ spec = [name |-> "target_drift", feature |-> Nameless]
         \/ /\ spec.feature = "x" /\ ~AnalysisRaises(in.train, in.s, in.ref)
            /\ "x" \in Analysed(in.train, in.s)
            /\ spec.name \in IF ColumnType(in.train.cols["x"], Declared(in.s, "x")) = "categorical"
                             THEN {"psi", "chisquare"} ELSE NumericDrift
<1> DEFINE df == in.train
           s == in.s
           ref == in.ref
           Analysis(c) == ColumnAnalysis(df, s, ref, c, verdict)
<1>1. Analysed(df, s) \subseteq {"x"}
  <2>1. FeatureCols(df, s) \subseteq {"x", "y"} \ {"y"}
    BY DEF FeatureCols, Special, IsInput, IsWindow
  <2> QED
    BY <2>1 DEF Analysed
<1>2. /\ ~AnalysisRaises(df, s, ref)
      /\ \/ \E m \in PerformanceSpecs(df, s, task) \cup {"target_drift"} :
              spec = [name |-> m, feature |-> Nameless]
         \/ \E c \in Analysed(df, s) : \E m \in DriftSpecs(Analysis(c)) :
              spec = [name |-> m, feature |-> c]
  <2> DEFINE specs == {[name |-> m, feature |-> Nameless] :
                          m \in PerformanceSpecs(df, s, task) \cup {"target_drift"}}
               \cup UNION {{[name |-> m, feature |-> c] : m \in DriftSpecs(Analysis(c))} :
                             c \in Analysed(df, s)}
  <2> DEFINE plan == Suggest(df, s, ref, task, verdict)
  <2>1. /\ plan \in {[err |-> "ValueError", specs |-> {}], [err |-> "none", specs |-> specs]}
        /\ plan = [err |-> "none", specs |-> specs] \/ plan.specs = {}
        /\ ref # <<>> /\ AnalysisRaises(df, s, ref) => plan.specs = {}
    <3> HIDE DEF specs
    <3>1. CASE ref = <<>> \/ task \notin {"classification", "regression"}
      BY <3>1 DEF Suggest
    <3>2. CASE ~(ref = <<>> \/ task \notin {"classification", "regression"})
      BY <3>2 DEF Suggest, specs
    <3> QED
      BY <3>1, <3>2
  <2>2. ref # <<>>
    BY DEF IsInput
  <2>3. ~AnalysisRaises(df, s, ref) /\ spec \in specs
    BY <2>1, <2>2
  <2> QED
    BY <2>3
<1>3. ASSUME NEW m \in PerformanceSpecs(df, s, task) \cup {"target_drift"},
             spec = [name |-> m, feature |-> Nameless]
      PROVE  spec = [name |-> "target_drift", feature |-> Nameless]
  BY <1>3, PerformanceIsNoDrift
<1>4. ASSUME NEW c \in Analysed(df, s), NEW m \in DriftSpecs(Analysis(c)),
             spec = [name |-> m, feature |-> c]
      PROVE  /\ spec.feature = "x" /\ "x" \in Analysed(df, s)
             /\ spec.name \in IF ColumnType(df.cols["x"], Declared(s, "x")) = "categorical"
                              THEN {"psi", "chisquare"} ELSE NumericDrift
  <2>1. c = "x" /\ spec.name = m /\ spec.feature = c
    BY <1>1, <1>4
  <2>2. Analysis("x").type = ColumnType(df.cols["x"], Declared(s, "x"))
    BY DEF ColumnAnalysis
  <2>3. m \in IF Analysis("x").type = "categorical" THEN {"psi", "chisquare"} ELSE NumericDrift
    BY <1>4, <2>1, DriftSpecsByType
  <2> QED
    BY <2>1, <2>2, <2>3
<1> QED
  BY <1>2, <1>3, <1>4

(* The windows of AdvisedPlanRuns. *)
RunLater(in) ==
  /\ IsInput(in) /\ IsWindow(in.train)
  /\ Enough(in.cur) /\ Enough(in.ref[1]) /\ NoNulls(in.ref[1])
  /\ Alike(in.train, in.cur) /\ Alike(in.cur, in.ref[1])

LEMMA LaterWindows ==
  ASSUME NEW in, RunLater(in), NEW past, past = in.ref[1]
  PROVE  /\ IsLong(in.cur) /\ IsFull(past) /\ IsLong(past) /\ in.cur.n \in Nat /\ past.n \in Nat
         /\ in.ref = <<past>> /\ Has(in.cur, "x") /\ Has(past, "x")
         /\ Texts(in.cur) <=> Texts(past)
         /\ in.train.cols["x"].dtype \in Number <=> in.cur.cols["x"].dtype \in Number
         /\ in.cur.cols["x"].dtype \in Number <=> past.cols["x"].dtype \in Number
         /\ NoNulls(in.cur) => Comparable(in.cur, past)
<1>1. /\ IsLong(in.cur) /\ IsFull(past) /\ IsLong(past) /\ in.cur.n \in Nat /\ past.n \in Nat
      /\ in.ref = <<past>> /\ Has(in.cur, "x") /\ Has(past, "x")
      /\ NoNulls(in.cur) => Comparable(in.cur, past)
  BY DEF RunLater, IsInput, IsWindow, Comparable, IsFull, IsLong, Enough, Has
<1> QED
  BY <1>1, AlikeColumns DEF Texts, RunLater

(* Texts declared numeric are not analysed: the full reference has some.      *)
LEMMA NoTextsDeclaredNumeric ==
  ASSUME NEW in, RunLater(in), NEW past, past = in.ref[1], Texts(in.cur),
         Declared(in.s, "x") = "numeric", "x" \in Analysed(in.train, in.s)
  PROVE  AnalysisRaises(in.train, in.s, in.ref)
<1>1. /\ IsFull(past) /\ past.n \in Nat /\ in.ref = <<past>>
      /\ past.cols["x"].dtype = "str" /\ Has(past, "x")
  BY LaterWindows DEF Texts
<1>2. Present(Vals(past, "x")) # {}
  <2> DEFINE vals == Vals(past, "x")
  <2>1. vals \in Seq(Int \cup {Null}) /\ Len(vals) = past.n
    BY DEF RunLater, IsInput, IsWindow, IsColumn, Vals
  <2>2. past.n > 0
    BY <1>1, EnoughRows DEF IsFull, IsLong
  <2> HIDE DEF vals
  <2>3. 1 \in DOMAIN vals
    BY <1>1, <2>1, <2>2
  <2>4. Null \notin Range(vals)
    BY <1>1 DEF IsFull, NoNulls, HasNull, vals
  <2>5. vals[1] \in Range(vals)
    BY <2>3 DEF Range
  <2>6. vals[1] \in Present(vals)
    BY <2>4, <2>5 DEF Present
  <2> QED
    BY <2>6 DEF vals
<1>3. NotCastable(FrameOf(in.ref), "x")
  BY <1>1, <1>2 DEF NotCastable, IsType, FrameOf
<1>4. ColumnType(in.train.cols["x"], Declared(in.s, "x")) # "categorical"
  BY NamesAreNames DEF ColumnType
<1> QED
  BY <1>3, <1>4 DEF AnalysisRaises

(* A plan has four tests of numbers that take floats with missing values:    *)
(* the value is NaN.                                                          *)
LEMMA NumericTestsRun ==
  ASSUME NEW in, RunLater(in), NEW spec, spec.feature = "x",
         spec.name \in NumericDrift \ {"psi"},
         NEW d, d = Declared(in.s, "x"), ~(Texts(in.cur) /\ d = "numeric"),
         ColumnType(in.cur.cols["x"], d) # "categorical"
  PROVE  Got(ComputeOf(spec, in.cur, in.ref, in.s, in.params))
<1> DEFINE cur == in.cur
           past == in.ref[1]
<1>1. /\ IsLong(cur) /\ IsLong(past) /\ cur.n \in Nat /\ past.n \in Nat /\ in.ref = <<past>>
      /\ (Texts(cur) <=> Texts(past)) /\ Has(cur, "x") /\ Has(past, "x")
      /\ cur.cols["x"].dtype \in Number => past.cols["x"].dtype \in Number
  BY LaterWindows
<1>2. d \in Declarations
  BY DeclaredOfInput DEF RunLater
<1>3. (d = Nameless /\ cur.cols["x"].dtype \in Number) \/ d = "numeric"
  BY <1>2, TypeOfColumn
<1>4. cur.cols["x"].dtype # "str" /\ past.cols["x"].dtype # "str"
  BY <1>1, <1>3 DEF Texts, Number
<1>5. ~NotCastable(cur, "x") /\ ~NotCastable(past, "x") /\ IsNumeric(past, "x", d)
  BY <1>1, <1>3, <1>4, NamesAreNames DEF NotCastable, IsType, IsNumeric
<1> QED
  BY <1>1, <1>5, DriftOfFloatsRuns, DriftComputed DEF NumericDrift

(* Of a plan that was run, by spec. *)
LEMMA PlannedIsRoutable == ASSUME CallInv PROVE AdvisedPlanRuns
<1> DEFINE Unfit(r) ==
             \/ r.spec.name \in {"psi", "chisquare"} /\ Missing(input.cur, "x")
             \/ /\ r.spec.name = "chisquare" /\ Declared(input.s, "x") = "categorical"
                /\ Either(Floating, input.cur, input.ref, "x")
<1> SUFFICES ASSUME Ran("advice"), Enough(input.cur), Enough(input.ref[1]), NoNulls(input.ref[1]),
                    Alike(input.train, input.cur), Alike(input.cur, input.ref[1]),
                    NEW r \in out.ran, r.err # "none"
             PROVE  Unfit(r)
  BY DEF AdvisedPlanRuns
<1> DEFINE cur == input.cur
           train == input.train
           past == input.ref[1]
           s == input.s
           params == input.params
           spec == r.spec
           d == Declared(input.s, "x")
           type == ColumnType(input.cur.cols["x"], Declared(input.s, "x"))
<1>1. /\ IsInput(input) /\ IsWindow(train) /\ s.label = "y"
      /\ cur.cols["y"].dtype = "int" /\ past.cols["y"].dtype = "int"
      /\ s.type = "tabular" /\ params.treatAs = "auto" /\ IsWindow(cur) /\ IsWindow(past)
  BY MetricCallsAssumption DEF CallInv, FromInputs, Ran, Is, IsInput
<1>2. RunLater(input)
  BY <1>1 DEF RunLater
<1>3. /\ IsLong(cur) /\ IsFull(past) /\ cur.n \in Nat /\ past.n \in Nat
       /\ input.ref = <<past>> /\ (NoNulls(cur) => Comparable(cur, past))
       /\ (train.cols["x"].dtype \in Number <=> cur.cols["x"].dtype \in Number)
       /\ Has(cur, "x") /\ IsLong(past)
  BY <1>2, LaterWindows
<1>4. PICK task \in {"classification", "regression"}, verdict \in BOOLEAN :
        /\ spec \in Suggest(train, s, input.ref, task, verdict).specs
        /\ spec.name \in DriftMetrics
        /\ r.err = RunOne(spec, cur, input.ref, s, params).err
  <2>1. PICK plan \in Plans :
          /\ r.spec \in plan.specs /\ r.spec.name \in DriftMetrics
          /\ r.err = RunOne(r.spec, input.cur, input.ref, input.s, input.params).err
    BY DEF CallInv, RanAsPlanned
  <2> QED
    BY <2>1 DEF Plans
<1>5. d \in Declarations
  BY <1>1, DeclaredOfInput
<1>6. \/ spec = [name |-> "target_drift", feature |-> Nameless]
      \/ /\ spec.feature = "x" /\ ~AnalysisRaises(train, s, input.ref)
         /\ "x" \in Analysed(train, s)
         /\ spec.name \in IF ColumnType(train.cols["x"], d) = "categorical"
                          THEN {"psi", "chisquare"} ELSE NumericDrift
  BY <1>1, <1>4, SpecsOfPlan
<1>7. input.ref # <<>> /\ ~Got(RunOne(spec, cur, input.ref, s, params))
  BY <1>4, <1>3 DEF Got
<1> HIDE DEF Unfit
<1>8. CASE spec = [name |-> "target_drift", feature |-> Nameless]
  <2>1. ~Missing(cur, "y") /\ ~Missing(past, "y") /\ Has(cur, "y") /\ Has(past, "y")
    BY <1>1 DEF IsWindow, IsColumn, Missing, HasNull, Has, Vals
  <2>2. ~Floating(past, "y")
    BY <1>1 DEF Floating, IsType
  <2>3. Got(TargetDrift(cur, <<past>>, s, params))
    <3>1. cur.n >= MinRows /\ past.n >= MinRows /\ s.label # Nameless
      BY <1>1, <1>3, NamesAreNames DEF IsLong
    <3> QED
      BY <1>1, <1>3, <2>1, <2>2, <3>1, TargetDriftRuns
  <2>4. RunOne(spec, cur, input.ref, s, params) = TargetDrift(cur, input.ref, s, params)
    BY <1>7, <1>8, TargetDriftIsCalled
  <2> QED
    BY <1>7, <1>3, <2>3, <2>4
<1>9. CASE /\ spec.feature = "x" /\ ~AnalysisRaises(train, s, input.ref)
           /\ "x" \in Analysed(train, s)
           /\ spec.name \in IF ColumnType(train.cols["x"], d) = "categorical"
                            THEN {"psi", "chisquare"} ELSE NumericDrift
  <2>1. spec.name \in IF type = "categorical" THEN {"psi", "chisquare"} ELSE NumericDrift
    BY <1>5, <1>9, <1>3, TypesAgree
  <2>2. type \in Accepted(spec.name)
    <3>1. type \in {"numeric", "categorical", "binary"}
      BY <1>5, TypeOfColumn
    <3>2. CASE type = "categorical"
      BY <2>1, <3>2 DEF Accepted, AllTypes, OfNumbers, DriftOfNumbers, DriftOfClasses, Fairness,
                        DriftOfBinary, OfFrame
    <3>3. CASE type # "categorical"
      BY <2>1, <3>1, <3>3 DEF Accepted, AllTypes, OfNumbers, DriftOfNumbers, DriftOfClasses,
                              Fairness, DriftOfBinary, OfFrame, NumericDrift
    <3> QED
      BY <3>2, <3>3
  <2>3. spec.name \in ColumnMetrics \ {"target_drift"}
    <3>1. spec.name \in NumericDrift \cup {"chisquare"}
      BY <2>1 DEF NumericDrift
    <3> QED
      BY <3>1 DEF NumericDrift, ColumnMetrics, Builtin, DriftMetrics, DriftOfNumbers, DriftOfAny,
                  DriftOfClasses, Performance, Fairness, Estimation, OfFrame
  <2>4. RunOne(spec, cur, input.ref, s, params) = ComputeOf(spec, cur, input.ref, s, params)
    <3>1. TypeIn(cur, s, spec.feature, Accepted(spec.name))
      BY <1>9, <2>2 DEF TypeIn
    <3> QED
      BY <1>7, <2>3, <3>1, AcceptedIsCalled
  <2>5. ~(Texts(cur) /\ d = "numeric")
    BY <1>2, <1>9, NoTextsDeclaredNumeric
  <2>6. CASE NoNulls(cur)
    <3>1. Excused(spec.name, cur, past, d)
      BY <1>1, <1>7, <1>9, <1>3, <2>2, <2>3, <2>4, <2>6, ComputeRuns
    <3>2. spec.name \notin {"anderson_darling", "epps_singleton"}
      BY <2>1 DEF NumericDrift
    <3>3. spec.name \in DriftOfClasses /\ Either(Floating, cur, <<past>>, "x")
      BY <2>5, <3>1, <3>2 DEF Excused
    <3>4. spec.name = "chisquare" /\ type = "categorical"
      BY <2>1, <3>3 DEF DriftOfClasses, NumericDrift
    <3>5. cur.cols["x"].dtype \in Number
      <4>1. cur.cols["x"].dtype = "float" \/ past.cols["x"].dtype = "float"
        BY <3>3 DEF Either, FrameOf, Floating, IsType
      <4>2. cur.cols["x"].dtype \in Number <=> past.cols["x"].dtype \in Number
        BY <1>2, LaterWindows
      <4> QED
        BY <4>1, <4>2 DEF Number
    <3>6. d = "categorical"
      BY <1>5, <3>4, <3>5, TypeOfColumn
    <3> QED
      BY <1>3, <3>3, <3>4, <3>6 DEF Unfit
  <2>7. CASE ~NoNulls(cur)
    <3>1. Missing(cur, "x")
      BY <1>3, <2>7 DEF NoNulls, Missing
    <3>2. spec.name \notin NumericDrift \ {"psi"}
      <4>1. ASSUME spec.name \in NumericDrift \ {"psi"} PROVE type # "categorical"
        BY <2>1, <4>1 DEF NumericDrift
      <4> QED
        BY <1>2, <1>7, <1>9, <2>4, <2>5, <4>1, NumericTestsRun
    <3>3. spec.name \in {"psi", "chisquare"}
      BY <2>1, <3>2
    <3> QED
      BY <3>1, <3>3 DEF Unfit
  <2> QED
    BY <2>6, <2>7
<1> QED
  BY <1>6, <1>8, <1>9

(***************************************************************************)
(* An advised plan runs on a later window, with or without missing values     *)
(* and whether or not its integers turned to floats (MetricAdvisor,            *)
(* Runner._run_one), with the two exceptions that AdvisedPlanRuns names.        *)
(***************************************************************************)
THEOREM AdvisedPlansRun == Spec => []AdvisedPlanRuns
<1>1. CallInv => AdvisedPlanRuns
  BY PlannedIsRoutable
<1> QED
  BY <1>1, CallInvariance, PTL

(***************************************************************************)
(* The profile and the statistics of a column.                              *)
(***************************************************************************)

LEMMA ColumnIsExtracted ==
  ASSUME NEW df, IsWindow(df), NEW asFloat, NEW minRows, ~(df.n < minRows),
         asFloat => ~NotCastable(df, "x")
  PROVE  Extraction(df, "x", asFloat, minRows) = <<>>
<1>1. Has(df, "x")
  BY DEF IsWindow, Has
<1> QED
  BY <1>1, NamesAreNames, Silent, SilentBoth DEF Extraction

LEMMA ColumnIsNot ==
  ASSUME NEW df, IsWindow(df), NotCastable(df, "x")
  PROVE  Extraction(df, "x", TRUE, 0) = <<"ValueError">>
<1>1. Has(df, "x") /\ ~(df.n < 0)
  BY DEF IsWindow, Has
<1>2. /\ When("x" = Nameless, "SchemaError") = <<>> /\ When(~Has(df, "x"), "SchemaError") = <<>>
      /\ When(TRUE /\ NotCastable(df, "x"), "ValueError") = <<"ValueError">>
      /\ When(df.n < 0, "InsufficientDataError") = <<>>
  BY <1>1, NamesAreNames DEF When
<1>3. <<>> \o <<>> \o <<"ValueError">> \o <<>> = <<"ValueError">>
  OBVIOUS
<1> QED
  BY <1>2, <1>3 DEF Extraction

LEMMA Refused ==
  ASSUME NEW raised, NEW e, raised = <<e>>, e # "none", NEW o
  PROVE  ~Got(Guarded(raised, o))
<1>1. Guarded(raised, o) = Err(e)
  BY DEF Guarded
<1> QED
  BY <1>1 DEF Err, Got

(* Every value is in the range, out of it, or missing. *)
LEMMA RangesCount ==
  ASSUME NEW df, IsWindow(df), NEW params, {params.low, params.high} \subseteq Int,
         Got(InRangeCount(df, "x", params))
  PROVE  LET in    == InRangeCount(df, "x", params)
             off   == OutRangeCount(df, "x", params)
             count == CountMetric(df, "x")
         IN /\ Got(off) /\ Got(count)
            /\ in.value[2] + off.value[2] + CountOf(Vals(df, "x"), Null) = count.value[2]
<1> DEFINE vals == Vals(df, "x")
           D == DOMAIN vals
           A == {i \in D : vals[i] # Null /\ vals[i] >= params.low /\ vals[i] <= params.high}
           B == {i \in D : vals[i] # Null /\ (vals[i] < params.low \/ vals[i] > params.high)}
           C == {i \in D : vals[i] = Null}
<1>1. ~NotCastable(df, "x")
  <2>1. InRangeCount(df, "x", params) = Guarded(Extraction(df, "x", TRUE, 0), Stat(Whole(Cardinality(A))))
    BY DEF InRangeCount, CountWhere
  <2> HIDE DEF A
  <2> QED
    BY <2>1, ColumnIsNot, Refused
<1>2. Extraction(df, "x", TRUE, 0) = <<>> /\ Extraction(df, "x", FALSE, 0) = <<>>
  <2>1. ~(df.n < 0)
    BY DEF IsWindow
  <2> QED
    BY <1>1, <2>1, ColumnIsExtracted
<1>3. /\ InRangeCount(df, "x", params) = Stat(Whole(Cardinality(A)))
      /\ OutRangeCount(df, "x", params) = Stat(Whole(Cardinality(B)))
  BY <1>2 DEF InRangeCount, OutRangeCount, CountWhere, Guarded
<1>4. CountMetric(df, "x") = Stat(Whole(Cardinality(D)))
  <2>1. CountMetric(df, "x") = Stat(Whole(Cardinality({i \in D : TRUE})))
    BY <1>2 DEF CountMetric, CountWhere, Guarded
  <2>2. {i \in D : TRUE} = D
    OBVIOUS
  <2> QED
    BY <2>1, <2>2
<1>5. vals \in Seq(Int \cup {Null})
  BY DEF IsWindow, IsColumn, Vals
<1>6. IsFiniteSet(D) /\ \A i \in D : vals[i] \in Int \/ vals[i] = Null
  <2>1. D = 1..Len(vals) /\ Len(vals) \in Int /\ 1 \in Int
    BY <1>5
  <2> QED
    BY <1>5, <2>1, FS_Interval
<1>7. A \cup B \cup C = D /\ A \cap B = {} /\ (A \cup B) \cap C = {}
  BY <1>6
<1>8. C = {i \in DOMAIN Vals(df, "x") : Vals(df, "x")[i] = Null}
  OBVIOUS
<1>9. A \subseteq D /\ B \subseteq D /\ C \subseteq D
  OBVIOUS
<1> HIDE DEF A, B, C, D
<1>10. /\ IsFiniteSet(A) /\ IsFiniteSet(B) /\ IsFiniteSet(C)
       /\ Cardinality(A) \in Nat /\ Cardinality(B) \in Nat /\ Cardinality(C) \in Nat
  BY <1>6, <1>9, FS_Subset, FS_CardinalityType
<1>11. Cardinality(D) = Cardinality(A) + Cardinality(B) + Cardinality(C)
  <2>1. \A S, T : IsFiniteSet(S) /\ IsFiniteSet(T) /\ S \cap T = {} =>
          /\ IsFiniteSet(S \cup T)
          /\ Cardinality(S \cup T) = Cardinality(S) + Cardinality(T)
    <3> SUFFICES ASSUME NEW S, NEW T, IsFiniteSet(S), IsFiniteSet(T), S \cap T = {}
                 PROVE  /\ IsFiniteSet(S \cup T)
                        /\ Cardinality(S \cup T) = Cardinality(S) + Cardinality(T)
      OBVIOUS
    <3>1. Cardinality(S) \in Nat /\ Cardinality(T) \in Nat /\ Cardinality({}) = 0
      BY FS_CardinalityType, FS_EmptySet
    <3>2. /\ IsFiniteSet(S \cup T)
          /\ Cardinality(S \cup T) = Cardinality(S) + Cardinality(T) - Cardinality(S \cap T)
      BY FS_Union
    <3>3. Cardinality(S \cap T) = 0
      BY <3>1
    <3> QED
      BY <3>1, <3>2, <3>3
  <2>2. IsFiniteSet(A \cup B) /\ Cardinality(A \cup B) = Cardinality(A) + Cardinality(B)
    BY <1>7, <1>10, <2>1
  <2>3. Cardinality((A \cup B) \cup C) = Cardinality(A \cup B) + Cardinality(C)
    BY <1>7, <1>10, <2>1, <2>2
  <2> QED
    BY <1>7, <2>2, <2>3
<1>12. \A k : Got(Stat(Whole(k))) /\ Stat(Whole(k)).value[2] = k
  BY DEF Got, Stat, Whole
<1>13. CountOf(Vals(df, "x"), Null) = Cardinality(C)
  BY <1>8 DEF CountOf
<1> QED
  BY <1>3, <1>4, <1>11, <1>12, <1>13

(* A frame with one label per value has as many rows, duplicates left out,   *)
(* as its column has values.                                                  *)
LEMMA UniqueRows ==
  ASSUME NEW df, IsWindow(df), OneLabelPerValue(df), Got(UniqueCount(df, "x"))
  PROVE  UniqueCount(df, "x").value[2] + DuplicateRows(df).value[2] = RowCount(df).value[2]
<1> DEFINE vals == Vals(df, "x")
           V == Range(vals)
           W == RowsOf(df)
           n == df.n
           f == [r \in W |-> r["x"]]
<1>1. UniqueCount(df, "x") = Stat(Whole(Cardinality(V)))
  <2>1. ~(df.n < 0)
    BY DEF IsWindow
  <2>2. Extraction(df, "x", FALSE, 0) = <<>>
    BY <2>1, ColumnIsExtracted
  <2>3. CASE Unsortable(df, "x")
    <3>1. Extraction(df, "x", FALSE, 0) \o When(Unsortable(df, "x"), "TypeError") = <<"TypeError">>
      <4>1. When(Unsortable(df, "x"), "TypeError") = <<"TypeError">>
        BY <2>3 DEF When
      <4>2. <<>> \o <<"TypeError">> = <<"TypeError">>
        OBVIOUS
      <4> QED
        BY <2>2, <4>1, <4>2
    <3> QED
      BY <3>1, Refused DEF UniqueCount
  <2>4. CASE ~Unsortable(df, "x")
    BY <2>2, <2>4, Silent, SilentBoth DEF UniqueCount, Guarded
  <2> QED
    BY <2>3, <2>4
<1>2. /\ n \in Nat /\ DOMAIN vals = 1..n /\ DOMAIN df.cols = {"x", "y"}
      /\ V = {vals[i] : i \in 1..n}
  BY DEF IsWindow, IsColumn, Vals, Range
<1>3. W = {[c \in {"x", "y"} |-> Vals(df, c)[i]] : i \in 1..n}
  BY <1>2 DEF RowsOf
<1>4. \A r \in W : \E i \in 1..n : /\ r = [c \in {"x", "y"} |-> Vals(df, c)[i]]
                                   /\ r["x"] = vals[i] /\ r["y"] = Vals(df, "y")[i]
  BY <1>3
<1>5. \A i \in 1..n : \E r \in W : r["x"] = vals[i]
  <2> SUFFICES ASSUME NEW i \in 1..n PROVE \E r \in W : r["x"] = vals[i]
    OBVIOUS
  <2> DEFINE r == [c \in {"x", "y"} |-> Vals(df, c)[i]]
  <2>1. r \in W
    BY <1>3
  <2>2. r["x"] = vals[i]
    OBVIOUS
  <2> QED
    BY <2>1, <2>2
<1> HIDE DEF W, V, vals
<1>6. f \in Bijection(W, V)
  <2>1. \A r \in W : f[r] \in V
    BY <1>2, <1>4
  <2>2. \A v \in V : \E r \in W : f[r] = v
    BY <1>2, <1>5
  <2>3. \A r, q \in W : f[r] = f[q] => r = q
    <3> SUFFICES ASSUME NEW r \in W, NEW q \in W, r["x"] = q["x"] PROVE r = q
      OBVIOUS
    <3>1. PICK i \in 1..n : /\ r = [c \in {"x", "y"} |-> Vals(df, c)[i]]
                            /\ r["x"] = vals[i] /\ r["y"] = Vals(df, "y")[i]
      BY <1>4
    <3>2. PICK j \in 1..n : /\ q = [c \in {"x", "y"} |-> Vals(df, c)[j]]
                            /\ q["x"] = vals[j] /\ q["y"] = Vals(df, "y")[j]
      BY <1>4
    <3>3. Vals(df, "x")[i] = Vals(df, "x")[j]
      BY <3>1, <3>2 DEF vals
    <3>4. Vals(df, "y")[i] = Vals(df, "y")[j]
      BY <3>3 DEF OneLabelPerValue
    <3>5. \A c \in {"x", "y"} : Vals(df, c)[i] = Vals(df, c)[j]
      BY <3>3, <3>4
    <3> QED
      BY <3>1, <3>2, <3>5
  <2> HIDE DEF f
  <2> QED
    BY <2>1, <2>2, <2>3, Fun_IsBij DEF f
<1>7. IsFiniteSet(V)
  <2> DEFINE g == [i \in 1..n |-> vals[i]]
  <2>1. g \in Surjection(1..n, V)
    BY <1>2, Fun_IsSurj
  <2>2. IsFiniteSet(1..n)
    BY <1>2, FS_Interval
  <2> QED
    BY <2>1, <2>2, FS_Surjection
<1>8. Cardinality(W) = Cardinality(V) /\ Cardinality(V) \in Nat
  <2>1. ExistsBijection(V, W)
    <3>1. ExistsBijection(W, V)
      BY <1>6 DEF ExistsBijection
    <3> QED
      BY <3>1, Fun_ExistsBijSymmetric
  <2> QED
    BY <1>7, <2>1, FS_Bijection, FS_CardinalityType
<1>9. DuplicateRows(df) = Stat(Whole(n - Cardinality(W))) /\ RowCount(df) = Stat(Whole(n))
  BY DEF DuplicateRows, RowCount, W
<1>10. \A k : Stat(Whole(k)).value[2] = k
  BY DEF Stat, Whole
<1> HIDE DEF n
<1> QED
  BY <1>1, <1>2, <1>8, <1>9, <1>10

(* Without missing values the profile and the metrics compute on one list.   *)
LEMMA ProfileOfFull ==
  ASSUME NEW df, IsWindow(df), NEW params, NEW declared, Vals(df, "x") # <<>>, NoNulls(df),
         NEW pr, pr = Profile(df, "x", declared)
  PROVE  LET vals == Vals(df, "x") IN
         /\ "p50" \in DOMAIN pr /\ ~Texts(df) =>
              /\ pr.p50 = Median(df, "x").value /\ pr.mean = Mean(df, "x").value
              /\ params.q = Frac(1, 2) => pr.p50 = QuantileMetric(df, "x", params).value
              /\ pr.std # Unbound => pr.std = Std(df, "x").value
         /\ "n_unique" \in DOMAIN pr =>
              pr.n_unique = UniqueCount(df, "x").value /\ pr.top_category = TopCategory(df, "x").value
<1> DEFINE vals == Vals(df, "x")
<1>1. vals \in Seq(Int \cup {Null}) /\ Len(vals) = df.n /\ df.n \in Nat
  BY DEF IsWindow, IsColumn, Vals
<1>2. ~HasNull(vals) /\ \A i \in DOMAIN vals : vals[i] # Null
  BY DEF NoNulls, HasNull, Range
<1>3. Floats(df, "x") = vals
  <2>1. {i \in DOMAIN vals : vals[i] # Null} = DOMAIN vals
    BY <1>2
  <2> HIDE DEF vals
  <2>2. Picked(vals, DOMAIN vals) = vals
    BY <1>1, PickedAll
  <2> QED
    BY <2>1, <2>2 DEF Floats, NonNull, vals
<1>4. ~(df.n < 1) /\ ~(df.n < 0)
  BY <1>1
<1>5. /\ Extraction(df, "x", FALSE, 0) = <<>> /\ Extraction(df, "x", FALSE, 1) = <<>>
      /\ When(Unsortable(df, "x"), "TypeError") = <<>>
  BY <1>2, <1>4, ColumnIsExtracted, Silent DEF Unsortable
<1>6. UniqueCount(df, "x").value = Whole(Cardinality(Range(vals)))
      /\ TopCategory(df, "x").value = Category(MostFrequent(vals))
  BY <1>5, SilentBoth DEF UniqueCount, TopCategory, Guarded, Stat
<1>7. ASSUME ~Texts(df)
      PROVE  /\ Median(df, "x").value = Quantile(vals, Frac(1, 2))
             /\ Mean(df, "x").value = Average(vals) /\ Std(df, "x").value = Variance(vals)
             /\ QuantileMetric(df, "x", params).value = Quantile(vals, params.q)
  <2>1. When(NotCastable(df, "x"), "ValueError") = <<>>
    BY <1>7, Silent DEF NotCastable, IsType, Texts
  <2> QED
    BY <1>2, <1>5, <2>1, SilentBoth
       DEF Median, MedianOf, Mean, Std, QuantileMetric, OnFloats, Guarded, Stat
<1>8. CASE ColumnType(df.cols["x"], declared) = "categorical"
  <2>1. /\ "p50" \notin DOMAIN pr
        /\ "n_unique" \in DOMAIN pr => /\ pr.n_unique = Whole(Cardinality(Range(vals)))
                                      /\ pr.top_category = Category(MostFrequent(vals))
    BY <1>3, <1>8 DEF Profile, IfAny
  <2> QED
    BY <1>6, <2>1
<1>9. CASE ColumnType(df.cols["x"], declared) # "categorical"
  <2>1. /\ "n_unique" \notin DOMAIN pr
        /\ pr.p50 = Quantile(vals, Frac(1, 2)) /\ pr.mean = Average(vals)
        /\ pr.std # Unbound => pr.std = Variance(vals)
    BY <1>3, <1>9 DEF Profile, IfAny
  <2> QED
    BY <1>7, <2>1
<1> QED
  BY <1>8, <1>9

(* Whatever the window, the profile and the statistics of a column agree.    *)
THEOREM ProfilesAgree == Spec => []ProfileAgrees
<1>1. CallInv => ProfileAgrees
  <2> SUFFICES ASSUME CallInv, Ran("column") PROVE ProfileAgrees
    BY DEF ProfileAgrees
  <2> DEFINE df == input.cur
             params == input.params
             declared == Declared(input.s, "x")
  <2>1. IsInput(input)
    BY MetricCallsAssumption DEF MetricCallsAssumption, CallInv, FromInputs, Ran, Is
  <2>2. IsWindow(df) /\ {params.low, params.high} \subseteq Int
    BY <2>1 DEF IsInput
  <2>3. /\ out.stats = StatisticsOf(df, "x", params)
        /\ ~out.raises => out.profile = Profile(df, "x", declared)
    BY DEF CallInv, Described
  <2>4. /\ out.stats.in_range_count = InRangeCount(df, "x", params)
        /\ out.stats.out_range_count = OutRangeCount(df, "x", params)
        /\ out.stats.count = CountMetric(df, "x")
        /\ out.stats.unique_count = UniqueCount(df, "x")
        /\ out.stats.top_category = TopCategory(df, "x")
        /\ out.stats.median = Median(df, "x") /\ out.stats.mean = Mean(df, "x")
        /\ out.stats.std = Std(df, "x") /\ out.stats.quantile = QuantileMetric(df, "x", params)
        /\ out.stats.duplicate_rows = DuplicateRows(df) /\ out.stats.row_count = RowCount(df)
    BY <2>3 DEF StatisticsOf
  <2> HIDE DEF df, params, declared
  <2>5. Got(InRangeCount(df, "x", params)) =>
          /\ Got(OutRangeCount(df, "x", params)) /\ Got(CountMetric(df, "x"))
          /\ InRangeCount(df, "x", params).value[2] + OutRangeCount(df, "x", params).value[2]
               + CountOf(Vals(df, "x"), Null) = CountMetric(df, "x").value[2]
    BY <2>2, RangesCount
  <2>6. Got(UniqueCount(df, "x")) /\ OneLabelPerValue(df) =>
          UniqueCount(df, "x").value[2] + DuplicateRows(df).value[2] = RowCount(df).value[2]
    BY <2>2, UniqueRows
  <2>7. ASSUME ~out.raises, Vals(df, "x") # <<>>, NoNulls(df)
        PROVE  LET pr == out.profile IN
               /\ "p50" \in DOMAIN pr /\ ~Texts(df) =>
                    /\ pr.p50 = Median(df, "x").value /\ pr.mean = Mean(df, "x").value
                    /\ params.q = Frac(1, 2) => pr.p50 = QuantileMetric(df, "x", params).value
                    /\ pr.std # Unbound => pr.std = Std(df, "x").value
               /\ "n_unique" \in DOMAIN pr => /\ pr.n_unique = UniqueCount(df, "x").value
                                             /\ pr.top_category = TopCategory(df, "x").value
    BY <2>2, <2>3, <2>7, ProfileOfFull
  <2> QED
    BY <2>4, <2>5, <2>6, <2>7 DEF ProfileAgrees, df, params
<1> QED
  BY <1>1, CallInvariance, PTL

(***************************************************************************)
(* The table made of matrices.                                              *)
(***************************************************************************)

CellOf(m, i, j) == [user |-> m.users[i], item |-> m.items[j], cell |-> m.cells[i][j]]
MatrixCells(m) == {CellOf(m, i, j) : i \in DOMAIN m.users, j \in DOMAIN m.items}
ColumnsOf(m) == [j \in DOMAIN m.items |-> [i \in DOMAIN m.users |-> CellOf(m, i, j)]]

(* The x-th row of the melted matrix is the cell of the i-th user and the   *)
(* j-th item.                                                                *)
IsCell(m, x, i, j) ==
  /\ i \in DOMAIN m.users /\ j \in DOMAIN m.items
  /\ x = (j - 1) * Len(m.users) + i /\ R!Melted(m, m.users)[x] = CellOf(m, i, j)

(* A matrix is melted column after column: every row is one of its cells,   *)
(* and the rows of a user come in the order of the items.                     *)
LEMMA MeltedCells ==
  ASSUME NEW m, IsMatrix(m)
  PROVE  LET left == R!Melted(m, m.users) IN
         /\ left \in Seq(MatrixCells(m)) /\ Len(left) = Len(m.users) * Len(m.items)
         /\ \A x \in DOMAIN left : \E i, j : IsCell(m, x, i, j)
         /\ \A i \in DOMAIN m.users, j \in DOMAIN m.items :
              IsCell(m, (j - 1) * Len(m.users) + i, i, j)
         /\ \A x, y, i, j, k, l : IsCell(m, x, i, j) /\ IsCell(m, y, k, l) /\ x < y =>
              j < l \/ (j = l /\ i < k)
<1> DEFINE qs == ColumnsOf(m)
           S  == MatrixCells(m)
           c  == Len(m.users)
           left == R!Melted(m, m.users)
<1>1. /\ m.users \in Seq(Range(m.users)) /\ m.items \in Seq(Range(m.items))
      /\ c \in Nat /\ DOMAIN m.users = 1..c
      /\ Len(m.items) \in Nat /\ DOMAIN m.items = 1..Len(m.items)
  BY DEF IsMatrix
<1>2. \A j \in DOMAIN m.items : [i \in DOMAIN m.users |-> CellOf(m, i, j)] \in Seq(S)
  <2> SUFFICES ASSUME NEW j \in DOMAIN m.items
               PROVE  [i \in 1..c |-> CellOf(m, i, j)] \in Seq(S)
    BY <1>1
  <2>1. \A i \in 1..c : CellOf(m, i, j) \in S
    BY <1>1 DEF MatrixCells
  <2> HIDE DEF S
  <2> QED
    BY <1>1, <2>1
<1>3. /\ qs \in Seq(Seq(S)) /\ Len(qs) = Len(m.items)
      /\ \A j \in 1..Len(qs) : /\ qs[j] = [i \in DOMAIN m.users |-> CellOf(m, i, j)]
                               /\ qs[j] \in Seq(S) /\ Len(qs[j]) = c
  <2> HIDE DEF S
  <2>1. qs = [j \in 1..Len(m.items) |-> [i \in DOMAIN m.users |-> CellOf(m, i, j)]]
    BY <1>1 DEF ColumnsOf
  <2>2. qs \in Seq(Seq(S)) /\ Len(qs) = Len(m.items)
    <3> DEFINE n == Len(m.items)
               T == Seq(S)
    <3>1. DOMAIN qs = 1..n /\ qs = [j \in 1..n |-> qs[j]] /\ n \in Nat
      BY <1>1, <2>1
    <3>2. \A j \in 1..n : qs[j] = [i \in DOMAIN m.users |-> CellOf(m, i, j)]
      BY <2>1
    <3>3. \A j \in 1..n : [i \in DOMAIN m.users |-> CellOf(m, i, j)] \in T
      BY <1>1, <1>2
    <3> HIDE DEF n, T, qs
    <3>4. \A j \in 1..n : qs[j] \in T
      BY <3>2, <3>3
    <3>5. qs \in Seq(T) /\ Len(qs) = n
      BY <3>1, <3>4
    <3> QED
      BY <3>5 DEF n, T
  <2>3. \A j \in 1..Len(m.items) : Len([i \in DOMAIN m.users |-> CellOf(m, i, j)]) = c
    BY <1>1
  <2> QED
    BY <1>1, <1>2, <2>1, <2>2, <2>3
<1>4. left = FlattenSeq(qs)
  BY DEF R!Melted, R!FlattenSeq, FlattenSeq, ColumnsOf, CellOf
<1> HIDE DEF S, qs, left
<1>5. left = Concat(qs)
  BY <1>3, <1>4, FlattenIsConcat
<1>6. Len(qs) \in Nat /\ \A j \in 1..Len(qs) : qs[j] \in Seq(S)
  BY <1>1, <1>3
<1>7. Evenly(qs, c) /\ Len(left) = Len(qs) * c
  <2>1. c \in Nat /\ \A k \in 1..Len(qs) : qs[k] \in Seq(S) /\ Len(qs[k]) = c
    BY <1>1, <1>3
  <2> HIDE DEF c
  <2>2. Evenly(qs, c) /\ Len(Concat(qs)) = Len(qs) * c
    BY <1>6, <2>1, JoinedEvenly
  <2> QED
    BY <1>5, <2>2
<1>8. left \in Seq(S)
  <2>1. Len(qs) \in 0..Len(qs)
    BY <1>6
  <2> QED
    BY <1>5, <1>6, <2>1, JoinedFacts DEF Concat
<1>9. /\ \A x \in 1..Len(left) : \E j, i : IsAt(qs, x, j, i)
      /\ \A j \in 1..Len(qs) : \A i \in 1..Len(qs[j]) : \E x \in 1..Len(left) : IsAt(qs, x, j, i)
      /\ \A x, y, j, k, i, l : IsAt(qs, x, j, i) /\ IsAt(qs, y, k, l) /\ x < y =>
           j < k \/ (j = k /\ i < l)
  BY <1>5, <1>6, JoinedPlaces
<1>10. \A x, i, j : IsAt(qs, x, j, i) <=> IsCell(m, x, i, j)
  <2> SUFFICES ASSUME NEW x, NEW i, NEW j, j \in 1..Len(qs), i \in 1..c
               PROVE  IsAt(qs, x, j, i) <=> IsCell(m, x, i, j)
    <3>1. \A x, i, j : IsAt(qs, x, j, i) => j \in 1..Len(qs) /\ i \in 1..c
      <4> SUFFICES ASSUME NEW x, NEW i, NEW j, IsAt(qs, x, j, i)
                   PROVE  j \in 1..Len(qs) /\ i \in 1..c
        OBVIOUS
      <4>1. j \in 1..Len(qs) /\ i \in 1..Len(qs[j])
        BY DEF IsAt
      <4> QED
        BY <1>3, <4>1
    <3>2. \A x, i, j : IsCell(m, x, i, j) => j \in 1..Len(qs) /\ i \in 1..c
      BY <1>1, <1>3 DEF IsCell
    <3> HIDE DEF c
    <3> QED
      BY <3>1, <3>2
  <2>1. j - 1 \in 0..Len(qs)
    BY <1>6
  <2>2. Len(Joined(qs)[j - 1]) = (j - 1) * c
    BY <1>7, <2>1 DEF Evenly
  <2>3. qs[j][i] = CellOf(m, i, j)
    BY <1>1, <1>3
  <2> QED
    BY <1>1, <1>3, <1>5, <2>2, <2>3 DEF IsAt, IsCell, left
<1>11. DOMAIN left = 1..Len(left) /\ Len(left) = c * Len(m.items)
  <2>1. c \in Int /\ Len(m.items) \in Int /\ Len(left) = Len(m.items) * c
    BY <1>1, <1>3, <1>7
  <2>2. \A a, b \in Int : a * b = b * a
    OBVIOUS
  <2> HIDE DEF c
  <2> QED
    BY <1>8, <2>1, <2>2
<1>12. \A x \in DOMAIN left : \E i, j : IsCell(m, x, i, j)
  <2> SUFFICES ASSUME NEW x \in DOMAIN left PROVE \E i, j : IsCell(m, x, i, j)
    OBVIOUS
  <2>1. PICK j, i : IsAt(qs, x, j, i)
    BY <1>9, <1>11
  <2> QED
    BY <1>10, <2>1
<1>13. \A x, y, i, j, k, l : IsCell(m, x, i, j) /\ IsCell(m, y, k, l) /\ x < y =>
         j < l \/ (j = l /\ i < k)
  <2> SUFFICES ASSUME NEW x, NEW y, NEW i, NEW j, NEW k, NEW l,
                      IsCell(m, x, i, j), IsCell(m, y, k, l), x < y
               PROVE  j < l \/ (j = l /\ i < k)
    OBVIOUS
  <2>1. IsAt(qs, x, j, i) /\ IsAt(qs, y, l, k)
    BY <1>10
  <2> QED
    BY <1>9, <2>1
<1>14. \A i \in DOMAIN m.users, j \in DOMAIN m.items : IsCell(m, (j - 1) * c + i, i, j)
  <2> SUFFICES ASSUME NEW i \in 1..c, NEW j \in 1..Len(qs)
               PROVE  IsCell(m, (j - 1) * c + i, i, j)
    BY <1>1, <1>3
  <2>1. i \in 1..Len(qs[j])
    BY <1>3
  <2>2. PICK x \in 1..Len(left) : IsAt(qs, x, j, i)
    BY <1>9, <2>1
  <2>3. IsCell(m, x, i, j)
    BY <1>10, <2>2
  <2> QED
    BY <2>3 DEF IsCell
<1> QED
  BY <1>8, <1>11, <1>12, <1>13, <1>14 DEF left, S

LEMMA PickedOne ==
  ASSUME NEW S, NEW q \in Seq(S), NEW x \in DOMAIN q
  PROVE  Picked(q, {x}) = <<q[x]>>
<1> DEFINE f == [k \in 1..1 |-> x]
           p == <<q[x]>>
<1>1. p \in Seq(S) /\ Len(p) = 1 /\ p[1] = q[x]
  OBVIOUS
<1>2. GoesThrough(f, 1, {x}) /\ \A k \in 1..1 : f[k] = x
  BY DEF GoesThrough
<1> HIDE DEF f, p
<1>3. \A k \in 1..Len(p) : p[k] = q[f[k]]
  BY <1>1, <1>2
<1> QED
  BY <1>1, <1>2, <1>3, PickedIs DEF p

(* A row of the table. *)
RowOf(left, score) ==
  [user |-> left.user, item |-> left.item, rel |-> left.cell, score |-> score, feat |-> 0]

(* The second matrix, under the users of the first. *)
Relabelled(truth, pred) == [users |-> truth.users, items |-> pred.items, cells |-> pred.cells]

LEMMA RelabelledMatrix ==
  ASSUME NEW truth, NEW pred, IsMatrix(truth), IsMatrix(pred), Len(pred.users) = Len(truth.users)
  PROVE  /\ IsMatrix(Relabelled(truth, pred))
         /\ \A i, j : CellOf(Relabelled(truth, pred), i, j).cell = pred.cells[i][j]
         /\ R!Melted(pred, truth.users) = R!Melted(Relabelled(truth, pred), truth.users)
<1> DEFINE m == Relabelled(truth, pred)
<1>1. m.users = truth.users /\ m.items = pred.items /\ m.cells = pred.cells
  BY DEF Relabelled
<1> HIDE DEF m
<1>2. DOMAIN truth.users = DOMAIN pred.users
  BY DEF IsMatrix
<1>3. IsMatrix(m)
  BY <1>1, <1>2 DEF IsMatrix
<1>4. \A i, j : CellOf(m, i, j).cell = pred.cells[i][j]
  BY <1>1 DEF CellOf
<1>5. R!Melted(pred, truth.users) = R!Melted(m, truth.users)
  BY <1>1 DEF R!Melted
<1> QED
  BY <1>3, <1>4, <1>5 DEF m

(* Matrices of the same items, with distinct labels, are joined place by place *)
(* (with pandas their users are the same too).                                 *)
LEMMA JoinedCells ==
  ASSUME NEW lib, NEW truth, NEW second, IsMatrix(truth), IsMatrix(second),
         Len(second.users) = Len(truth.users), second.items = truth.items,
         lib = "pandas" => second.users = truth.users,
         IsInjective(truth.users), IsInjective(truth.items),
         NEW pred, pred = Relabelled(truth, second)
  PROVE  LET left  == R!Melted(truth, truth.users)
             right == R!Melted(pred, pred.users)
             table == R!Joined(lib, truth, second)
         IN /\ DOMAIN table = 1..Len(left) /\ Len(table) = Len(left)
            /\ \A x \in DOMAIN left : table[x] = RowOf(left[x], right[x].cell)
            /\ \A x, i, j : IsCell(truth, x, i, j) => IsCell(pred, x, i, j)
<1>0. IsMatrix(pred) /\ pred.users = truth.users /\ pred.items = truth.items
  BY RelabelledMatrix DEF Relabelled
<1> DEFINE left  == R!Melted(truth, truth.users)
           right == R!Melted(pred, pred.users)
           Matches(x) == {y \in DOMAIN right : right[y].user = left[x].user
                                            /\ right[y].item = left[x].item}
           Rows(x) == LET hits == Picked(right, Matches(x))
                      IN [n \in DOMAIN hits |-> RowOf(left[x], hits[n].cell)]
           row(x) == RowOf(left[x], right[x].cell)
           T == {row(x) : x \in DOMAIN left}
           qs == [x \in DOMAIN left |-> <<row(x)>>]
           n == Len(left)
<1>1. /\ left \in Seq(MatrixCells(truth)) /\ Len(left) = Len(truth.users) * Len(truth.items)
      /\ \A x \in DOMAIN left : \E i, j : IsCell(truth, x, i, j)
  BY MeltedCells
<1>2. /\ right \in Seq(MatrixCells(pred)) /\ Len(right) = Len(truth.users) * Len(truth.items)
      /\ \A x \in DOMAIN right : \E i, j : IsCell(pred, x, i, j)
      /\ \A i \in DOMAIN truth.users, j \in DOMAIN truth.items :
           IsCell(pred, (j - 1) * Len(truth.users) + i, i, j)
  BY <1>0, MeltedCells
<1>3. n \in Nat /\ DOMAIN left = 1..n /\ DOMAIN right = 1..n
  <2> HIDE DEF left, right
  <2>1. left \in Seq(MatrixCells(truth)) /\ right \in Seq(MatrixCells(pred))
    BY <1>1, <1>2, Zenon
  <2>2. Len(right) = Len(left)
    BY <1>1, <1>2, Zenon
  <2> QED
    BY <2>1, <2>2
<1>4. \A x, i, j : IsCell(truth, x, i, j) => IsCell(pred, x, i, j)
  BY <1>0, <1>2 DEF IsCell
<1>5. \A x, i, j : IsCell(truth, x, i, j) =>
        left[x].user = truth.users[i] /\ left[x].item = truth.items[j]
  BY DEF IsCell, CellOf
<1>6. \A x, i, j : IsCell(pred, x, i, j) =>
        /\ right[x].user = truth.users[i] /\ right[x].item = truth.items[j]
        /\ i \in DOMAIN truth.users /\ j \in DOMAIN truth.items
        /\ x = (j - 1) * Len(truth.users) + i
  BY <1>0 DEF IsCell, CellOf
<1> HIDE DEF left, right, n
<1>7. \A x \in 1..n : Matches(x) = {x}
  <2> SUFFICES ASSUME NEW x \in 1..n PROVE Matches(x) = {x}
    OBVIOUS
  <2>1. PICK i, j : IsCell(truth, x, i, j)
    BY <1>1, <1>3
  <2>2. IsCell(pred, x, i, j)
    BY <1>4, <2>1
  <2>3. x \in Matches(x)
    BY <1>3, <1>5, <1>6, <2>1, <2>2
  <2>4. ASSUME NEW y \in Matches(x) PROVE y = x
    <3>1. PICK k, l : IsCell(pred, y, k, l)
      BY <1>2
    <3>2. truth.users[k] = truth.users[i] /\ truth.items[l] = truth.items[j]
      BY <1>5, <1>6, <2>1, <3>1
    <3>3. k = i /\ l = j
      BY <1>6, <2>2, <3>1, <3>2 DEF IsInjective
    <3> QED
      BY <1>6, <2>2, <3>1, <3>3
  <2> QED
    BY <2>3, <2>4
<1>8. \A x \in 1..n : Rows(x) = <<row(x)>>
  <2> SUFFICES ASSUME NEW x \in 1..n PROVE Rows(x) = <<row(x)>>
    OBVIOUS
  <2>1. Picked(right, Matches(x)) = <<right[x]>>
    BY <1>2, <1>3, <1>7, PickedOne
  <2> QED
    BY <2>1
<1>9. R!Joined(lib, truth, second) = FlattenSeq([x \in DOMAIN left |-> Rows(x)])
  <2>1. R!PredLong(lib, truth, second) = right
    BY <1>0, RelabelledMatrix DEF R!PredLong, right
  <2>2. \A q, P : R!Picked(q, P) = Picked(q, P)
    <3>1. \A P : R!Cardinality(P) = Cardinality(P)
      BY Zenon DEF R!Cardinality, Cardinality
    <3>2. \A P : R!InOrder(P) = InOrder(P)
      BY Zenon DEF R!InOrder, InOrder, R!Cardinality, Cardinality
    <3> QED
      BY <3>1, <3>2 DEF R!Picked, Picked
  <2>3. \A q : R!FlattenSeq(q) = FlattenSeq(q)
    BY DEF R!FlattenSeq, FlattenSeq
  <2> DEFINE long == R!PredLong(lib, truth, second)
  <2>4. R!Joined(lib, truth, second) =
          R!FlattenSeq([x \in DOMAIN left |->
            LET hits == R!Picked(long, {y \in DOMAIN long : long[y].user = left[x].user
                                                            /\ long[y].item = left[x].item})
            IN [h \in DOMAIN hits |-> RowOf(left[x], hits[h].cell)]])
    BY DEF R!Joined, R!Merged, RowOf, left
  <2>5. long = right
    BY <2>1
  <2> HIDE DEF long
  <2> QED
    BY <2>2, <2>3, <2>4, <2>5
<1>10. R!Joined(lib, truth, second) = FlattenSeq(qs)
  <2>1. [x \in DOMAIN left |-> Rows(x)] = qs
    BY <1>3, <1>8
  <2> QED
    BY <1>9, <2>1
<1>11. Len(qs) = n /\ \A x \in 1..n : row(x) \in T /\ qs[x] = <<row(x)>>
  BY <1>3
<1>12. qs \in Seq(Seq(T)) /\ \A x \in 1..n : qs[x] \in Seq(T) /\ Len(qs[x]) = 1
  <2> DEFINE U == Seq(T)
  <2>1. \A r \in T : <<r>> \in U /\ Len(<<r>>) = 1
    <3> HIDE DEF T
    <3> QED
      OBVIOUS
  <2>2. \A x \in 1..n : qs[x] \in U /\ Len(qs[x]) = 1
    <3> HIDE DEF T, row, U, qs
    <3> QED
      BY <1>11, <2>1
  <2>3. qs = [x \in 1..n |-> qs[x]]
    BY <1>3
  <2> HIDE DEF T, U, qs
  <2>4. qs \in Seq(U)
    BY <1>3, <2>2, <2>3
  <2> QED
    BY <2>2, <2>4 DEF U
<1> HIDE DEF T, qs
<1>13. R!Joined(lib, truth, second) = Concat(qs)
  BY <1>10, <1>12, FlattenIsConcat
<1>14. Evenly(qs, 1) /\ Len(Concat(qs)) = n
  <2>1. Len(qs) \in Nat /\ 1 \in Nat /\ \A k \in 1..Len(qs) : qs[k] \in Seq(T) /\ Len(qs[k]) = 1
    BY <1>3, <1>11, <1>12
  <2>2. Evenly(qs, 1) /\ Len(Concat(qs)) = Len(qs) * 1
    BY <2>1, JoinedEvenly
  <2> QED
    BY <1>3, <1>11, <2>2
<1>15. ASSUME NEW x \in 1..n PROVE Concat(qs)[x] = row(x)
  <2>1. PICK j, i : IsAt(qs, x, j, i)
    BY <1>3, <1>11, <1>12, <1>14, JoinedPlaces
  <2>2. j \in 1..n /\ i \in 1..1 /\ x = Len(Joined(qs)[j - 1]) + i /\ Concat(qs)[x] = qs[j][i]
    BY <1>11, <1>12, <2>1 DEF IsAt
  <2>3. Len(Joined(qs)[j - 1]) = j - 1
    BY <1>3, <1>11, <1>14, <2>2 DEF Evenly
  <2>4. x = j /\ i = 1
    BY <1>3, <2>2, <2>3
  <2> QED
    BY <1>11, <2>2, <2>4
<1>16. DOMAIN Concat(qs) = 1..n
  <2>1. Len(qs) \in 0..Len(qs)
    BY <1>3, <1>11
  <2>2. Concat(qs) \in Seq(T)
    BY <1>3, <1>11, <1>12, <2>1, JoinedFacts DEF Concat
  <2> QED
    BY <1>14, <2>2
<1> QED
  BY <1>3, <1>4, <1>13, <1>14, <1>15, <1>16 DEF left, right, n

(* Two matrices are only joined when they have the same shape and items, and *)
(* with pandas the same users.                                                *)
LEMMA AcceptedMatrices ==
  ASSUME NEW lib, NEW truth, NEW pred, pred # <<>>,
         Guarded(R!MatrixChecks(lib, truth, pred), Stat(Zero)).err = "none"
  PROVE  /\ Len(pred[1].users) = Len(truth.users) /\ truth.items = pred[1].items
         /\ lib = "pandas" => truth.users = pred[1].users
<1> DEFINE E == {"SchemaError"}
           a == R!When(R!Shape(truth) # R!Shape(pred[1]), "SchemaError")
           b == R!When(truth.items # pred[1].items, "SchemaError")
           c == R!When(lib = "pandas" /\ truth.users # pred[1].users, "SchemaError")
           checks == R!MatrixChecks(lib, truth, pred)
<1>1. a \in Seq(E) /\ b \in Seq(E) /\ c \in Seq(E)
  <2>1. <<"SchemaError">> \in Seq(E) /\ <<>> \in Seq(E)
    OBVIOUS
  <2> HIDE DEF E
  <2> QED
    BY <2>1, Zenon DEF R!When
<1>2. /\ R!Shape(truth) # R!Shape(pred[1]) => a # <<>>
      /\ truth.items # pred[1].items => b # <<>>
      /\ lib = "pandas" /\ truth.users # pred[1].users => c # <<>>
  BY DEF R!When
<1>3. checks = a \o b \o c
  BY DEF R!MatrixChecks
<1> HIDE DEF a, b, c, checks
<1>4. checks \in Seq(E) /\ (a # <<>> \/ b # <<>> \/ c # <<>> => checks # <<>>)
  BY <1>1, <1>3
<1>5. checks # <<>> => Head(checks) = "SchemaError"
  BY <1>4
<1>6. checks = <<>>
  BY <1>5 DEF Guarded, Err, checks
<1> QED
  BY <1>2, <1>4, <1>6 DEF R!Shape

(* Whatever the matrices, the table has each pair of a user and an item once, *)
(* in the order of the items.                                                 *)
THEOREM InteractionsAreExact == Spec => []InteractionsExact
<1>1. CallInv => InteractionsExact
  <2> DEFINE truth == input.truth
             users == truth.users
             items == truth.items
             table == out.table
             left  == R!Melted(truth, users)
             pred  == Relabelled(truth, input.pred[1])
             right == R!Melted(pred, pred.users)
  <2> SUFFICES ASSUME CallInv, Ran("matrix"), out.err = "none",
                      IsInjective(users), IsInjective(items)
               PROVE  /\ input.pred # <<>> =>
                           /\ input.pred[1].items = items
                           /\ input.lib = "pandas" => input.pred[1].users = users
                      /\ Len(table) = Len(users) * Len(items)
                      /\ \A m \in DOMAIN table :
                           \E i \in DOMAIN users, j \in DOMAIN items : IsRowOf(table[m], i, j)
                      /\ \A m, n \in DOMAIN table : m < n /\ table[m].user = table[n].user =>
                           \E j, k \in DOMAIN items :
                             j < k /\ table[m].item = items[j] /\ table[n].item = items[k]
    BY DEF InteractionsExact
  <2>1. IsMatrix(truth) /\ (input.pred # <<>> => IsMatrix(input.pred[1]))
    BY MetricCallsAssumption DEF MetricCallsAssumption, CallInv, FromInputs, Ran, Is
  <2>2. /\ Guarded(R!MatrixChecks(input.lib, truth, input.pred), Stat(Zero)).err = "none"
        /\ table = R!Interactions(input.lib, truth, input.pred).rows
    BY DEF CallInv, Converted, Outcome
  <2>3. input.pred # <<>> => /\ input.pred[1].items = items
                             /\ Len(input.pred[1].users) = Len(users)
                             /\ input.lib = "pandas" => input.pred[1].users = users
    BY <2>2, AcceptedMatrices
  <2>4. /\ left \in Seq(MatrixCells(truth)) /\ Len(left) = Len(users) * Len(items)
        /\ \A x \in DOMAIN left : \E i, j : IsCell(truth, x, i, j)
        /\ \A x, y, i, j, k, l : IsCell(truth, x, i, j) /\ IsCell(truth, y, k, l) /\ x < y =>
             j < l \/ (j = l /\ i < k)
    BY <2>1, MeltedCells
  <2>5. DOMAIN left = 1..Len(left)
    <3>1. left \in Seq(MatrixCells(truth))
      BY <2>4, Zenon
    <3> HIDE DEF left
    <3> QED
      BY <3>1
  <2>6. /\ DOMAIN table = DOMAIN left /\ Len(table) = Len(left)
        /\ \A x \in DOMAIN left : \E score : table[x] = RowOf(left[x], score)
        /\ \A x \in DOMAIN left : input.pred # <<>> => table[x].score = right[x].cell
    <3>1. CASE input.pred = <<>>
      <4>1. table = R!Unscored(truth)
        BY <2>2, <3>1 DEF R!Interactions
      <4>2. table = [x \in DOMAIN left |-> RowOf(left[x], 0)]
        BY <4>1 DEF R!Unscored, RowOf
      <4>3. left \in Seq(MatrixCells(truth))
        BY <2>4, Zenon
      <4> HIDE DEF left, table
      <4>4. Len(table) = Len(left) /\ DOMAIN table = DOMAIN left
        BY <2>5, <4>2, <4>3
      <4>5. \A x \in DOMAIN left : table[x] = RowOf(left[x], 0)
        BY <4>2
      <4> QED
        BY <3>1, <4>4, <4>5
    <3>2. CASE input.pred # <<>>
      <4>1. table = R!Joined(input.lib, truth, input.pred[1])
        BY <2>2, <3>2 DEF R!Interactions
      <4>2. /\ DOMAIN table = 1..Len(left) /\ Len(table) = Len(left)
            /\ \A x \in DOMAIN left : table[x] = RowOf(left[x], right[x].cell)
        BY <2>1, <2>3, <3>2, <4>1, JoinedCells
      <4> HIDE DEF left, right, table
      <4>3. \A l, score : RowOf(l, score).score = score
        BY DEF RowOf
      <4>4. \A x \in DOMAIN left : table[x].score = right[x].cell
        <5> SUFFICES ASSUME NEW x \in DOMAIN left PROVE table[x].score = right[x].cell
          OBVIOUS
        <5>1. table[x] = RowOf(left[x], right[x].cell)
          BY <4>2
        <5> QED
          BY <4>3, <5>1
      <4> QED
        BY <2>5, <4>2, <4>4
    <3> QED
      BY <3>1, <3>2
  <2>7. ASSUME input.pred # <<>>
        PROVE  \A x, i, j : IsCell(truth, x, i, j) => IsCell(pred, x, i, j)
    <3> DEFINE second == input.pred[1]
    <3>1. /\ IsMatrix(truth) /\ IsMatrix(second) /\ Len(second.users) = Len(truth.users)
          /\ second.items = truth.items /\ pred = Relabelled(truth, second)
          /\ input.lib = "pandas" => second.users = truth.users
          /\ IsInjective(truth.users) /\ IsInjective(truth.items)
      BY <2>1, <2>3, <2>7
    <3> HIDE DEF left, right, table, pred, second, truth
    <3> QED
      BY <3>1, JoinedCells, Zenon
  <2>8. ASSUME NEW x, NEW i, NEW j, x \in DOMAIN left, IsCell(truth, x, i, j)
        PROVE  i \in DOMAIN users /\ j \in DOMAIN items /\ IsRowOf(table[x], i, j)
    <3>1. i \in DOMAIN users /\ j \in DOMAIN items /\ left[x] = CellOf(truth, i, j)
      BY <2>8 DEF IsCell
    <3>2. PICK score : table[x] = RowOf(left[x], score)
      BY <2>6, <2>8
    <3>3. /\ table[x].user = users[i] /\ table[x].item = items[j]
          /\ table[x].rel = truth.cells[i][j]
      <4> HIDE DEF left, table
      <4> QED
        BY <3>1, <3>2 DEF RowOf, CellOf
    <3>4. input.pred # <<>> => table[x].score = input.pred[1].cells[i][j]
      <4> SUFFICES ASSUME input.pred # <<>> PROVE table[x].score = input.pred[1].cells[i][j]
        OBVIOUS
      <4>1. IsCell(pred, x, i, j) /\ table[x].score = right[x].cell
        BY <2>6, <2>7, <2>8
      <4>2. right[x] = CellOf(pred, i, j)
        BY <4>1 DEF IsCell
      <4>3. CellOf(pred, i, j).cell = input.pred[1].cells[i][j]
        BY <2>1, <2>3, RelabelledMatrix
      <4> HIDE DEF right, table, pred
      <4> QED
        BY <4>1, <4>2, <4>3
    <3> QED
      BY <3>1, <3>3, <3>4 DEF IsRowOf
  <2> HIDE DEF left, right, table
  <2>9. Len(table) = Len(users) * Len(items)
    BY <2>4, <2>6, Zenon
  <2>10. \A m \in DOMAIN table :
           \E i \in DOMAIN users, j \in DOMAIN items : IsRowOf(table[m], i, j)
    <3> SUFFICES ASSUME NEW m \in DOMAIN left
                 PROVE  \E i \in DOMAIN users, j \in DOMAIN items : IsRowOf(table[m], i, j)
      BY <2>6
    <3>1. PICK i, j : IsCell(truth, m, i, j)
      BY <2>4
    <3> QED
      BY <2>8, <3>1
  <2>11. ASSUME NEW m \in DOMAIN table, NEW n \in DOMAIN table, m < n, table[m].user = table[n].user
         PROVE  \E j, k \in DOMAIN items :
                  j < k /\ table[m].item = items[j] /\ table[n].item = items[k]
    <3>1. m \in DOMAIN left /\ n \in DOMAIN left
      BY <2>6
    <3>2. PICK i, j : IsCell(truth, m, i, j)
      BY <2>4, <3>1
    <3>3. PICK k, l : IsCell(truth, n, k, l)
      BY <2>4, <3>1
    <3>4. /\ i \in DOMAIN users /\ j \in DOMAIN items /\ k \in DOMAIN users /\ l \in DOMAIN items
          /\ table[m].user = users[i] /\ table[m].item = items[j]
          /\ table[n].user = users[k] /\ table[n].item = items[l]
      BY <2>8, <3>1, <3>2, <3>3 DEF IsRowOf
    <3>5. i = k
      BY <2>11, <3>4 DEF IsInjective
    <3>6. j < l \/ i < k
      BY <2>4, <2>11, <3>2, <3>3
    <3>7. j < l
      <4>1. i \in Int
        BY <2>1, <3>4 DEF IsMatrix
      <4> QED
        BY <3>5, <3>6, <4>1
    <3> QED
      BY <3>4, <3>7
  <2> QED
    BY <2>3, <2>9, <2>10, <2>11
<1> QED
  BY <1>1, CallInvariance, PTL
=============================================================================
