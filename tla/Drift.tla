------------------------------- MODULE Drift -------------------------------
(***************************************************************************)
(* Drift metrics and two-sample tests of a column, current window against    *)
(* reference (ayn_ml/metrics/tabular/drift.py, tests.py).                    *)
(*                                                                          *)
(* Exact: the shares of the bins and of the categories, and the distances    *)
(* and effect sizes that are fractions.  Those that are square roots are     *)
(* given by their square (energy distance, Cramer's V, z, Cohen's d with its *)
(* sign); sums of logarithms, roots or exponentials of shares by whether     *)
(* they are zero; p-values by PValue.                                        *)
(***************************************************************************)
EXTENDS Frames

(* The two extractions, the reference's first. *)
PairChecks(cur, ref, c, asFloat) ==
  ReferenceCheck(ref) \o Extraction(FrameOf(ref), c, asFloat, MinRows)
                      \o Extraction(cur, c, asFloat, MinRows)

Either(P(_, _), cur, ref, c) == P(cur, c) \/ P(FrameOf(ref), c)

Missing(df, c)   == Has(df, c) /\ HasNull(Vals(df, c))
Floating(df, c)  == IsType(df, c, {"float"})

RefVals(ref, c) == Vals(FrameOf(ref), c)
Pooled(cur, ref, c) == RefVals(ref, c) \o Vals(cur, c)

----------------------------------------------------------------------------
(* Histograms and shares. *)

(* np.histogram() with n bins of equal width from lo to hi, the last closed; *)
(* around a single value, n bins over one unit.                               *)
Bin(v, lo, hi, n) ==
  IF lo = hi THEN n \div 2
  ELSE LET k == ((v - lo) * n) \div (hi - lo) IN IF k = n THEN n - 1 ELSE k

(* The class of each value: its bin over both windows, or the value itself.  *)
(* NaN equals no category.                                                    *)
ClassOf(values, numeric, n) ==
  LET seen == Present(values) IN
  [v \in seen |-> IF numeric THEN Bin(v, Min(seen), Max(seen), n) ELSE v]

(* Share of each class in a window. *)
Shares(vals, all, class) ==
  [k \in Range(class) |->
     Frac(Cardinality({i \in DOMAIN vals : vals[i] # Null /\ class[vals[i]] = k}),
          Len(vals))]

SharesOf(cur, ref, c, numeric, n) ==
  LET all   == Pooled(cur, ref, c)
      class == ClassOf(all, numeric, n)
  IN [ref |-> Shares(RefVals(ref, c), all, class), cur |-> Shares(Vals(cur, c), all, class)]

(* Zero if and only if the shares are equal; so are PSI, whose terms        *)
(* (q - p) ln(q / p) are all positive and whose eps is below any share, and   *)
(* the Hellinger and Jensen-Shannon distances.                                *)
Divergence(shares) == IF shares.ref = shares.cur THEN Zero ELSE Positive

----------------------------------------------------------------------------
(* drift.py *)

(* What _psi_core() cannot handle: texts or NaN in bins, None among texts.   *)
PsiChecks(cur, ref, c, numeric) ==
  IF numeric
  THEN When(Either(NotCastable, cur, ref, c), "ValueError")
       \o When(Either(Missing, cur, ref, c), "ValueError")
  ELSE When(Either(Unsortable, cur, ref, c), "TypeError")

PsiCore(cur, ref, c, numeric, params) ==
  Guarded(PsiChecks(cur, ref, c, numeric),
          Result(Divergence(SharesOf(cur, ref, c, numeric, params.nBins)), Unbound))

Psi(cur, ref, c, declared, params) ==
  Guarded(PairChecks(cur, ref, c, FALSE),
          PsiCore(cur, ref, c, IsNumeric(FrameOf(ref), c, declared), params))

(* The reference decides whether the column is numeric. *)
NumericChecks(cur, ref, c, declared) ==
  PairChecks(cur, ref, c, FALSE)
    \o When(~IsNumeric(FrameOf(ref), c, declared), "SchemaError")
    \o When(Either(NotCastable, cur, ref, c), "ValueError")

(* A metric on floats is NaN as soon as one value of either window is. *)
OrNaN(cur, ref, c, outcome) ==
  IF Either(Missing, cur, ref, c) THEN Result(NotANumber, NotANumber) ELSE outcome

(* Cumulated share at v; the values are integers, so the distances between  *)
(* distributions are sums over the integers between the extremes.             *)
CumShare(vals, v) == Frac(Cardinality({i \in DOMAIN vals : vals[i] <= v}), Len(vals))

CumGap(cur, ref, c, v) ==
  Minus(CumShare(RefVals(ref, c), v), CumShare(Vals(cur, c), v))

Span(cur, ref, c) ==
  LET all == Range(Pooled(cur, ref, c)) IN [i \in 1..(Max(all) - Min(all) + 1) |-> Min(all) + i - 1]

(* Mutant of Wasserstein: the signed gaps cancel out. *)
WassersteinSigned(cur, ref, c, declared) ==
  LET Gap(v) == CumGap(cur, ref, c, v)
      span   == Span(cur, ref, c)
  IN Guarded(NumericChecks(cur, ref, c, declared),
             OrNaN(cur, ref, c,
                   Result(AbsF(SumF([i \in DOMAIN span |-> Gap(span[i])])), Unbound)))

Wasserstein(cur, ref, c, declared) ==
  LET Gap(v) == AbsF(CumGap(cur, ref, c, v))
      span   == Span(cur, ref, c)
  IN Guarded(NumericChecks(cur, ref, c, declared),
             OrNaN(cur, ref, c, Result(SumF([i \in DOMAIN span |-> Gap(span[i])]), Unbound)))

(* A Gaussian kernel tells any two distributions apart; windows of up to    *)
(* max_samples rows are not sub-sampled.                                      *)
Mmd(cur, ref, c, declared) ==
  Guarded(NumericChecks(cur, ref, c, declared),
          OrNaN(cur, ref, c, Result(Divergence(SharesOf(cur, ref, c, FALSE, 1)), Unbound)))

(* PSI of the label column, binned when the reference's labels are floats. *)
TargetNumeric(ref, label, treatAs) ==
  CASE treatAs = "numeric"     -> TRUE
    [] treatAs = "categorical" -> FALSE
    [] OTHER                   -> Floating(FrameOf(ref), label)

TargetDrift(cur, ref, s, params) ==
  Guarded(ReferenceCheck(ref) \o TabularCheck(s)
            \o ColumnCheck(FrameOf(ref), s.label) \o ColumnCheck(cur, s.label)
            \o When(FrameOf(ref).n < MinRows \/ cur.n < MinRows, "InsufficientDataError"),
          PsiCore(cur, ref, s.label, TargetNumeric(ref, s.label, params.treatAs), params))

----------------------------------------------------------------------------
(* tests.py *)

(* _to_probs(): numbers are binned whatever the schema declares. *)
BothNumbers(cur, ref, c) == IsType(cur, c, Number) /\ IsType(FrameOf(ref), c, Number)

OnProbs(cur, ref, c, params, F(_)) ==
  LET numeric == BothNumbers(cur, ref, c) IN
  Guarded(PairChecks(cur, ref, c, FALSE)
            \o When(numeric /\ Either(Missing, cur, ref, c), "ValueError")
            \o When(~numeric /\ Either(Unsortable, cur, ref, c), "TypeError"),
          Result(F(SharesOf(cur, ref, c, numeric, params.nBins)), Unbound))

Hellinger(cur, ref, c, params)     == OnProbs(cur, ref, c, params, Divergence)
JensenShannon(cur, ref, c, params) == OnProbs(cur, ref, c, params, Divergence)

HalfL1(shares) ==
  LET Add(k, acc) == Plus(acc, AbsF(Minus(shares.ref[k], shares.cur[k])))
  IN Times(Frac(1, 2), FoldSet(Add, Zero, DOMAIN shares.ref))

TotalVariation(cur, ref, c, params) == OnProbs(cur, ref, c, params, HalfL1)

(* The tests on floats. *)
OnFloatPair(cur, ref, c, outcome) ==
  Guarded(PairChecks(cur, ref, c, TRUE), OrNaN(cur, ref, c, outcome))

KS2Samp(cur, ref, c) ==
  LET span == Span(cur, ref, c) IN
  OnFloatPair(cur, ref, c,
    Result(PValue, MaxF({AbsF(CumGap(cur, ref, c, span[i])) : i \in DOMAIN span})))

(* _moment / _variance of a window, ddof=1. *)
MeanOf(vals) == MeanF([i \in DOMAIN vals |-> Whole(vals[i])])
SquaresOf(vals) ==
  SumF([i \in DOMAIN vals |->
          LET d == Minus(Whole(vals[i]), MeanOf(vals)) IN Times(d, d)])
VarOf(vals) == Over(SquaresOf(vals), Whole(Len(vals) - 1))

TTest(cur, ref, c) ==
  LET r == RefVals(ref, c)
      x == Vals(cur, c)
      pooled == Over(Plus(SquaresOf(r), SquaresOf(x)), Whole(Len(r) + Len(x) - 2))
      gap == Minus(MeanOf(r), MeanOf(x))
      outcome == Result(PValue, IF pooled = Zero THEN Zero
                                ELSE Over(Times(gap, AbsF(gap)), pooled))
  IN Guarded(PairChecks(cur, ref, c, TRUE),
             IF Either(Missing, cur, ref, c) THEN Result(NotANumber, Zero) ELSE outcome)

(* Cliff's delta 2 U / (n m) - 1, where a tie counts one half in U. *)
MannWhitney(cur, ref, c) ==
  LET r == RefVals(ref, c)
      x == Vals(cur, c)
      pairs   == (DOMAIN r) \X (DOMAIN x)
      wins    == Cardinality({p \in pairs : r[p[1]] > x[p[2]]})
      ties    == Cardinality({p \in pairs : r[p[1]] = x[p[2]]})
  IN OnFloatPair(cur, ref, c,
       Result(PValue, Minus(Frac(2 * wins + ties, Len(r) * Len(x)), One)))

(* The variance ratio is None when the reference's variance is zero or NaN. *)
Levene(cur, ref, c) ==
  LET r == RefVals(ref, c)
      ratio == IF HasNull(r) THEN Unbound
               ELSE IF VarOf(r) = Zero THEN Unbound
               ELSE IF HasNull(Vals(cur, c)) THEN NotANumber
               ELSE Over(VarOf(Vals(cur, c)), VarOf(r))
  IN Guarded(PairChecks(cur, ref, c, TRUE),
             Result(IF Either(Missing, cur, ref, c) THEN NotANumber ELSE PValue, ratio))

CramerVonMises(cur, ref, c) == OnFloatPair(cur, ref, c, Result(PValue, Unbound))

EnergyDistance(cur, ref, c) ==
  LET Square(v) == Times(CumGap(cur, ref, c, v), CumGap(cur, ref, c, v))
      span == Span(cur, ref, c)
  IN OnFloatPair(cur, ref, c,
       Result(Times(Whole(2), SumF([i \in DOMAIN span |-> Square(span[i])])), Unbound))

(* scipy refuses windows with one distinct value. *)
AndersonDarling(cur, ref, c) ==
  Guarded(PairChecks(cur, ref, c, TRUE)
            \o When(/\ Has(cur, c) /\ Has(FrameOf(ref), c)
                    /\ Cardinality(Range(Pooled(cur, ref, c))) < 2, "ValueError"),
          OrNaN(cur, ref, c, Result(PValue, Statistic)))

(* The middle half of the values is one value: an interquartile range of zero. *)
NoSpread(vals) == Quantile(vals, Frac(1, 4)) = Quantile(vals, Frac(3, 4))

(* epps_singleton_2samp() divides by half the interquartile range of both     *)
(* windows: at zero its covariances are NaN, and np.linalg.pinv() raises.      *)
EppsSingleton(cur, ref, c) ==
  LET checks == PairChecks(cur, ref, c, TRUE)
      flat   == checks = <<>> /\ ~Either(Missing, cur, ref, c) /\ NoSpread(Pooled(cur, ref, c))
  IN Guarded(checks \o When(flat, "LinAlgError"),
             OrNaN(cur, ref, c, Result(PValue, Statistic)))

(* The contingency table of a column of categories: its guards. *)
TableChecks(cur, ref, c) ==
  PairChecks(cur, ref, c, FALSE)
    \o When(Either(Floating, cur, ref, c), "SchemaError")
    \o When(Either(Unsortable, cur, ref, c), "TypeError")

(* Distance of a cell from what it is expected to hold, with the continuity  *)
(* correction that scipy applies to a table of two columns.                   *)
CellGap(cur, ref, c, vals, v) ==
  LET all == Pooled(cur, ref, c)
      expected == Frac(Len(vals) * CountOf(all, v), Len(all))
      gap == AbsF(Minus(Whole(CountOf(vals, v)), expected))
  IN [expected |-> expected,
      gap |-> IF Cardinality(Range(all)) > 2 THEN gap
              ELSE Minus(gap, MinF({gap, Frac(1, 2)}))]

CellsOf(cur, ref, c) ==
  {<<w, v>> : w \in {"ref", "cur"}, v \in Range(Pooled(cur, ref, c))}
CellAt(cur, ref, c, cell) ==
  CellGap(cur, ref, c, IF cell[1] = "ref" THEN RefVals(ref, c) ELSE Vals(cur, c), cell[2])

OnTable(cur, ref, c, v2) ==
  Guarded(TableChecks(cur, ref, c),
          IF Cardinality(Range(Pooled(cur, ref, c))) < 2 THEN Result(One, Zero)
          ELSE Result(PValue, v2))

ChiSquare(cur, ref, c) ==
  LET Add(cell, acc) ==
        LET g == CellAt(cur, ref, c, cell) IN Plus(acc, Over(Times(g.gap, g.gap), g.expected))
  IN OnTable(cur, ref, c,
       Over(FoldSet(Add, Zero, CellsOf(cur, ref, c)), Whole(Len(Pooled(cur, ref, c)))))

GTest(cur, ref, c) ==
  OnTable(cur, ref, c,
    IF \A cell \in CellsOf(cur, ref, c) : CellAt(cur, ref, c, cell).gap = Zero
    THEN Zero ELSE Positive)

(* NaN differs from 0, so Fisher's table counts it as a positive. *)
FisherExact(cur, ref, c) ==
  LET a == Cardinality({i \in DOMAIN RefVals(ref, c) : RefVals(ref, c)[i] # 0})
      d == Cardinality({i \in DOMAIN Vals(cur, c) : Vals(cur, c)[i] # 0})
      b == Len(RefVals(ref, c)) - a
      e == Len(Vals(cur, c)) - d
  IN Guarded(PairChecks(cur, ref, c, FALSE),
       CASE a + d = 0 \/ b + e = 0 -> Result(One, NotANumber)
         [] b > 0 /\ d > 0         -> Result(PValue, Frac(a * e, b * d))
         [] OTHER                  -> Result(PValue, Infinite))

(* NaN is not above 0.5, so the z test counts it as a negative. *)
ZTestProportions(cur, ref, c) ==
  LET Ones(vals) == Cardinality({i \in DOMAIN vals : vals[i] # Null /\ vals[i] > 0})
      n1 == Len(RefVals(ref, c))
      n2 == Len(Vals(cur, c))
      p1 == Frac(Ones(RefVals(ref, c)), n1)
      p2 == Frac(Ones(Vals(cur, c)), n2)
      p  == Frac(Ones(RefVals(ref, c)) + Ones(Vals(cur, c)), n1 + n2)
      se2 == Times(Times(p, Minus(One, p)), Plus(Frac(1, n1), Frac(1, n2)))
      gap == Minus(p1, p2)
  IN Guarded(PairChecks(cur, ref, c, TRUE),
       IF se2 = Zero THEN Result(One, Unbound)
       ELSE Result(PValue, Over(Times(gap, gap), se2)))

DriftOf(cur, ref, c, declared, s, params) ==
  [psi |-> Psi(cur, ref, c, declared, params),
   wasserstein |-> Wasserstein(cur, ref, c, declared),
   mmd |-> Mmd(cur, ref, c, declared),
   target_drift |-> TargetDrift(cur, ref, s, params),
   ks_2samp |-> KS2Samp(cur, ref, c), ttest |-> TTest(cur, ref, c),
   mannwhitney |-> MannWhitney(cur, ref, c), levene |-> Levene(cur, ref, c),
   cramervonmises |-> CramerVonMises(cur, ref, c),
   chisquare |-> ChiSquare(cur, ref, c), gtest |-> GTest(cur, ref, c),
   hellinger |-> Hellinger(cur, ref, c, params),
   jensenshannon |-> JensenShannon(cur, ref, c, params),
   tvd |-> TotalVariation(cur, ref, c, params),
   energy_distance |-> EnergyDistance(cur, ref, c),
   anderson_darling |-> AndersonDarling(cur, ref, c),
   epps_singleton |-> EppsSingleton(cur, ref, c),
   fisher_exact |-> FisherExact(cur, ref, c),
   ztest_proportions |-> ZTestProportions(cur, ref, c)]
=============================================================================
