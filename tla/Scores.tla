------------------------------- MODULE Scores -------------------------------
(***************************************************************************)
(* Metrics of predictions: performance against labels                       *)
(* (ayn_ml/metrics/tabular/performance.py), group fairness (fairness.py) and *)
(* performance estimated without labels (estimation.py, CBPE).               *)
(*                                                                          *)
(* Labels and predictions are integers (0 and 1 where a metric is binary), a *)
(* probability is a multiple of 1/ProbaUnit.  What scikit-learn computes is  *)
(* given by its definition.                                                   *)
(***************************************************************************)
EXTENDS Frames, TLC

CONSTANTS MinCbpeRows,   \* _MIN_ROWS and _MIN_REF_ROWS of estimation.py
          ProbaUnit

ASSUME ScoresAssumption == MinCbpeRows \in Nat \ {0} /\ ProbaUnit \in Nat \ {0}

Col(df, c) == Vals(df, c)
CountRows(df, T(_)) == Cardinality({i \in 1..df.n : T(i)})
MeanOver(df, F(_)) == MeanF([i \in 1..df.n |-> F(i)])

----------------------------------------------------------------------------
(* performance.py *)

(* _extract_arrays(): labels and predictions, two rows, probabilities. *)
ArrayChecks(df, s, needProba) ==
  TabularCheck(s) \o ColumnCheck(df, s.label) \o ColumnCheck(df, s.pred)
    \o When(df.n < 2, "InsufficientDataError")
    \o IF needProba THEN ColumnCheck(df, s.proba) ELSE <<>>

(* scikit-learn refuses NaN. *)
Clean(df, s) == When(Has(df, s.label) /\ HasNull(Col(df, s.label)), "ValueError")

Score(df, s, v) == Guarded(ArrayChecks(df, s, FALSE) \o Clean(df, s), Result(v, Unbound))

Accuracy(df, s) ==
  LET Right(i) == Col(df, s.label)[i] = Col(df, s.pred)[i]
  IN Guarded(ArrayChecks(df, s, FALSE), Result(Frac(CountRows(df, Right), df.n), Unbound))

(* Per class: rows labelled, rows predicted, and both. *)
Support(df, s, k)   == CountOf(Col(df, s.label), k)
Predicted(df, s, k) == CountOf(Col(df, s.pred), k)
Hits(df, s, k) ==
  LET Both(i) == Col(df, s.label)[i] = k /\ Col(df, s.pred)[i] = k IN CountRows(df, Both)

OrZero(n, d) == IF d = 0 THEN Zero ELSE Frac(n, d)

ClassPrecision(df, s, k) == OrZero(Hits(df, s, k), Predicted(df, s, k))
ClassRecall(df, s, k)    == OrZero(Hits(df, s, k), Support(df, s, k))
ClassF1(df, s, k) == OrZero(2 * Hits(df, s, k), Predicted(df, s, k) + Support(df, s, k))

Classes(df, s) == Range(Col(df, s.label)) \cup Range(Col(df, s.pred))

(* Mutant of ClassWeight: weighted by what is predicted. *)
WeightOfPredicted(df, s, average, k) ==
  IF average = "macro" THEN Frac(1, Cardinality(Classes(df, s)))
                       ELSE Frac(Predicted(df, s, k), df.n)

(* The average over the classes is by their support unless "macro" is asked. *)
ClassWeight(df, s, average, k) ==
  IF average = "macro" THEN Frac(1, Cardinality(Classes(df, s)))
                       ELSE Frac(Support(df, s, k), df.n)

Averaged(df, s, average, F(_, _, _)) ==
  LET Add(k, acc) == Plus(acc, Times(F(df, s, k), ClassWeight(df, s, average, k)))
  IN Score(df, s, FoldSet(Add, Zero, Classes(df, s)))

Precision(df, s, average) == Averaged(df, s, average, ClassPrecision)
Recall(df, s, average)    == Averaged(df, s, average, ClassRecall)
F1(df, s, average)        == Averaged(df, s, average, ClassF1)

Proba(df, s, i) == Frac(Col(df, s.proba)[i], ProbaUnit)
OneClass(df, s) == Has(df, s.label) /\ Cardinality(Range(Col(df, s.label))) < 2

(* The log loss is zero for the labels themselves as probabilities. *)
LogLoss(df, s) ==
  Guarded(ArrayChecks(df, s, TRUE) \o Clean(df, s) \o When(OneClass(df, s), "ValueError"),
          Result(IF \A i \in 1..df.n : Proba(df, s, i) = Whole(Col(df, s.label)[i])
                 THEN Zero ELSE Positive, Unbound))

(* Undefined for one class; what scikit-learn refuses is reported the same. *)
CurveChecks(df, s) ==
  ArrayChecks(df, s, TRUE)
    \o When(OneClass(df, s) \/ (Has(df, s.label) /\ HasNull(Col(df, s.label))),
            "MetricComputeError")

WithLabel(df, s, y) == {i \in 1..df.n : Col(df, s.label)[i] = y}

(* The probability that a positive outranks a negative, a tie for one half. *)
Auc(df, s) ==
  LET pairs == WithLabel(df, s, 1) \X WithLabel(df, s, 0)
      Rank(i) == Col(df, s.proba)[i]
      wins == Cardinality({p \in pairs : Rank(p[1]) > Rank(p[2])})
      ties == Cardinality({p \in pairs : Rank(p[1]) = Rank(p[2])})
  IN Guarded(CurveChecks(df, s),
             Result(Frac(2 * wins + ties, 2 * Cardinality(pairs)), Unbound))

(* Average precision: at each score, the precision times the recall gained. *)
AucPr(df, s) ==
  LET positives == WithLabel(df, s, 1)
      At(t)  == {i \in 1..df.n : Col(df, s.proba)[i] = t}
      From(t) == {i \in 1..df.n : Col(df, s.proba)[i] >= t}
      Add(t, acc) == Plus(acc, Times(Frac(Cardinality(positives \cap At(t)), Cardinality(positives)),
                            Frac(Cardinality(positives \cap From(t)), Cardinality(From(t)))))
  IN Guarded(CurveChecks(df, s),
             Result(FoldSet(Add, Zero, Range(Col(df, s.proba))), Unbound))

Error(df, s, i) == Col(df, s.label)[i] - Col(df, s.pred)[i]
SquareError(df, s, i) == Error(df, s, i) * Error(df, s, i)

Brier(df, s) ==
  LET Gap(i) == Minus(Proba(df, s, i), Whole(Col(df, s.label)[i]))
      Square(i) == Times(Gap(i), Gap(i))
  IN Guarded(ArrayChecks(df, s, TRUE) \o Clean(df, s), Result(MeanOver(df, Square), Unbound))

Mse(df, s) == LET At(i) == Whole(SquareError(df, s, i)) IN Score(df, s, MeanOver(df, At))
Mae(df, s) == LET At(i) == Whole(Abs(Error(df, s, i))) IN Score(df, s, MeanOver(df, At))

R2(df, s) ==
  LET y == Col(df, s.label)
      mean == MeanF([i \in DOMAIN y |-> Whole(y[i])])
      Residual(i) == Whole(SquareError(df, s, i))
      Total(i) == LET d == Minus(Whole(y[i]), mean) IN Times(d, d)
  IN Guarded(ArrayChecks(df, s, FALSE)
               \o When(OneClass(df, s), "MetricComputeError") \o Clean(df, s),
             Result(Minus(One, Over(MeanOver(df, Residual), MeanOver(df, Total))), Unbound))

(* Rows labelled 0, and those with no label, are left out. *)
Mape(df, s) ==
  LET y == Col(df, s.label)
      Kept(i) == y[i] # Null /\ y[i] # 0
      kept == SelectSeq([i \in 1..df.n |-> i], Kept)
      At(i) == Frac(100 * Abs(Error(df, s, i)), Abs(y[i]))
  IN Guarded(ArrayChecks(df, s, FALSE)
               \o When(Has(df, s.label) /\ \A i \in 1..df.n : ~Kept(i),
                       "InsufficientDataError"),
             Result(MeanF([j \in DOMAIN kept |-> At(kept[j])]), Unbound))

PerformanceOf(df, s, average) ==
  [accuracy |-> Accuracy(df, s), precision |-> Precision(df, s, average),
   recall |-> Recall(df, s, average), f1 |-> F1(df, s, average),
   log_loss |-> LogLoss(df, s), auc |-> Auc(df, s), aucpr |-> AucPr(df, s),
   brier |-> Brier(df, s), mse |-> Mse(df, s), mae |-> Mae(df, s),
   r2 |-> R2(df, s), mape |-> Mape(df, s)]

----------------------------------------------------------------------------
(* fairness.py: the column is the protected attribute; s.protected is the   *)
(* sequence of the declared ones, in a sequence that is empty for None.       *)

(* _extract_protected() *)
ProtectedChecks(df, s, c) ==
  When(c = Nameless, "SchemaError")
  \o When(s.protected # <<>> /\ c \notin Range(s.protected), "SchemaError")
  \o When(~Has(df, c), "SchemaError")

FairnessChecks(df, s, c, columns) ==
  TabularCheck(s) \o When(df.n < MinRows, "InsufficientDataError")
    \o FlattenSeq([i \in DOMAIN columns |-> ColumnCheck(df, columns[i])])
    \o ProtectedChecks(df, s, c)

Groups(df, c) == Range(Col(df, c))
Members(df, c, g) == {i \in 1..df.n : Col(df, c)[i] = g}

(* Share of positive predictions among some rows. *)
PositiveRate(df, s, rows) ==
  Frac(Cardinality({i \in rows : Col(df, s.pred)[i] = 1}), Cardinality(rows))

GroupRates(df, s, c) == {PositiveRate(df, s, Members(df, c, g)) : g \in Groups(df, c)}

(* One group: nothing to compare.  NaN as a group has no member, and a mean *)
(* of NaN.                                                                    *)
ByGroup(df, s, c, columns, alone, v) ==
  Guarded(FairnessChecks(df, s, c, columns)
            \o When(Unsortable(df, c), "TypeError"),
          Result(IF Cardinality(Groups(df, c)) < 2 THEN alone
                 ELSE IF HasNull(Col(df, c)) THEN NotANumber ELSE v, Unbound))

Gap(rates) == Minus(MaxF(rates), MinF(rates))

DemographicParity(df, s, c) ==
  ByGroup(df, s, c, <<s.pred>>, Zero, Gap(GroupRates(df, s, c)))

DisparateImpact(df, s, c) ==
  LET rates == GroupRates(df, s, c) IN
  ByGroup(df, s, c, <<s.pred>>, One,
          IF MaxF(rates) = Zero THEN One ELSE Over(MinF(rates), MaxF(rates)))

(* Groups without a row of the label y have no rate for it.  For a NaN      *)
(* group neither rate exists, which the nan-aware extremes leave out.         *)
RatesAmong(df, s, c, y) ==
  {PositiveRate(df, s, Members(df, c, g) \cap WithLabel(df, s, y)) :
     g \in {g \in Groups(df, c) \ {Null} : Members(df, c, g) \cap WithLabel(df, s, y) # {}}}

EqualizedOdds(df, s, c) ==
  LET GapAmong(y) == LET rates == RatesAmong(df, s, c, y)
                     IN IF rates = {} THEN Zero ELSE Gap(rates)
  IN Guarded(FairnessChecks(df, s, c, <<s.label, s.pred>>)
               \o When(NotCastable(df, s.label), "ValueError")
               \o When(Has(df, s.label) /\ ~(Range(Col(df, s.label)) \subseteq {0, 1}), "SchemaError")
               \o When(Unsortable(df, c), "TypeError"),
             Result(IF Cardinality(Groups(df, c)) < 2 THEN Zero
                    ELSE MaxF({GapAmong(1), GapAmong(0)}), Unbound))

FairnessOf(df, s, c) ==
  [demographic_parity |-> DemographicParity(df, s, c),
   equalized_odds |-> EqualizedOdds(df, s, c),
   disparate_impact |-> DisparateImpact(df, s, c)]

----------------------------------------------------------------------------
(* estimation.py *)

(* Mean label of the reference rows whose probability is between two. *)
Between(ref, s, a, b) ==
  LET rows == {i \in 1..ref.n : Col(ref, s.proba)[i] \in a..b}
  IN Frac(Cardinality(rows \cap WithLabel(ref, s, 1)), Cardinality(rows))

(* Mutant of Fitted: each probability keeps its own mean label. *)
FittedRaw(ref, s, x) == Between(ref, s, x, x)

(* The isotonic fit at a probability x of the reference. *)
Fitted(ref, s, x) ==
  LET known == Range(Col(ref, s.proba))
  IN MaxF({MinF({Between(ref, s, a, b) : b \in {b \in known : b >= x}}) :
             a \in {a \in known : a <= x}})

(* _calibrate(): between two known probabilities the fit is linear, outside *)
(* them it is clipped.                                                        *)
Calibrated(ref, s, x) ==
  LET known == Range(Col(ref, s.proba))
      below == {a \in known : a <= x}
      above == {b \in known : b >= x}
  IN CASE below = {} -> Fitted(ref, s, Min(known))
       [] above = {} -> Fitted(ref, s, Max(known))
       [] x \in known -> Fitted(ref, s, x)
       [] OTHER -> LET a == Max(below)
                       b == Min(above)
                   IN Plus(Fitted(ref, s, a),
                           Times(Frac(x - a, b - a),
                                 Minus(Fitted(ref, s, b), Fitted(ref, s, a))))

(* _setup_cbpe() *)
CbpeChecks(cur, ref, s, needPred) ==
  ReferenceCheck(ref) \o TabularCheck(s)
    \o ColumnCheck(cur, s.proba) \o When(cur.n < MinCbpeRows, "InsufficientDataError")
    \o ColumnCheck(FrameOf(ref), s.proba)
    \o When(FrameOf(ref).n < MinCbpeRows, "InsufficientDataError")
    \o ColumnCheck(FrameOf(ref), s.label)
    \o IF needPred THEN ColumnCheck(cur, s.pred) ELSE <<>>

PHat(cur, ref, s, calibrate) ==
  [i \in 1..cur.n |-> IF calibrate THEN Calibrated(FrameOf(ref), s, Col(cur, s.proba)[i])
                                   ELSE Proba(cur, s, i)]

SumOn(p, rows) == LET Add(i, acc) == Plus(acc, p[i]) IN FoldSet(Add, Zero, rows)
Complement(p) == [i \in DOMAIN p |-> Minus(One, p[i])]
PredictedOnes(cur, s) == {i \in 1..cur.n : Col(cur, s.pred)[i] = 1}

(* _estimate_confusion(): the expected counts. *)
Confusion(cur, s, p) ==
  LET ones == PredictedOnes(cur, s)
      rest == (1..cur.n) \ ones
  IN [tp |-> SumOn(p, ones), fp |-> SumOn(Complement(p), ones),
      fn |-> SumOn(p, rest), tn |-> SumOn(Complement(p), rest)]

Ratio(cur, ref, s, p, n, d) ==
  Guarded(CbpeChecks(cur, ref, s, TRUE),
          IF d = Zero THEN Err("MetricComputeError") ELSE Result(Over(n, d), Unbound))

CbpeAccuracy(cur, ref, s, calibrate) ==
  LET p == PHat(cur, ref, s, calibrate)
      At(i) == IF Col(cur, s.pred)[i] = 1 THEN p[i] ELSE Minus(One, p[i])
  IN Guarded(CbpeChecks(cur, ref, s, TRUE), Result(MeanOver(cur, At), Unbound))

CbpePrecision(cur, ref, s, calibrate) ==
  LET p == PHat(cur, ref, s, calibrate)
      k == Confusion(cur, s, p)
  IN Ratio(cur, ref, s, p, k.tp, Plus(k.tp, k.fp))

CbpeRecall(cur, ref, s, calibrate) ==
  LET p == PHat(cur, ref, s, calibrate)
      k == Confusion(cur, s, p)
  IN Ratio(cur, ref, s, p, k.tp, Plus(k.tp, k.fn))

CbpeF1(cur, ref, s, calibrate) ==
  LET p == PHat(cur, ref, s, calibrate)
      k == Confusion(cur, s, p)
  IN Ratio(cur, ref, s, p, Plus(k.tp, k.tp), Plus(Plus(k.tp, k.tp), Plus(k.fp, k.fn)))

(* The points of the expected ROC curve, by decreasing probability. *)
RocPoints(p) ==
  LET total == SumF(p)
      missed == SumF(Complement(p))
      desc == SortSeq(p, LAMBDA a, b : Less(b, a))
      Upto(k) == SubSeq(desc, 1, k)
  IN [k \in 1..(Len(p) + 1) |->
        [fpr |-> Over(SumF(Complement(Upto(k - 1))), missed),
         tpr |-> Over(SumF(Upto(k - 1)), total)]]

(* argsort() is not stable: points of equal fpr come in any order, and so   *)
(* the area is one of several.                                                *)
Areas(points) ==
  LET orders == {f \in Bijection(DOMAIN points, DOMAIN points) :
                   \A i, j \in DOMAIN points :
                     i < j => Leq(points[f[i]].fpr, points[f[j]].fpr)}
      Strip(f, i) == Times(Minus(points[f[i + 1]].fpr, points[f[i]].fpr),
                           Times(Frac(1, 2), Plus(points[f[i + 1]].tpr, points[f[i]].tpr)))
  IN {SumF([i \in 1..(Len(points) - 1) |-> Strip(f, i)]) : f \in orders}

(* The outcomes that cbpe_auc may have. *)
CbpeAuc(cur, ref, s, calibrate) ==
  LET p == PHat(cur, ref, s, calibrate)
      raised == Guarded(CbpeChecks(cur, ref, s, FALSE), Stat(Zero))
  IN IF raised.err # "none" THEN {raised}
     ELSE IF SumF(p) = Zero \/ SumF(Complement(p)) = Zero THEN {Err("MetricComputeError")}
     ELSE {Result(a, Unbound) : a \in Areas(RocPoints(p))}

CbpeOf(cur, ref, s, calibrate) ==
  [cbpe_accuracy |-> CbpeAccuracy(cur, ref, s, calibrate),
   cbpe_precision |-> CbpePrecision(cur, ref, s, calibrate),
   cbpe_recall |-> CbpeRecall(cur, ref, s, calibrate),
   cbpe_f1 |-> CbpeF1(cur, ref, s, calibrate)]
=============================================================================
