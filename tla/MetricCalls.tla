---------------------------- MODULE MetricCalls ----------------------------
(***************************************************************************)
(* Calls of the metrics: for every input of a bounded set, what each metric   *)
(* of a family returns or raises, and what two metrics, two families or two   *)
(* steps (a plan is advised, then run on a later window) say of each other.   *)
(***************************************************************************)
EXTENDS Advisor

CONSTANTS Inputs,      \* a sequence of sets of inputs: one set for each family
          Discount     \* see Ranking

(* A window of a column x and a label y.  Integers and truth values are never *)
(* missing (see Frames).                                                      *)
Dtypes == {"int", "float", "str", "bool"}
IsColumn(column, n) ==
  /\ column.dtype \in Dtypes /\ column.vals \in Seq(Int \cup {Null}) /\ Len(column.vals) = n
  /\ column.dtype \in {"int", "bool"} => Null \notin Range(column.vals)
IsWindow(df) ==
  /\ df.n \in Nat /\ DOMAIN df.cols = {"x", "y"}
  /\ \A c \in {"x", "y"} : IsColumn(df.cols[c], df.n)

(* Of a feature a schema declares "numeric" or "categorical" or nothing       *)
(* (TabularSchema.feature_types), with one reference window; treat_as of      *)
(* target_drift is its default.                                               *)
IsInput(in) ==
  /\ IsWindow(in.cur) /\ in.ref = <<in.ref[1]>> /\ IsWindow(in.ref[1])
  /\ in.s.type = "tabular" /\ DOMAIN in.s.types \subseteq {"x"}
  /\ \A c \in DOMAIN in.s.types : in.s.types[c] \in {"numeric", "categorical"}
  /\ in.params.treatAs = "auto" /\ {in.params.low, in.params.high} \subseteq Int

(* A matrix of a cell for each user and item. *)
IsMatrix(m) ==
  /\ m.users \in Seq(Range(m.users)) /\ m.items \in Seq(Range(m.items))
  /\ DOMAIN m.cells = DOMAIN m.users
  /\ \A i \in DOMAIN m.users : DOMAIN m.cells[i] = DOMAIN m.items

ASSUME MetricCallsAssumption ==
  \A i \in DOMAIN Inputs : \A in \in Inputs[i] :
    /\ in.family = "column" => IsInput(in) /\ in.s.label = "x"
    /\ in.family = "advice" =>
         /\ IsInput(in) /\ IsWindow(in.train)
         /\ in.cur.cols["y"].dtype = "int" /\ in.ref[1].cols["y"].dtype = "int"
         /\ in.s.label = "y" /\ in.s.pred # "x" /\ in.s.proba # "x"
    /\ in.family = "matrix" =>
         /\ IsMatrix(in.truth) /\ (in.pred # <<>> => in.pred = <<in.pred[1]>> /\ IsMatrix(in.pred[1]))
         /\ in.lib \in {"pandas", "polars"}

R == INSTANCE Ranking

VARIABLES input, out,
          pc           \* "call", "run" (an advised plan is to be run) or "done"

vars == <<input, out, pc>>

Init == (\E i \in DOMAIN Inputs : input \in Inputs[i]) /\ out = <<>> /\ pc = "call"

Is(family) == input.family = family
Call(family, next) == Is(family) /\ pc = "call" /\ pc' = next /\ UNCHANGED input

----------------------------------------------------------------------------
(* Predictions: performance and fairness of one window. *)
Predict ==
  /\ Call("predictions", "done")
  /\ out' = [weighted |-> PerformanceOf(input.cur, input.s, "weighted"),
             macro    |-> PerformanceOf(input.cur, input.s, "macro"),
             fairness |-> FairnessOf(input.cur, input.s, "g")]

(* Estimation: the calibrated probabilities, and what is made of them. *)
Estimate ==
  /\ Call("estimation", "done")
  /\ out' = [p   |-> PHat(input.cur, input.ref, input.s, TRUE),
             raw |-> PHat(input.cur, input.ref, input.s, FALSE),
             own |-> PHat(input.ref[1], input.ref, input.s, TRUE),
             cbpe |-> CbpeOf(input.cur, input.ref, input.s, TRUE),
             auc  |-> CbpeAuc(input.cur, input.ref, input.s, TRUE)]

(* A column: every metric that takes one, through the runner's routing, and  *)
(* the profile.                                                               *)
ColumnMetrics == Builtin \ (Performance \cup Fairness \cup Estimation \cup OfFrame)
FeatureFor(name) == IF name = "target_drift" THEN Nameless ELSE "x"

Measure ==
  /\ Call("column", "done")
  /\ out' = [ran |-> [name \in ColumnMetrics |->
                        RunOne([name |-> name, feature |-> FeatureFor(name)],
                               input.cur, input.ref, input.s, input.params)],
             drift |-> DriftOf(input.cur, input.ref, "x", Declared(input.s, "x"),
                               input.s, input.params),
             stats |-> StatisticsOf(input.cur, "x", input.params),
             raises  |-> ProfileRaises(input.cur, "x", Declared(input.s, "x")),
             profile |-> IF ProfileRaises(input.cur, "x", Declared(input.s, "x")) THEN <<>>
                         ELSE Profile(input.cur, "x", Declared(input.s, "x"))]

(* An advised plan, and its run on a later window. *)
Advise ==
  /\ Call("advice", "run")
  /\ \E verdict \in BOOLEAN, task \in {"classification", "regression"} :
       out' = [plan |-> Suggest(input.train, input.s, input.ref, task, verdict), ran |-> {}]

RunAdvised ==
  /\ pc = "run" /\ pc' = "done" /\ UNCHANGED input
  /\ out' = [out EXCEPT !.ran =
       {[spec |-> spec,
         err  |-> RunOne(spec, input.cur, input.ref, input.s, input.params).err] :
          spec \in {spec \in out.plan.specs : spec.name \in DriftMetrics}}]

(* Recommendations. *)
Recommend ==
  /\ Call("ranking", "done")
  /\ \E rank \in R!Rankings(input.table, input.s) :
       out' = [rank |-> rank,
               of |-> R!RankingOf(input.table, input.ref, input.s, input.p, rank)]

(* A matrix, the table made of it, and the metrics of that. *)
Convert ==
  /\ Call("matrix", "done")
  /\ LET checks == R!MatrixChecks(input.lib, input.truth, input.pred)
         table == R!Interactions(input.lib, input.truth, input.pred)
     IN out' = [err |-> Guarded(checks, Stat(Zero)).err,
                table |-> IF Guarded(checks, Stat(Zero)).err = "none" THEN table.rows ELSE <<>>]

Next == Predict \/ Estimate \/ Measure \/ Advise \/ RunAdvised \/ Recommend \/ Convert

Spec == Init /\ [][Next]_vars

----------------------------------------------------------------------------
(* Properties. *)

Ran(family) == Is(family) /\ pc = "done"
Got(o)   == o.err = "none"
Num(o)   == o.err = "none" /\ IsNum(o.value)
Whole01(v) == Leq(Zero, v) /\ Leq(v, One)

(* Metrics that scikit-learn or numpy compute along different paths agree on *)
(* binary predictions: the weighted recall is the accuracy, the squared and   *)
(* absolute errors its complement, F1 never exceeds the mean of precision and *)
(* recall under either average, a perfect ranking is perfect for both curves, *)
(* and the two parity metrics see the same disparity (performance.py,         *)
(* fairness.py).                                                              *)
ScoresAgree ==
  Ran("predictions") =>
    LET w == out.weighted
        f == out.fairness
    IN /\ Got(w.recall) =>
            /\ w.recall.value = w.accuracy.value
            /\ w.mse.value = Minus(One, w.accuracy.value)
            /\ w.mae.value = w.mse.value
       /\ \A a \in {w, out.macro} :
            Got(a.f1) => Leq(Plus(a.f1.value, a.f1.value),
                             Plus(a.precision.value, a.recall.value))
       /\ Got(w.auc) => (w.auc.value = One <=> w.aucpr.value = One)
       /\ Got(w.log_loss) => (w.log_loss.value = Zero <=> w.brier.value = Zero)
       /\ Got(w.r2) => (w.r2.value = One <=> w.mse.value = Zero)
       /\ Got(f.demographic_parity) =>
            (f.demographic_parity.value = Zero <=> f.disparate_impact.value = One)
       /\ Got(f.equalized_odds) /\ w.accuracy.value = One => f.equalized_odds.value = Zero

(* CBPE's calibrated probabilities are probabilities, keep the order of the  *)
(* scores (between, outside and at those of the reference), and on the        *)
(* reference itself add up to its positives; the estimated F1 is that of the  *)
(* estimated precision and recall; the estimated AUC is never below one half, *)
(* and is unique unless a calibrated probability is exactly one, which makes  *)
(* points of the curve tie in an unstable sort (estimation.py).               *)
EstimatesCalibrated ==
  Ran("estimation") =>
    LET score(i) == Col(input.cur, input.s.proba)[i]
        ref == input.ref[1]
        k   == out.cbpe
    IN /\ \A i \in DOMAIN out.p : Whole01(out.p[i])
       /\ \A i, j \in DOMAIN out.p : score(i) <= score(j) => Leq(out.p[i], out.p[j])
       /\ SumF(out.own) = Whole(Cardinality(WithLabel(ref, input.s, 1)))
       /\ Got(k.cbpe_precision) /\ Got(k.cbpe_recall) =>
            /\ Got(k.cbpe_f1)
            /\ Times(Plus(k.cbpe_precision.value, k.cbpe_recall.value), k.cbpe_f1.value)
                 = Times(Whole(2), Times(k.cbpe_precision.value, k.cbpe_recall.value))
       /\ \A a \in out.auc : Got(a) => Leq(Frac(1, 2), a.value)
       /\ (\A i \in DOMAIN out.p : out.p[i] # One) => Cardinality(out.auc) = 1

NoNulls(df) == ~HasNull(Vals(df, "x"))
Texts(df)   == df.cols["x"].dtype = "str"
Enough(df)  == df.n >= MinRows
(* The routing looks at the current window only ("reference-window type       *)
(* discrepancies are not checked", classify_columns()); a column of integers  *)
(* turns to floats with the first value that is missing.                       *)
Alike(df, other) ==
  LET dtypes == {df.cols["x"].dtype, other.cols["x"].dtype} IN
  Cardinality(dtypes) = 1 \/ dtypes \subseteq Number
Comparable(cur, ref) ==
  NoNulls(cur) /\ NoNulls(ref) /\ Enough(cur) /\ Enough(ref) /\ Alike(cur, ref)
Values(cur, ref) == Range(Vals(cur, "x")) \cup Range(Vals(ref, "x"))

(* A metric never computes on a column of a type that it does not accept     *)
(* (the spec fails with a SchemaError, and not deep inside numpy or with a     *)
(* number that means nothing); and one that the routing lets through does not *)
(* fail on windows of enough rows without missing values, with four           *)
(* exceptions: the contingency tests accept a binary column and then refuse   *)
(* it when either window holds it as floats, Anderson-Darling needs two       *)
(* values, Epps-Singleton a spread of the middle half of the values, and a    *)
(* column of texts may be declared numeric (Runner._run_one and the compute    *)
(* methods).                                                                   *)
RoutedMetricsRun ==
  Ran("column") /\ Comparable(input.cur, input.ref[1]) =>
    LET type == ColumnType(input.cur.cols["x"], Declared(input.s, "x"))
        Suits(name) == name = "target_drift" \/ type \in Accepted(name)
    IN \A name \in ColumnMetrics :
         /\ ~Suits(name) => out.ran[name].err = "SchemaError"
         /\ Suits(name) /\ ~Got(out.ran[name]) =>
              \/ name \in DriftOfClasses /\ Either(Floating, input.cur, input.ref, "x")
              \/ name = "anderson_darling" /\ Cardinality(Values(input.cur, input.ref[1])) = 1
              \/ name = "epps_singleton" /\ NoSpread(Pooled(input.cur, input.ref, "x"))
              \/ Texts(input.cur) /\ Declared(input.s, "x") = "numeric"

OneLabelPerValue(df) ==
  \A i, j \in 1..df.n : Vals(df, "x")[i] = Vals(df, "x")[j] => Vals(df, "y")[i] = Vals(df, "y")[j]

(* The profile and the statistics tell the same story of a column: values in *)
(* the range, out of it and missing make up the count; median, mean, deviation *)
(* and categories are the same when nothing is missing; rows that are not       *)
(* duplicates are as many as values in a frame that has one row per value       *)
(* (statistics.py, profiler.py).                                                *)
ProfileAgrees ==
  Ran("column") =>
    LET st == out.stats
        pr == out.profile
        vals == Vals(input.cur, "x")
    IN /\ Got(st.in_range_count) =>
            /\ Got(st.out_range_count) /\ Got(st.count)
            /\ st.in_range_count.value[2] + st.out_range_count.value[2] + CountOf(vals, Null)
                 = st.count.value[2]
       /\ ~out.raises /\ vals # <<>> /\ NoNulls(input.cur) =>
            /\ "p50" \in DOMAIN pr /\ ~Texts(input.cur) =>
                 /\ pr.p50 = st.median.value /\ pr.mean = st.mean.value
                 /\ input.params.q = Frac(1, 2) => pr.p50 = st.quantile.value
                 /\ pr.std # Unbound => pr.std = st.std.value
            /\ "n_unique" \in DOMAIN pr =>
                 pr.n_unique = st.unique_count.value /\ pr.top_category = st.top_category.value
       /\ Got(st.unique_count) /\ OneLabelPerValue(input.cur) =>
            st.unique_count.value[2] + st.duplicate_rows.value[2] = st.row_count.value[2]

(* The quartiles of a profile are in order, between the least and the greatest *)
(* value, and so is the mean (profiler.py).                                     *)
ProfileOrdered ==
  Ran("column") /\ ~out.raises =>
    LET pr == out.profile IN
    "p50" \in DOMAIN pr /\ pr.p50 # Unbound =>
      /\ Leq(pr.min, pr.p25) /\ Leq(pr.p25, pr.p50) /\ Leq(pr.p50, pr.p75)
      /\ Leq(pr.p75, pr.max) /\ Leq(pr.min, pr.mean) /\ Leq(pr.mean, pr.max)

(* The distances agree about equality, whatever their bins and kernels, and  *)
(* bound each other: Wasserstein by KS times the range, energy by both; equal *)
(* distributions are at distance zero for all of them and have no effect      *)
(* size (drift.py, tests.py).                                                 *)
DistancesAgree ==
  Ran("column") =>
    LET d == out.drift
        ks == d.ks_2samp.effect
        values == Values(input.cur, input.ref[1])
    IN /\ Num(d.wasserstein) =>
            /\ ks = Zero <=> d.wasserstein.value = Zero
            /\ ks = Zero <=> d.energy_distance.value = Zero
            /\ ks = Zero <=> d.mmd.value = Zero
            /\ Leq(d.wasserstein.value, Times(ks, Whole(Max(values) - Min(values))))
            /\ Leq(d.energy_distance.value, Times(Whole(2), Times(ks, d.wasserstein.value)))
            /\ ks = Zero => /\ d.mannwhitney.effect = Zero /\ d.ttest.effect = Zero
                            /\ d.psi.value = Zero /\ d.tvd.value = Zero
       /\ Num(d.tvd) => /\ Whole01(d.tvd.value)
                        /\ d.tvd.value = Zero <=> d.hellinger.value = Zero
                        /\ d.tvd.value = Zero <=> d.jensenshannon.value = Zero
       /\ Num(d.chisquare) /\ d.chisquare.effect # Zero => d.gtest.effect # Zero

(* An advised plan runs: on any later window of enough rows, with or without *)
(* missing values and whether or not its integers have turned to floats, no    *)
(* drift spec of it is refused by the routing or fails, with two exceptions:   *)
(* psi and chisquare where a value is missing, and chisquare on a column that  *)
(* is declared categorical and that one of the windows holds as floats         *)
(* (MetricAdvisor, Runner._run_one).                                          *)
AdvisedPlanRuns ==
  /\ Ran("advice") /\ Enough(input.cur) /\ Enough(input.ref[1]) /\ NoNulls(input.ref[1])
  /\ Alike(input.train, input.cur) /\ Alike(input.cur, input.ref[1])
  => \A r \in out.ran :
       r.err # "none" =>
         \/ r.spec.name \in {"psi", "chisquare"} /\ Missing(input.cur, "x")
         \/ /\ r.spec.name = "chisquare" /\ Declared(input.s, "x") = "categorical"
            /\ Either(Floating, input.cur, input.ref, "x")

DistinctItems(d) ==
  \A i, j \in DOMAIN d.rows :
    d.rows[i].user = d.rows[j].user /\ d.rows[i].item = d.rows[j].item => i = j
DistinctScores(d) ==
  \A i, j \in DOMAIN d.rows :
    d.rows[i].user = d.rows[j].user /\ d.rows[i].score = d.rows[j].score => i = j

(* The row i, made the best of its table. *)
Promoted(d, s, i) ==
  [d EXCEPT !.rows =
     IF s.mode = "none" THEN <<d.rows[i]>> \o RemoveAt(d.rows, i)
     ELSE [d.rows EXCEPT ![i].score = IF s.mode = "rank" THEN -1 ELSE 9]]

Accuracies == {"precision", "recall", "hit_rate", "map", "ndcg", "mrr"}

(* The row of a table for the i-th user and the j-th item of the matrices. *)
IsRowOf(row, i, j) ==
  /\ row.user = input.truth.users[i] /\ row.item = input.truth.items[j]
  /\ row.rel = input.truth.cells[i][j]
  /\ input.pred # <<>> => row.score = input.pred[1].cells[i][j]

(* The table made of matrices whose labels are distinct has each pair of a     *)
(* user and an item once, with the cells of that place in both matrices, and    *)
(* the items of a user in the order of the columns, which is their ranking when *)
(* there are no scores; the items of the two matrices are the same, and with    *)
(* pandas the users too.  Polars never compares the users: a score is that of   *)
(* the row of the same place, whosever it is (interactions_from_matrix()).      *)
InteractionsExact ==
  LET truth == input.truth
      table == out.table
  IN Ran("matrix") /\ out.err = "none" /\ IsInjective(truth.users) /\ IsInjective(truth.items) =>
     /\ input.pred # <<>> =>
          /\ input.pred[1].items = truth.items
          /\ input.lib = "pandas" => input.pred[1].users = truth.users
     /\ Len(table) = Len(truth.users) * Len(truth.items)
     /\ \A m \in DOMAIN table :
          \E i \in DOMAIN truth.users, j \in DOMAIN truth.items : IsRowOf(table[m], i, j)
     /\ \A m, n \in DOMAIN table : m < n /\ table[m].user = table[n].user =>
          \E j, k \in DOMAIN truth.items :
            j < k /\ table[m].item = truth.items[j] /\ table[n].item = truth.items[k]

(* Nothing else that its user rated is more relevant. *)
MostRelevant(d, i) ==
  \A j \in DOMAIN d.rows : d.rows[j].user = d.rows[i].user => d.rows[j].rel <= d.rows[i].rel

(* Recommending a relevant item higher never lowers an accuracy metric (NDCG   *)
(* weighs how relevant, so only for the most relevant item of a user), whether *)
(* rows are ranked by score, by rank or by position; and the metrics bound     *)
(* each other: a hit is what precision, recall, MAP, MRR and F-beta agree on;  *)
(* NDCG, which reads no threshold, sees every hit among distinct items, and    *)
(* nothing else when the threshold is zero; MAP is at most recall and NDCG at  *)
(* most one when items are distinct; popularity of one means no novelty, and   *)
(* serendipity needs hits (recsys.py).                                        *)
RankingRelations ==
  Ran("ranking") /\ Got(out.of.precision) =>
    LET o == out.of
        d == input.table
    IN /\ \A m \in {"precision", "recall", "mrr", "map", "fbeta"} :
            o[m].value = Zero <=> o.hit_rate.value = Zero
       /\ DistinctItems(d) =>
            /\ o.ndcg.value = Zero => o.hit_rate.value = Zero
            /\ o.hit_rate.value = Zero /\ input.p.threshold = 0 => o.ndcg.value = Zero
       /\ Leq(o.mrr.value, o.hit_rate.value) /\ Leq(o.precision.value, o.hit_rate.value)
       /\ DistinctItems(d) => Leq(o.map.value, o.recall.value) /\ Leq(o.ndcg.value, One)
       /\ Got(o.popularity_bias) /\ o.popularity_bias.value = One => o.novelty.value = Zero
       /\ Got(o.serendipity) => Leq(o.serendipity.value, o.hit_rate.value)
       /\ Whole01(o.personalization.value) /\ Whole01(o.item_bias.value)
       /\ DistinctItems(d) /\ (input.s.mode = "none" \/ DistinctScores(d)) =>
            \A i \in {i \in DOMAIN d.rows : d.rows[i].rel > input.p.threshold} :
              LET better == Promoted(d, input.s, i)
                  rank   == CHOOSE r \in R!Rankings(better, input.s) : TRUE
                  now    == R!RankingOf(better, input.ref, input.s, input.p, rank)
              IN \A m \in Accuracies :
                   (m = "ndcg" => MostRelevant(d, i)) => Leq(o[m].value, now[m].value)
=============================================================================
