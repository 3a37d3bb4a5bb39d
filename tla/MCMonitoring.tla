---------------------------- MODULE MCMonitoring ----------------------------
(***************************************************************************)
(* Two periods, two extensions of which the second repeats a metric of the    *)
(* first, and plans with every kind of window.                               *)
(***************************************************************************)
EXTENDS Monitoring, TLC

CONSTANTS ops, owner

MCSchema(id, version) ==
  [type |-> "tabular", protected |-> {"x"},
   role |-> [timestamp_col |-> "ts", model_id_col |-> id, model_version_col |-> version,
             label_col |-> "y", prediction_col |-> "p"]]
Metric(name, feature) == [name |-> name, feature |-> feature, itemFeatures |-> {}]
PlanOf(id, version, feature, window, sampling, strict) ==
  [schema |-> MCSchema(id, version), model |-> 1, version |-> 1, window |-> window,
   sampling |-> sampling, metrics |-> {Metric("psi", feature), Metric("b", "")},
   strict |-> strict]

Full == [type |-> "full"]
LastN(n) == [type |-> "last_n", n |-> n]
Instants(a, b) == [type |-> "time_window", start |-> a, end |-> b]

MCPlans ==
  {PlanOf("model", "version", "x", Full, <<>>, TRUE),
   PlanOf("", "version", "x", LastN(1), <<>>, FALSE),
   PlanOf("model", "", "x", LastN(2), <<[n |-> <<1>>, frac |-> <<>>]>>, FALSE),
   PlanOf("", "release", "x", Instants(2, 3), <<[n |-> <<>>, frac |-> <<50>>]>>, FALSE),
   PlanOf("model", "", "absent", Full, <<>>, TRUE)}

MCModels == {[id |-> 1, version |-> 1], [id |-> 2, version |-> 2]}

MCSource == [kind |-> "csv", backend |-> "auto", exists |-> TRUE]
MCExtensions == << <<"a", "b">>, <<"b">> >>
MCCutoffs == <<1, 2>>
MCChannel == [kind |-> "email", to |-> {ops, owner}, html |-> FALSE]
MCSymmetry == Permutations({ops, owner})
=============================================================================
