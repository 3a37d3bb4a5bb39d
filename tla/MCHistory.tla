----------------------------- MODULE MCHistory -----------------------------
(* Four runs of one model: one with a profile, one whose values the file     *)
(* cannot hold as they are, one of another version with two specs of one key  *)
(* and no period, one with a naive period and a plan that only memory takes.  *)
EXTENDS History

Num(n) == [kind |-> "number", is |-> n]

PsiOf(feature, threshold) ==
  [name |-> "psi", feature |-> feature, type |-> "drift", threshold |-> threshold]

Auc == [name |-> "auc", feature |-> "", type |-> None, threshold |-> <<0, 1>>]

Result(spec, value, status) ==
  [spec |-> spec, value |-> value, status |-> status, effect |-> None]

WithProfile ==
  [run |-> "a", model |-> "m", version |-> "1", at |-> 1,
   start |-> [local |-> 10, offset |-> 0], counts |-> 100,
   plan |-> [name |-> "p", window |-> "last_n",
             specs |-> <<PsiOf("age", <<1>>), PsiOf("income", <<2>>), Auc>>],
   results |-> <<Result(PsiOf("age", <<1>>), Num(0), TRUE),
                 Result(PsiOf("income", <<2>>), Num(3), FALSE)>>,
   errors |-> <<"auc">>, alerts |-> <<"psi/income">>,
   profile |-> <<[col |-> "age", stat |-> "mean", value |-> Num(4)],
                 [col |-> "age", stat |-> "top", value |-> [kind |-> "text", is |-> 7]]>>]

WithOddValues ==
  [WithProfile EXCEPT !.run = "b", !.at = 2, !.start.local = 20, !.counts = 200,
     !.plan.specs = <<PsiOf("age", <<2>>), Auc>>, !.plan.name = "p2",
     !.results = <<Result(Auc, [kind |-> "nan", is |-> 0], FALSE),
                   Result(PsiOf("age", <<2>>), [kind |-> "numeral", is |-> 5], None)>>,
     !.errors = <<>>, !.alerts = <<"auc", "psi/age">>, !.profile = <<>>]

WithTwins ==
  [WithProfile EXCEPT !.run = "c", !.at = 3, !.version = "2", !.start = None,
     !.plan.specs = <<PsiOf("age", <<1>>), PsiOf("age", <<2>>)>>,
     !.results = <<Result(PsiOf("age", <<1>>), Num(2), FALSE),
                   Result(PsiOf("age", <<2>>), Num(2), TRUE)>>,
     !.profile = None]

NaivePeriod ==
  [WithProfile EXCEPT !.run = "d", !.at = 4, !.start = [local |-> 30, offset |-> None],
     !.profile = None]

TimeWindow ==
  [NaivePeriod EXCEPT !.run = "e", !.at = 5, !.start.local = 40,
     !.plan.window = "time_window"]

MCReports == {WithProfile, WithOddValues, WithTwins, NaivePeriod, TimeWindow}

MCQueries ==
  [model : {"m"}, version : {None, "1"}, metric : {None, "psi", "mean"},
   type : {None, "drift", "profile"}, limit : {None, -1, 0, 1, 2, 3}, metadata : BOOLEAN]
============================================================================
