------------------------------ MODULE MCRunner ------------------------------
(* A plan with one metric on two features, a second metric that needs no     *)
(* reference and one that is not registered; rules with an own threshold,    *)
(* with the metric's status, and with a policy that cannot handle NaN.       *)
EXTENDS Runner

MCPlan == <<
  [name |-> "psi", feature |-> "age", needsRef |-> TRUE, accepted |-> TRUE,
   threshold |-> <<1>>, upper |-> TRUE],
  [name |-> "psi", feature |-> "income", needsRef |-> TRUE, accepted |-> TRUE,
   threshold |-> <<0, 1>>, upper |-> TRUE],
  [name |-> "auc", feature |-> "", needsRef |-> FALSE, accepted |-> TRUE,
   threshold |-> <<2>>, upper |-> FALSE],
  [name |-> "f1", feature |-> "", needsRef |-> FALSE, accepted |-> TRUE,
   threshold |-> <<>>, upper |-> TRUE]>>

MCRules == <<
  [metric |-> "psi", channels |-> <<"mail">>,
   policy |-> [threshold |-> <<1>>, upper |-> TRUE, rejects |-> {}]],
  [metric |-> "psi", channels |-> <<"hook", "mail">>,
   policy |-> [threshold |-> <<>>, upper |-> TRUE, rejects |-> {}]],
  [metric |-> "auc", channels |-> <<"mail">>,
   policy |-> [threshold |-> <<2>>, upper |-> FALSE, rejects |-> {"nan"}]],
  [metric |-> "f1", channels |-> <<"hook">>,
   policy |-> [threshold |-> <<>>, upper |-> TRUE, rejects |-> {}]]>>

MCSinks  == <<"log">>
(* The numbers lie on the thresholds. *)
MCValues == {Num(1), Num(2), NaN}
=============================================================================
