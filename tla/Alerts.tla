------------------------------- MODULE Alerts -------------------------------
(***************************************************************************)
(* Pass/fail status of a metric value and threshold alert policies:         *)
(* compute_status() in ayn_ml/metrics/base.py and ThresholdPolicy in        *)
(* ayn_ml/core/alert.py.                                                     *)
(*                                                                          *)
(* A value is a number, NaN (a float that every comparison rejects), or     *)
(* something else (None or a string).  A threshold is a sequence: empty     *)
(* for None, one bound for a scalar, two for a [lo, hi] range.               *)
(***************************************************************************)
EXTENDS Integers, Sequences

Num(n) == [kind |-> "num", num |-> n]
NaN    == [kind |-> "nan", num |-> 0]
Other  == [kind |-> "other", num |-> 0]

Value == [kind : {"num"}, num : Int] \cup {NaN, Other}

AtMost(v, x)  == v.kind = "num" /\ v.num <= x
AtLeast(v, x) == v.kind = "num" /\ v.num >= x
Above(v, x)   == v.kind = "num" /\ v.num > x
Below(v, x)   == v.kind = "num" /\ v.num < x

Verdict(ok) == IF ok THEN "pass" ELSE "fail"

(* Whether value v passes the threshold of its spec; "none" for no threshold. *)
ComputeStatus(v, threshold, upper) ==
  CASE Len(threshold) = 0 -> "none"
    [] Len(threshold) = 2 -> Verdict(AtLeast(v, threshold[1]) /\ AtMost(v, threshold[2]))
    [] OTHER -> Verdict(IF upper THEN AtMost(v, threshold[1]) ELSE AtLeast(v, threshold[1]))

(* Mutant of Evaluate: a policy with a threshold fires on all but a pass. *)
EvaluateNotWithin(policy, result) ==
  IF policy.threshold = <<>>
  THEN result.status = "fail"
  ELSE IF policy.upper THEN ~AtMost(result.value, policy.threshold[1])
                       ELSE ~AtLeast(result.value, policy.threshold[1])

(* A policy compares the value with its own threshold, or, when it has      *)
(* none, repeats the status that the metric computed.                        *)
Evaluate(policy, result) ==
  IF policy.threshold = <<>>
  THEN result.status = "fail"
  ELSE IF policy.upper THEN Above(result.value, policy.threshold[1])
                       ELSE Below(result.value, policy.threshold[1])
=============================================================================
