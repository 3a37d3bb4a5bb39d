----------------------------- MODULE RunContract -----------------------------
(***************************************************************************)
(* What a run() promises (ayn_ml/runner.py and docs/architecture.md), with   *)
(* no loop, no thread pool and no order between the metrics: every spec of   *)
(* the plan is settled once; the report and its alerts are then a function   *)
(* of the outcomes, known all at once; only then is the report stored, and   *)
(* only after the store is anybody told; run() returns the report once       *)
(* whoever is owed it has been told, or raises having done none of this.      *)
(***************************************************************************)
EXTENDS Alerts

CONSTANTS Plan, Rules, Sinks, Values   \* as in Runner

Specs == DOMAIN Plan

Error   == [kind |-> "error", num |-> 0]
Pending == [kind |-> "pending", num |-> 0]

VARIABLES outcome,  \* outcome[i]: what became of spec i
          stage,    \* "computing", "concluded", "returned", "raised" or "died"
          report,   \* the outcomes that the report shows, <<>> for no report
          alerts,   \* the report's alerts: a set of [rule, spec]
          stored,   \* the store holds the report
          told      \* [rule, dest] that were told, rule 0 for the sinks

contractVars == <<outcome, stage, report, alerts, stored, told>>

Init ==
  /\ outcome = [i \in Specs |-> Pending]
  /\ stage = "computing"
  /\ report = <<>> /\ alerts = {}
  /\ stored = FALSE /\ told = {}

(* A metric returns or raises; the order is anybody's. *)
Settle(i) ==
  /\ stage = "computing" /\ outcome[i] = Pending
  /\ \E o \in Values \cup {Error} : outcome' = [outcome EXCEPT ![i] = o]
  /\ UNCHANGED <<stage, report, alerts, stored, told>>

Reading(i, v) == [value |-> v, status |-> ComputeStatus(v, Plan[i].threshold, Plan[i].upper)]

(* The alerts that outcomes o call for. *)
AlertsOf(o) ==
  {a \in [rule : DOMAIN Rules, spec : Specs] :
     /\ Rules[a.rule].metric = Plan[a.spec].name
     /\ o[a.spec] # Error
     /\ Evaluate(Rules[a.rule].policy, Reading(a.spec, o[a.spec]))}

Conclude ==
  /\ stage = "computing" /\ \A i \in Specs : outcome[i] # Pending
  /\ stage'  = "concluded"
  /\ report' = outcome
  /\ alerts' = AlertsOf(outcome)
  /\ UNCHANGED <<outcome, stored, told>>

Store ==
  /\ stage = "concluded" /\ told = {}
  /\ stored' = TRUE
  /\ UNCHANGED <<outcome, stage, report, alerts, told>>

ToSinks == {[rule |-> 0, dest |-> Sinks[s]] : s \in DOMAIN Sinks}

ToChannels(k) ==
  {[rule |-> k, dest |-> Rules[k].channels[c]] : c \in DOMAIN Rules[k].channels}

(* Whom run() must tell: every sink, and the channels of the rules that     *)
(* fired.                                                                     *)
Owed == ToSinks \cup UNION {ToChannels(a.rule) : a \in alerts}

(* Rules on the metric of an alert, and whom run() may tell. *)
Watching == {k \in DOMAIN Rules : \E a \in alerts : Rules[k].metric = Plan[a.spec].name}

Allowed == ToSinks \cup UNION {ToChannels(k) : k \in Watching}

Tell(n) ==
  /\ stage = "concluded" /\ n \in Allowed
  /\ told' = told \cup {n}
  /\ UNCHANGED <<outcome, stage, report, alerts, stored>>

Return ==
  /\ stage = "concluded" /\ Owed \subseteq told
  /\ stage' = "returned"
  /\ UNCHANGED <<outcome, report, alerts, stored, told>>

(* run() raises, or its process dies: the report, if any, is lost to the    *)
(* caller.                                                                    *)
Lose(end) ==
  /\ stage \in {"computing", "concluded"}
  /\ stage' = end
  /\ report' = <<>> /\ alerts' = {}
  /\ UNCHANGED <<outcome, stored, told>>

Raise == ~stored /\ told = {} /\ Lose("raised")
Die   == Lose("died")

Next == \/ \E i \in Specs : Settle(i)
        \/ Conclude \/ Store \/ Return \/ Raise \/ Die
        \/ \E n \in Allowed : Tell(n)

Spec == Init /\ [][Next]_contractVars
=============================================================================
