------------------------------- MODULE Runner -------------------------------
(***************************************************************************)
(* One call of Runner.run() (ayn_ml/runner.py): prepare the data, compute   *)
(* every metric of the plan, in turn or in a thread pool, evaluate the alert *)
(* rules, profile, then hand the report to the store, the sinks and the      *)
(* channels of the alerts.                                                   *)
(*                                                                          *)
(* A metric is abstracted to the value it returns or to the exception it    *)
(* raises, both chosen when it is computed.  Stores, sinks and channels are  *)
(* external: a write() of theirs returns or raises.                          *)
(***************************************************************************)
EXTENDS Alerts, Lists

CONSTANTS Plan,       \* MetricSpecs: [name, feature, needsRef, accepted, threshold, upper]
          Rules,      \* AlertRules: [metric, policy, channels], channels a sequence
          Sinks,      \* a sequence of sinks
          Registry,   \* names of the registered metrics
          Values,     \* values a metric may return
          NJobs,      \* worker counts that runs are made with; 1 is sequential
          HasStore,   \* store= is given
          Profiling   \* plan.enable_profiling

Specs == DOMAIN Plan

MetricSpec == [name : STRING, feature : STRING, needsRef : BOOLEAN,
               accepted : BOOLEAN, threshold : Seq(Int), upper : BOOLEAN]
AlertRule  == [metric : STRING, channels : Seq(STRING),
               policy : [threshold : Seq(Int), upper : BOOLEAN, rejects : SUBSET STRING]]

ASSUME RunnerAssumption ==
  /\ Plan  \in Seq(MetricSpec)
  /\ Rules \in Seq(AlertRule)
  /\ Sinks \in Seq(STRING)
  /\ Values \subseteq Value
  /\ NJobs \subseteq Nat \ {0}
  /\ HasStore \in BOOLEAN /\ Profiling \in BOOLEAN

VARIABLES nJobs,     \* the Runner's n_jobs
          hasRef,    \* a reference window is given
          pc,        \* the step of run()
          queue,     \* futures submitted and not started, in order
          active,    \* specs that workers are computing
          finished,  \* [spec, outcome] of the futures that are done
          pairs,     \* [spec, outcome] in the order in which run() gets them
          results, errors,  \* the report's lists
          fired,     \* the report's fired_alerts: [rule, spec]
          at,        \* position in the list that the current step walks
          item,      \* position in the list of its inner loop
          stored,    \* the store holds the report
          told,      \* sinks and channels written to, in order
          failures   \* store, sink and channel writes that raised

vars == <<nJobs, hasRef, pc, queue, active, finished, pairs, results, errors,
          fired, at, item, stored, told, failures>>
params  == <<nJobs, hasRef>>
pool    == <<queue, active, finished>>
report  == <<results, errors, fired>>
effects == <<stored, told, failures>>
loop    == <<at, item>>

Error == [kind |-> "error", num |-> 0]

(* The steps that follow the construction of the report. *)
Dispatching == {"store", "sinks", "channels", "returned"}

Pair   == [spec : Specs, outcome : Values \cup {Error}]
Result == [spec : Specs, value : Values, status : {"none", "pass", "fail"}]
Alert  == [rule : DOMAIN Rules, spec : Specs]
Notice == [rule : 0..Len(Rules), dest : STRING]   \* rule 0 for the sinks

TypeOK ==
  /\ nJobs \in NJobs /\ hasRef \in BOOLEAN
  /\ pc \in {"prepare", "submit", "metrics", "split", "alerts", "profile", "raised", "died"}
            \cup Dispatching
  /\ queue \in Seq(Specs)
  /\ active \subseteq Specs
  /\ finished \subseteq Pair
  /\ pairs \in Seq(Pair)
  /\ results \in Seq(Result)
  /\ errors \in Seq(Specs)
  /\ fired \in Seq(Alert)
  /\ at \in Nat \ {0} /\ item \in Nat \ {0}
  /\ stored \in BOOLEAN
  /\ told \in Seq(Notice)
  /\ failures \in Nat

Init ==
  /\ nJobs \in NJobs /\ hasRef \in BOOLEAN
  /\ pc = "prepare"
  /\ queue = <<>> /\ active = {} /\ finished = {} /\ pairs = <<>>
  /\ results = <<>> /\ errors = <<>> /\ fired = <<>>
  /\ at = 1 /\ item = 1
  /\ stored = FALSE /\ told = <<>> /\ failures = 0

----------------------------------------------------------------------------
(* Steps 1 to 6 resolve, window, sample, filter and validate the data, and  *)
(* raise SchemaError, InsufficientDataError or what a source raises.         *)
Prepare ==
  /\ pc = "prepare"
  /\ pc' \in {IF nJobs = 1 THEN "metrics" ELSE "submit", "raised"}
  /\ UNCHANGED <<params, pool, pairs, report, loop, effects>>

----------------------------------------------------------------------------
(* Step 7: the metric loop. *)

(* What _run_one() may return for a spec.  An unknown metric, a missing     *)
(* reference and a column of the wrong kind are errors without compute().    *)
Outcomes(i) ==
  IF /\ Plan[i].name \in Registry
     /\ Plan[i].needsRef => hasRef
     /\ Plan[i].accepted
  THEN Values \cup {Error}
  ELSE {Error}

(* n_jobs = 1: the specs in the order of the plan. *)
RunSequential ==
  /\ pc = "metrics" /\ nJobs = 1
  /\ Len(pairs) < Len(Plan)
  /\ LET i == Len(pairs) + 1 IN
     \E o \in Outcomes(i) : pairs' = Append(pairs, [spec |-> i, outcome |-> o])
  /\ UNCHANGED <<params, pc, pool, report, loop, effects>>

(* Mutant of Submit: one future too many. *)
SubmitPastEnd ==
  /\ pc = "submit"
  /\ IF at <= Len(Plan) + 1
     THEN queue' = Append(queue, at) /\ at' = at + 1 /\ UNCHANGED pc
     ELSE pc' = "metrics" /\ at' = 1 /\ UNCHANGED queue
  /\ UNCHANGED <<params, active, finished, pairs, report, item, effects>>

(* Mutant of Submit: one future per metric name, for whichever feature. *)
SubmitPerName ==
  /\ pc = "submit"
  /\ IF at <= Len(Plan)
     THEN /\ at' = at + 1 /\ UNCHANGED pc
          /\ queue' = IF \E i \in 1..(at - 1) : Plan[i].name = Plan[at].name
                      THEN queue ELSE Append(queue, at)
     ELSE pc' = "metrics" /\ at' = 1 /\ UNCHANGED queue
  /\ UNCHANGED <<params, active, finished, pairs, report, item, effects>>

(* The main thread submits one future per spec, while workers take them. *)
Submit ==
  /\ pc = "submit"
  /\ IF at <= Len(Plan)
     THEN queue' = Append(queue, at) /\ at' = at + 1 /\ UNCHANGED pc
     ELSE pc' = "metrics" /\ at' = 1 /\ UNCHANGED queue
  /\ UNCHANGED <<params, active, finished, pairs, report, item, effects>>

Start ==
  /\ queue # <<>> /\ Cardinality(active) < nJobs
  /\ pc \in {"submit", "metrics"}
  /\ active' = active \cup {Head(queue)}
  /\ queue'  = Tail(queue)
  /\ UNCHANGED <<params, pc, finished, pairs, report, loop, effects>>

(* Mutant of Finish: a worker that meets an exception is lost. *)
FinishOnlyResults(i) ==
  /\ i \in active /\ pc \in {"submit", "metrics"}
  /\ active' = active \ {i}
  /\ \E o \in Outcomes(i) :
       finished' = IF o = Error THEN finished ELSE finished \cup {[spec |-> i, outcome |-> o]}
  /\ UNCHANGED <<params, pc, queue, pairs, report, loop, effects>>

Finish(i) ==
  /\ i \in active /\ pc \in {"submit", "metrics"}
  /\ active' = active \ {i}
  /\ \E o \in Outcomes(i) : finished' = finished \cup {[spec |-> i, outcome |-> o]}
  /\ UNCHANGED <<params, pc, queue, pairs, report, loop, effects>>

(* Mutant of Collect: outcomes are zipped with the plan as they complete. *)
CollectZipped(f) ==
  /\ pc = "metrics" /\ f \in finished
  /\ finished' = finished \ {f}
  /\ pairs'    = Append(pairs, [f EXCEPT !.spec = Len(pairs) + 1])
  /\ UNCHANGED <<params, pc, queue, active, report, loop, effects>>

(* as_completed() yields the futures already done in any order, then each   *)
(* one as it completes.                                                       *)
Collect(f) ==
  /\ pc = "metrics" /\ f \in finished
  /\ finished' = finished \ {f}
  /\ pairs'    = Append(pairs, f)
  /\ UNCHANGED <<params, pc, queue, active, report, loop, effects>>

ResultOf(p) ==
  LET s == Plan[p.spec] IN
  [spec |-> p.spec, value |-> p.outcome,
   status |-> ComputeStatus(p.outcome, s.threshold, s.upper)]

(* Mutant of Succeeded: a NaN result is taken for none. *)
SucceededNotNaN(p) == p.outcome.kind = "num"

Succeeded(p) == p.outcome # Error
Failed(p)    == p.outcome = Error

(* The list of pairs is complete once every future has been yielded. *)
AllCollected ==
  /\ pc = "metrics" /\ Len(pairs) = Len(Plan)
  /\ pc' = "split"
  /\ UNCHANGED <<params, pool, pairs, report, loop, effects>>

(* The pairs are split into results and errors, in their order. *)
Split ==
  /\ pc = "split"
  /\ IF at <= Len(pairs)
     THEN /\ results' = IF Succeeded(pairs[at])
                        THEN Append(results, ResultOf(pairs[at])) ELSE results
          /\ errors' = IF Failed(pairs[at])
                       THEN Append(errors, pairs[at].spec) ELSE errors
          /\ at' = at + 1 /\ UNCHANGED pc
     ELSE pc' = "alerts" /\ at' = 1 /\ UNCHANGED <<results, errors>>
  /\ UNCHANGED <<params, pool, pairs, fired, item, effects>>

----------------------------------------------------------------------------
(* Step 8: alert evaluation, each rule on each result of its metric. *)

(* Mutant of Matches: one result per metric name. *)
MatchesLast(k, r) ==
  /\ Plan[r.spec].name = Rules[k].metric
  /\ \E i \in DOMAIN results :
       /\ results[i] = r
       /\ \A j \in DOMAIN results :
            Plan[results[j].spec].name = Rules[k].metric => j <= i

(* Result r carries the metric name that rule k watches. *)
Matches(k, r) == Plan[r.spec].name = Rules[k].metric

(* A policy of the user's may raise on some kinds of values. *)
Rejects(k, r) == Matches(k, r) /\ r.value.kind \in Rules[k].policy.rejects

Fires(k, r) == Matches(k, r) /\ Evaluate(Rules[k].policy, r)

(* One turn of the two loops: rule number at on result number item.  What a *)
(* policy raises is not caught: run() is over.                                *)
EvaluateRule ==
  /\ pc = "alerts" /\ at <= Len(Rules)
  /\ LET r == results[item] IN
     \/ /\ item > Len(results)
        /\ at' = at + 1 /\ item' = 1 /\ UNCHANGED <<pc, fired>>
     \/ /\ item <= Len(results) /\ Rejects(at, r)
        /\ pc' = "raised" /\ UNCHANGED <<fired, loop>>
     \/ /\ item <= Len(results) /\ ~Rejects(at, r)
        /\ fired' = IF Fires(at, r) THEN Append(fired, [rule |-> at, spec |-> r.spec]) ELSE fired
        /\ item' = item + 1 /\ UNCHANGED <<pc, at>>
  /\ UNCHANGED <<params, pool, pairs, results, errors, effects>>

AfterAlerts ==
  /\ pc = "alerts" /\ at > Len(Rules)
  /\ pc' = "profile" /\ at' = 1
  /\ UNCHANGED <<params, pool, pairs, report, item, effects>>

(* Step 9: profiling, whose exceptions are not caught either. *)
Profile ==
  /\ pc = "profile"
  /\ pc' \in IF Profiling THEN {"store", "raised"} ELSE {"store"}
  /\ UNCHANGED <<params, pool, pairs, report, loop, effects>>

----------------------------------------------------------------------------
(* Steps 10 to 12: dispatch.  An exception is logged and the run goes on. *)

(* A write() to destination d: it returns or it raises. *)
Tell(d) ==
  /\ told' = Append(told, d)
  /\ failures' \in {failures, failures + 1}

(* Mutant of StoreWrite: what the store raises is not caught. *)
StoreWriteUncaught ==
  /\ pc = "store"
  /\ \/ stored' = TRUE /\ pc' = "sinks" /\ UNCHANGED failures
     \/ failures' = failures + 1 /\ pc' = "raised" /\ UNCHANGED stored
  /\ UNCHANGED <<params, pool, pairs, report, loop, told>>

StoreWrite ==
  /\ pc = "store"
  /\ IF HasStore
     THEN \/ stored' = TRUE /\ UNCHANGED failures
          \/ failures' = failures + 1 /\ UNCHANGED stored
     ELSE UNCHANGED <<stored, failures>>
  /\ pc' = "sinks"
  /\ UNCHANGED <<params, pool, pairs, report, loop, told>>

SinkWrite ==
  /\ pc = "sinks"
  /\ IF at <= Len(Sinks)
     THEN Tell([rule |-> 0, dest |-> Sinks[at]]) /\ at' = at + 1 /\ UNCHANGED pc
     ELSE pc' = "channels" /\ at' = 1 /\ UNCHANGED <<told, failures>>
  /\ UNCHANGED <<params, pool, pairs, report, item, stored>>

FiredMetricNames == {Plan[fired[j].spec].name : j \in DOMAIN fired}

(* Mutant of Notified: rules in a dict by metric name, the last one wins. *)
NotifiedLast(k) ==
  /\ Rules[k].metric \in FiredMetricNames
  /\ \A j \in DOMAIN Rules : Rules[j].metric = Rules[k].metric => j <= k

(* Whose channels are written to: every rule whose metric name is among the *)
(* fired alerts'.                                                             *)
Notified(k) == Rules[k].metric \in FiredMetricNames

(* Channel number item of rule number at. *)
ChannelWrite ==
  /\ pc = "channels"
  /\ \/ /\ at <= Len(Rules) /\ Notified(at) /\ item <= Len(Rules[at].channels)
        /\ Tell([rule |-> at, dest |-> Rules[at].channels[item]])
        /\ item' = item + 1 /\ UNCHANGED <<pc, at>>
     \/ /\ at <= Len(Rules) /\ (Notified(at) => item > Len(Rules[at].channels))
        /\ at' = at + 1 /\ item' = 1 /\ UNCHANGED <<pc, told, failures>>
     \/ /\ at > Len(Rules)
        /\ pc' = "returned" /\ UNCHANGED <<told, failures, loop>>
  /\ UNCHANGED <<params, pool, pairs, report, stored>>

(* The process may die anywhere before run() is over. *)
Die ==
  /\ pc \notin {"returned", "raised", "died"}
  /\ pc' = "died"
  /\ UNCHANGED <<params, pool, pairs, report, loop, effects>>

Main == \/ Prepare \/ RunSequential \/ Submit
        \/ \E f \in finished : Collect(f)
        \/ AllCollected \/ Split \/ EvaluateRule \/ AfterAlerts \/ Profile
        \/ StoreWrite \/ SinkWrite \/ ChannelWrite

Worker == Start \/ \E i \in active : Finish(i)

Next == Main \/ Worker \/ Die

Spec == Init /\ [][Next]_vars

(* The main thread and the pool's workers keep running; dying is not owed. *)
FairSpec == Spec /\ WF_vars(Main) /\ WF_vars(Worker)

----------------------------------------------------------------------------
(* Properties. *)

Reported == pc \in {"alerts", "profile"} \cup Dispatching

SpecsOf(q) == [k \in DOMAIN q |-> q[k].spec]

(* Whatever the number of workers, and whichever metrics fail, every spec of *)
(* the plan is in the report once: as a result or as an error.               *)
EachSpecOnce ==
  Reported => \A i \in Specs : Count(SpecsOf(results), i) + Count(errors, i) = 1

(* Where spec i is: in the queue, with a worker, done, collected. *)
Queued(i)    == Count(queue, i)
Running(i)   == Cardinality(active \cap {i})
Done(i)      == Cardinality({f \in finished : f.spec = i})
Collected(i) == Count(SpecsOf(pairs), i)
Places(i)    == Queued(i) + Running(i) + Done(i) + Collected(i)

(* While the pool runs, no spec is lost and none is computed twice: each one *)
(* submitted is in the queue, with a worker, done, or collected.             *)
NoSpecLost ==
  pc = "metrics" /\ nJobs > 1 => \A i \in Specs : Places(i) = 1

(* fired_alerts is exact, and independent of the order in which the metrics *)
(* completed: a rule fired for a spec if and only if that spec has a result, *)
(* under the rule's metric name, on which its policy holds; and once only.   *)
AlertsExact ==
  pc \in {"profile"} \cup Dispatching =>
    \A k \in DOMAIN Rules, i \in Specs :
      Count(fired, [rule |-> k, spec |-> i]) =
        IF /\ Plan[i].name = Rules[k].metric
           /\ \E j \in DOMAIN results :
                results[j].spec = i /\ Evaluate(Rules[k].policy, results[j])
        THEN 1 ELSE 0

Alerted(k, i) == \E j \in DOMAIN fired : fired[j] = [rule |-> k, spec |-> i]

(* ThresholdPolicy against compute_status() (core/alert.py, metrics/base.py).*)
(* A policy without threshold alerts exactly when the metric failed.  One   *)
(* that repeats the scalar threshold and direction of the spec does so too,  *)
(* at the boundary as elsewhere, except on what is no number: NaN fails      *)
(* every comparison, so the metric has failed and the policy stays silent.   *)
AlertsFollowStatus ==
  pc \in {"profile"} \cup Dispatching =>
    \A k \in DOMAIN Rules, j \in DOMAIN results :
      LET r == results[j]
          s == Plan[r.spec]
          p == Rules[k].policy
      IN s.name = Rules[k].metric =>
           /\ p.threshold = <<>> => (Alerted(k, r.spec) <=> r.status = "fail")
           /\ p.threshold = s.threshold /\ p.upper = s.upper /\ Len(s.threshold) = 1 =>
                (Alerted(k, r.spec) <=> r.status = "fail" /\ r.value.kind = "num")

(* A run() that raises has stored nothing and told nobody: every exception  *)
(* that leaves it comes before the first effect.                              *)
RaisedTellsNobody == pc = "raised" => ~stored /\ told = <<>>

(* The store is written before any sink or channel is told, so whoever is   *)
(* told can look the report up unless the store itself failed.               *)
StoredBeforeTold == HasStore /\ told # <<>> => stored \/ failures > 0

(* Every channel of a rule that fired is written to, once, whatever the     *)
(* other channels, the sinks and the store did, and however many features    *)
(* the rule fired for.                                                        *)
FiredRulesNotify ==
  pc = "returned" =>
    \A j \in DOMAIN fired :
      LET k == fired[j].rule IN
      \A d \in {Rules[k].channels[c] : c \in DOMAIN Rules[k].channels} :
        Count(told, [rule |-> k, dest |-> d]) = Count(Rules[k].channels, d)

(* Channels receive the report only when their alert fires                  *)
(* (docs/architecture.md; AlertRule: "If the policy fires, every channel in  *)
(* channels receives write(report)").                                         *)
ChannelsOnlyOfFiredRules ==
  \A x \in DOMAIN told :
    told[x].rule > 0 => \E j \in DOMAIN fired : fired[j].rule = told[x].rule

(* run() ends. *)
RunEnds == <>(pc \in {"returned", "raised", "died"})

(* Once the report exists, run() returns it, whatever store, sinks and      *)
(* channels raise.                                                            *)
ReportIsReturned == pc = "store" ~> pc \in {"returned", "died"}

----------------------------------------------------------------------------
(* The contract that a run implements. *)

(* What became of spec i, whichever hands the pair is in. *)
OutcomesOf(i) ==
  {p.outcome : p \in {q \in finished \cup {pairs[x] : x \in DOMAIN pairs} : q.spec = i}}

Only(S) == CHOOSE x \in S : TRUE

OutcomeOf(i) ==
  IF OutcomesOf(i) = {} THEN [kind |-> "pending", num |-> 0] ELSE Only(OutcomesOf(i))

(* What the report shows of spec i. *)
ShownOf(i) ==
  IF \E j \in DOMAIN results : results[j].spec = i
  THEN results[CHOOSE j \in DOMAIN results : results[j].spec = i].value
  ELSE Error

Concluded == pc \in {"profile"} \cup Dispatching

Stage ==
  IF pc \in {"returned", "raised", "died"} THEN pc
  ELSE IF Concluded THEN "concluded" ELSE "computing"

Contract == INSTANCE RunContract WITH
  outcome <- [i \in Specs |-> OutcomeOf(i)],
  stage   <- Stage,
  report  <- IF Concluded THEN [i \in Specs |-> ShownOf(i)] ELSE <<>>,
  alerts  <- IF Concluded THEN {fired[j] : j \in DOMAIN fired} ELSE {},
  told    <- {told[x] : x \in DOMAIN told}

(* With any number of workers a run does what the contract says: the thread *)
(* pool, the loops and the order of completion do not show in the report, in *)
(* the alerts, or in who is told.                                             *)
ImplementsContract == Contract!Spec
=============================================================================
