---------------------------- MODULE RunnerProofs ----------------------------
(***************************************************************************)
(* Theorems about Runner and Alerts: the order of a run's effects, how a     *)
(* policy with its own threshold relates to the status of a metric, and what *)
(* a run produces: its types, the fate of every spec of the plan, the fired   *)
(* alerts, and the channels notified.                                         *)
(***************************************************************************)
EXTENDS Runner, ListTheorems

(* The steps at which nothing outside run() has been touched. *)
Quiet == {"prepare", "submit", "metrics", "split", "alerts", "profile", "store",
          "raised"}

(* Up to the store write there is no effect; after it, the store has the    *)
(* report or has failed.  failures only ever grows, hence its type.          *)
EffectInv ==
  /\ failures \in Nat
  /\ pc \in Quiet => ~stored /\ told = <<>>
  /\ pc \notin Quiet /\ HasStore /\ told # <<>> => stored \/ failures > 0
  /\ pc \in {"sinks", "channels"} /\ HasStore => stored \/ failures > 0

(* EffectInv is inductive. *)
LEMMA EffectStep ==
  ASSUME EffectInv, [Next]_vars
  PROVE  EffectInv'
<1> USE DEF EffectInv, Quiet
<1>1. CASE UNCHANGED vars
  BY <1>1 DEF vars
<1>2. CASE Prepare
  BY <1>2 DEF Prepare, effects
<1>3. CASE RunSequential
  BY <1>3 DEF RunSequential, effects
<1>4. CASE Submit
  BY <1>4 DEF Submit, effects
<1>5. CASE Start
  BY <1>5 DEF Start, effects
<1>6. ASSUME NEW i \in active, Finish(i)
      PROVE  EffectInv'
  BY <1>6 DEF Finish, effects
<1>7. ASSUME NEW f \in finished, Collect(f)
      PROVE  EffectInv'
  BY <1>7 DEF Collect, effects
<1>8. CASE AllCollected \/ Split
  BY <1>8 DEF AllCollected, Split, effects
<1>9. CASE EvaluateRule
  BY <1>9 DEF EvaluateRule, effects
<1>10. CASE AfterAlerts
  BY <1>10 DEF AfterAlerts, effects
<1>11. CASE Profile
  BY <1>11 DEF Profile, effects
<1>12. CASE StoreWrite
  BY <1>12 DEF StoreWrite
<1>13. CASE SinkWrite
  BY <1>13 DEF SinkWrite, Tell
<1>14. CASE ChannelWrite
  BY <1>14 DEF ChannelWrite, Tell
<1>15. CASE Die
  BY <1>15 DEF Die, effects
<1> QED
  BY <1>1, <1>2, <1>3, <1>4, <1>5, <1>6, <1>7, <1>8, <1>9, <1>10, <1>11,
     <1>12, <1>13, <1>14, <1>15 DEF Next, Main, Worker

(* The effects of a run come in order, in every reachable state. *)
THEOREM EffectInvariance == Spec => []EffectInv
<1>1. Init => EffectInv
  BY DEF Init, EffectInv, Quiet
<1>2. EffectInv /\ [Next]_vars => EffectInv'
  BY EffectStep
<1> QED
  BY <1>1, <1>2, PTL DEF Spec

(* Whatever raises out of run(), nothing was stored and nobody told. *)
THEOREM RaisedIsSilent == Spec => []RaisedTellsNobody
<1>1. EffectInv => RaisedTellsNobody
  BY DEF EffectInv, Quiet, RaisedTellsNobody
<1> QED
  BY <1>1, EffectInvariance, PTL

(* Whoever is told of a run finds it in the store, unless the store failed. *)
THEOREM StoreGoesFirst == Spec => []StoredBeforeTold
<1>1. EffectInv => StoredBeforeTold
  BY DEF EffectInv, Quiet, StoredBeforeTold
<1> QED
  BY <1>1, EffectInvariance, PTL

----------------------------------------------------------------------------
(* Policies and statuses. *)

(* On numbers, a policy whose scalar threshold and direction are the spec's *)
(* fires exactly when the metric's own status is a failure: the policy that  *)
(* delegates to the status and the one that repeats the threshold agree.     *)
THEOREM PoliciesAgreeOnNumbers ==
  ASSUME NEW n \in Int, NEW x \in Int, NEW u \in BOOLEAN
  PROVE  Evaluate([threshold |-> <<x>>, upper |-> u], [value |-> Num(n)])
           <=> ComputeStatus(Num(n), <<x>>, u) = "fail"
  BY DEF Evaluate, ComputeStatus, Verdict, AtMost, AtLeast, Above, Below, Num

(* On NaN they do not: every threshold marks the metric as failed, so that  *)
(* the policy that delegates fires, and no policy with a threshold of its    *)
(* own ever does.                                                             *)
THEOREM NaNFailsSilently ==
  ASSUME NEW t \in Seq(Int), Len(t) \in {1, 2}, NEW x \in Int, NEW u \in BOOLEAN
  PROVE  /\ ComputeStatus(NaN, t, u) = "fail"
         /\ ~Evaluate([threshold |-> <<x>>, upper |-> u],
                      [value |-> NaN, status |-> ComputeStatus(NaN, t, u)])
         /\ Evaluate([threshold |-> <<>>, upper |-> u],
                     [value |-> NaN, status |-> ComputeStatus(NaN, t, u)])
<1>1. ComputeStatus(NaN, t, u) = "fail"
  <2>1. CASE Len(t) = 1
    BY <2>1 DEF ComputeStatus, Verdict, AtMost, AtLeast, NaN
  <2>2. CASE Len(t) = 2
    BY <2>2 DEF ComputeStatus, Verdict, AtMost, AtLeast, NaN
  <2> QED
    BY <2>1, <2>2
<1>2. ~Evaluate([threshold |-> <<x>>, upper |-> u],
                [value |-> NaN, status |-> "fail"])
  BY DEF Evaluate, Above, Below, NaN
<1>3. Evaluate([threshold |-> <<>>, upper |-> u],
               [value |-> NaN, status |-> "fail"])
  BY DEF Evaluate
<1> QED
  BY <1>1, <1>2, <1>3


(***************************************************************************)
(* Types.                                                                   *)
(***************************************************************************)

LEMMA OutcomeTypes == \A i \in Specs : Outcomes(i) \subseteq Values \cup {Error}
  BY DEF Outcomes

LEMMA ResultTypes ==
  ASSUME NEW p \in Pair, Succeeded(p)
  PROVE  ResultOf(p) \in Result
<1>1. ComputeStatus(p.outcome, Plan[p.spec].threshold, Plan[p.spec].upper)
        \in {"none", "pass", "fail"}
  BY DEF ComputeStatus, Verdict
<1> QED
  BY <1>1 DEF ResultOf, Succeeded, Pair, Result

LEMMA AppendTypes ==
  ASSUME NEW S, NEW q \in Seq(S), NEW x \in S
  PROVE  Append(q, x) \in Seq(S)
  OBVIOUS

LEMMA SpecsAreIndices == Specs = 1..Len(Plan) /\ Len(Plan) \in Nat
  BY RunnerAssumption DEF Specs

LEMMA RuleTypes ==
  ASSUME NEW k \in DOMAIN Rules
  PROVE  Rules[k].metric \in STRING /\ Rules[k].channels \in Seq(STRING)
<1>1. Rules[k] \in AlertRule
  BY RunnerAssumption
<1> QED
  BY <1>1 DEF AlertRule

(* TypeOK is inductive. *)
LEMMA TypeStep ==
  ASSUME TypeOK, [Next]_vars
  PROVE  TypeOK'
<1> USE DEF TypeOK, Dispatching
<1>1. CASE UNCHANGED vars
  BY <1>1 DEF vars
<1>2. CASE Prepare
  BY <1>2 DEF Prepare, params, pool, report, loop, effects
<1>3. CASE RunSequential
  <2>1. Len(pairs) + 1 \in Specs
    BY <1>3, SpecsAreIndices DEF RunSequential
  <2>2. PICK o \in Values \cup {Error} :
          pairs' = Append(pairs, [spec |-> Len(pairs) + 1, outcome |-> o])
    BY <1>3, <2>1, OutcomeTypes DEF RunSequential
  <2>3. [spec |-> Len(pairs) + 1, outcome |-> o] \in Pair
    BY <1>3, SpecsAreIndices DEF RunSequential, Pair
  <2>4. pairs' \in Seq(Pair)
    BY <2>2, <2>3, AppendTypes
  <2> QED
    BY <1>3, <2>4 DEF RunSequential, params, pool, report, loop, effects
<1>4. CASE Submit
  <2>1. at' \in Nat \ {0} /\ pc' \in {"submit", "metrics"}
    BY <1>4 DEF Submit
  <2>2. at <= Len(Plan) => Append(queue, at) \in Seq(Specs)
    BY SpecsAreIndices, AppendTypes
  <2> QED
    BY <1>4, <2>2, <2>1 DEF Submit, params, report, effects
<1>5. CASE Start
  BY <1>5 DEF Start, params, report, loop, effects
<1>6. ASSUME NEW i \in active, Finish(i)
      PROVE  TypeOK'
  BY <1>6, OutcomeTypes DEF Finish, Pair, params, report, loop, effects
<1>7. ASSUME NEW f \in finished, Collect(f)
      PROVE  TypeOK'
  BY <1>7, AppendTypes DEF Collect, params, report, loop, effects
<1>8. CASE AllCollected
  BY <1>8 DEF AllCollected, params, pool, report, loop, effects
<1>9. CASE Split
  <2>1. ASSUME at <= Len(pairs)
        PROVE  /\ Append(errors, pairs[at].spec) \in Seq(Specs)
               /\ Succeeded(pairs[at]) => Append(results, ResultOf(pairs[at])) \in Seq(Result)
    <3>1. pairs[at] \in Pair
      BY <2>1
    <3>2. pairs[at].spec \in Specs
      BY <3>1 DEF Pair
    <3> QED
      BY <3>1, <3>2, ResultTypes, AppendTypes
  <2>2. results' \in Seq(Result) /\ errors' \in Seq(Specs)
    BY <1>9, <2>1 DEF Split
  <2>3. pc' \in {"split", "alerts"} /\ at' \in Nat \ {0}
    BY <1>9 DEF Split
  <2> QED
    BY <1>9, <2>2, <2>3 DEF Split, params, pool, effects
<1>10. CASE EvaluateRule
  <2>1. ASSUME item <= Len(results)
        PROVE  Append(fired, [rule |-> at, spec |-> results[item].spec]) \in Seq(Alert)
    <3>1. results[item] \in Result
      BY <2>1
    <3>2. [rule |-> at, spec |-> results[item].spec] \in Alert
      BY <1>10, <3>1, RunnerAssumption DEF EvaluateRule, Result, Alert
    <3> QED
      BY <3>2, AppendTypes
  <2>2. fired' \in Seq(Alert)
    BY <1>10, <2>1 DEF EvaluateRule
  <2>3. pc' \in {"alerts", "raised"} /\ at' \in Nat \ {0} /\ item' \in Nat \ {0}
    <3>1. pc' \in {"alerts", "raised"} /\ at' \in {at, at + 1} /\ item' \in {item, item + 1, 1}
      BY <1>10 DEF EvaluateRule, loop
    <3> QED
      BY <3>1
  <2> QED
    BY <1>10, <2>2, <2>3 DEF EvaluateRule, params, pool, effects
<1>11. CASE AfterAlerts
  BY <1>11 DEF AfterAlerts, params, pool, report, effects
<1>12. CASE Profile
  BY <1>12 DEF Profile, params, pool, report, loop, effects
<1>13. CASE StoreWrite
  <2>1. stored' \in BOOLEAN
    BY <1>13 DEF StoreWrite
  <2>2. failures' \in Nat /\ pc' = "sinks"
    BY <1>13 DEF StoreWrite
  <2> QED
    BY <1>13, <2>1, <2>2 DEF StoreWrite, params, pool, report, loop
<1>14. CASE SinkWrite
  <2>1. ASSUME at <= Len(Sinks)
        PROVE  Append(told, [rule |-> 0, dest |-> Sinks[at]]) \in Seq(Notice)
    <3>1. [rule |-> 0, dest |-> Sinks[at]] \in Notice
      BY <2>1, RunnerAssumption DEF Notice
    <3> QED
      BY <3>1, AppendTypes
  <2>2. told' \in Seq(Notice)
    BY <1>14, <2>1 DEF SinkWrite, Tell
  <2>3. failures' \in Nat
    BY <1>14 DEF SinkWrite, Tell
  <2>4. pc' \in {"sinks", "channels"} /\ at' \in Nat \ {0}
    BY <1>14 DEF SinkWrite
  <2> QED
    BY <1>14, <2>2, <2>4, <2>3 DEF SinkWrite, params, pool, report
<1>15. CASE ChannelWrite
  <2>1. ASSUME at <= Len(Rules), item <= Len(Rules[at].channels)
        PROVE  Append(told, [rule |-> at, dest |-> Rules[at].channels[item]]) \in Seq(Notice)
    <3>1. at \in DOMAIN Rules /\ Rules[at].channels \in Seq(STRING)
      BY <2>1, RuleTypes, RunnerAssumption
    <3>2. [rule |-> at, dest |-> Rules[at].channels[item]] \in Notice
      BY <2>1, <3>1, RunnerAssumption DEF Notice
    <3> QED
      BY <3>2, AppendTypes
  <2>2. told' \in Seq(Notice)
    BY <1>15, <2>1 DEF ChannelWrite, Tell
  <2>3. failures' \in Nat
    BY <1>15 DEF ChannelWrite, Tell
  <2>4. pc' \in {"channels", "returned"} /\ at' \in Nat \ {0} /\ item' \in Nat \ {0}
    <3>1. pc' \in {"channels", "returned"} /\ at' \in {at, at + 1} /\ item' \in {item, item + 1, 1}
      BY <1>15 DEF ChannelWrite, loop
    <3> QED
      BY <3>1
  <2> QED
    BY <1>15, <2>2, <2>4, <2>3 DEF ChannelWrite, params, pool, report
<1>16. CASE Die
  BY <1>16 DEF Die, params, pool, report, loop, effects
<1> QED
  BY <1>1, <1>2, <1>3, <1>4, <1>5, <1>6, <1>7, <1>8, <1>9, <1>10, <1>11,
     <1>12, <1>13, <1>14, <1>15, <1>16 DEF Next, Main, Worker

(* Every variable keeps its type, whatever the plan, the rules, the number  *)
(* of workers and what the metrics return.                                    *)
THEOREM RunnerTypes == Spec => []TypeOK
<1>1. Init => TypeOK
  <2>1. \A S : <<>> \in Seq(S)
    OBVIOUS
  <2> SUFFICES ASSUME Init PROVE TypeOK
    OBVIOUS
  <2>2. /\ queue \in Seq(Specs) /\ pairs \in Seq(Pair) /\ results \in Seq(Result)
        /\ errors \in Seq(Specs) /\ fired \in Seq(Alert) /\ told \in Seq(Notice)
    BY <2>1 DEF Init
  <2>3. nJobs \in NJobs /\ hasRef \in BOOLEAN /\ pc = "prepare" /\ stored \in BOOLEAN
    BY DEF Init
  <2>4. /\ active \subseteq Specs /\ finished \subseteq Pair
        /\ at \in Nat \ {0} /\ item \in Nat \ {0} /\ failures \in Nat
    BY DEF Init
  <2> QED
    BY <2>2, <2>3, <2>4 DEF TypeOK
<1>2. TypeOK /\ [Next]_vars => TypeOK'
  BY TypeStep
<1> QED
  BY <1>1, <1>2, PTL DEF Spec

(***************************************************************************)
(* Every spec of the plan is reported once.                                 *)
(***************************************************************************)

Idle == queue = <<>> /\ active = {} /\ finished = {}

(* The specs that run() has handed out so far. *)
Issued == IF nJobs = 1 THEN 1..Len(pairs)
          ELSE IF pc = "metrics" THEN Specs ELSE 1..(at - 1)

(* Each spec that was handed out is in one place, and no other is anywhere. *)
PoolInv ==
  /\ IsFiniteSet(finished)
  /\ nJobs = 1 => Idle /\ pc # "submit"
  /\ pc = "prepare" => pairs = <<>> /\ at = 1
  /\ pc = "submit" => at <= Len(Plan) + 1
  /\ pc \in {"prepare", "submit", "metrics"} =>
       /\ results = <<>> /\ errors = <<>> /\ fired = <<>> /\ item = 1
       /\ \A i \in Specs : Places(i) = IF i \in Issued THEN 1 ELSE 0
  /\ pc = "metrics" => at = 1

LEMMA SpecsOfType ==
  ASSUME NEW R, \A r \in R : r.spec \in Specs, NEW q \in Seq(R)
  PROVE  /\ SpecsOf(q) \in Seq(Specs) /\ Len(SpecsOf(q)) = Len(q)
         /\ \A r \in R : SpecsOf(Append(q, r)) = Append(SpecsOf(q), r.spec)
<1>1. /\ DOMAIN SpecsOf(q) = 1..Len(q) /\ Len(q) \in Nat
      /\ \A k \in 1..Len(q) : SpecsOf(q)[k] = q[k].spec /\ q[k] \in R
  BY DEF SpecsOf
<1>2. SpecsOf(q) \in Seq(Specs) /\ Len(SpecsOf(q)) = Len(q)
  BY <1>1 DEF SpecsOf
<1>3. ASSUME NEW r \in R PROVE SpecsOf(Append(q, r)) = Append(SpecsOf(q), r.spec)
  <2>1. SpecsOf(q) \in Seq(Specs) /\ r.spec \in Specs /\ Append(q, r) \in Seq(R)
    BY <1>2
  <2>2. /\ DOMAIN SpecsOf(Append(q, r)) = 1..(Len(q) + 1)
        /\ \A k \in 1..(Len(q) + 1) : SpecsOf(Append(q, r))[k] = Append(q, r)[k].spec
    BY <1>1 DEF SpecsOf
  <2>3. /\ DOMAIN Append(SpecsOf(q), r.spec) = 1..(Len(q) + 1)
        /\ \A k \in 1..(Len(q) + 1) : Append(SpecsOf(q), r.spec)[k] = Append(q, r)[k].spec
    BY <1>1, <1>2, <2>1
  <2>4. SpecsOf(Append(q, r)) = [k \in 1..(Len(q) + 1) |-> Append(q, r)[k].spec]
    BY <2>2 DEF SpecsOf
  <2>5. Append(SpecsOf(q), r.spec) = [k \in 1..(Len(q) + 1) |-> Append(q, r)[k].spec]
    BY <1>1, <1>2, <2>1, <2>3
  <2> QED
    BY <2>4, <2>5
<1> QED
  BY <1>2, <1>3

LEMMA PairSpecs == (\A p \in Pair : p.spec \in Specs) /\ (\A r \in Result : r.spec \in Specs)
  BY DEF Pair, Result

LEMMA OneOrNone ==
  ASSUME NEW S, NEW i
  PROVE  Cardinality(S \cap {i}) = IF i \in S THEN 1 ELSE 0
<1>1. S \cap {i} = IF i \in S THEN {i} ELSE {}
  OBVIOUS
<1> QED
  BY <1>1, FS_Singleton, FS_EmptySet

LEMMA PlaceTypes ==
  ASSUME TypeOK, IsFiniteSet(finished), NEW i
  PROVE  /\ Queued(i) \in Nat /\ Done(i) \in Nat /\ Collected(i) \in Nat
         /\ Running(i) = IF i \in active THEN 1 ELSE 0
<1>1. Queued(i) \in Nat
  BY CountIsUpto DEF TypeOK, Queued
<1>2. Collected(i) \in Nat
  BY CountIsUpto, SpecsOfType, PairSpecs DEF TypeOK, Collected
<1>3. Done(i) \in Nat
  <2>1. {f \in finished : f.spec = i} \in SUBSET finished
    OBVIOUS
  <2> QED
    BY <2>1, FS_Subset, FS_CardinalityType DEF Done
<1>4. Running(i) = IF i \in active THEN 1 ELSE 0
  BY OneOrNone DEF Running
<1> QED
  BY <1>1, <1>2, <1>3, <1>4

(* What one more pair, or one more finished future, changes. *)
LEMMA CollectedNext ==
  ASSUME TypeOK, NEW p \in Pair, pairs' = Append(pairs, p), NEW i
  PROVE  Collected(i)' = Collected(i) + (IF p.spec = i THEN 1 ELSE 0)
<1>1. SpecsOf(pairs) \in Seq(Specs) /\ SpecsOf(Append(pairs, p)) = Append(SpecsOf(pairs), p.spec)
  BY SpecsOfType, PairSpecs DEF TypeOK
<1>2. p.spec \in Specs
  BY PairSpecs
<1>3. Count(Append(SpecsOf(pairs), p.spec), i)
        = Count(SpecsOf(pairs), i) + (IF p.spec = i THEN 1 ELSE 0)
  BY <1>1, <1>2, CountAppend
<1> QED
  BY <1>1, <1>3 DEF Collected, SpecsOf

LEMMA DoneNext ==
  ASSUME IsFiniteSet(finished), NEW f, f \notin finished, NEW i,
         finished' = finished \cup {f}
  PROVE  /\ IsFiniteSet(finished')
         /\ Done(i)' = Done(i) + (IF f.spec = i THEN 1 ELSE 0)
<1> DEFINE S == {g \in finished : g.spec = i}
<1>1. IsFiniteSet(finished') /\ IsFiniteSet(S)
  <2>1. S \in SUBSET finished
    OBVIOUS
  <2> QED
    BY <2>1, FS_AddElement, FS_Subset
<1>2. Done(i) = Cardinality(S) /\ Done(i)' = Cardinality({g \in finished' : g.spec = i})
  BY DEF Done
<1>3. CASE f.spec = i
  <2>1. {g \in finished' : g.spec = i} = S \cup {f} /\ f \notin S
    BY <1>3
  <2> HIDE DEF S
  <2>2. Cardinality(S \cup {f}) = Cardinality(S) + 1
    BY <1>1, <2>1, FS_AddElement
  <2>3. Done(i)' = Done(i) + 1
    BY <1>2, <2>1, <2>2
  <2> QED
    BY <1>1, <1>3, <2>3
<1>4. CASE f.spec # i
  <2>1. {g \in finished' : g.spec = i} = S
    BY <1>4
  <2>2. Cardinality(S) \in Nat
    BY <1>1, FS_CardinalityType
  <2>3. Done(i)' = Done(i) /\ Done(i) \in Nat
    BY <1>2, <2>1, <2>2
  <2> QED
    BY <1>1, <1>4, <2>3
<1> QED
  BY <1>1, <1>3, <1>4

LEMMA DoneLess ==
  ASSUME IsFiniteSet(finished), NEW f \in finished, finished' = finished \ {f}, NEW i
  PROVE  /\ IsFiniteSet(finished')
         /\ Done(i) = Done(i)' + (IF f.spec = i THEN 1 ELSE 0) /\ Done(i)' \in Nat
<1> DEFINE S == {g \in finished : g.spec = i}
<1>1. IsFiniteSet(finished') /\ IsFiniteSet(S)
  <2>1. S \in SUBSET finished
    OBVIOUS
  <2> QED
    BY <2>1, FS_RemoveElement, FS_Subset
<1>2. /\ Done(i) = Cardinality(S) /\ Done(i)' = Cardinality({g \in finished' : g.spec = i})
      /\ Cardinality(S) \in Nat
  BY <1>1, FS_CardinalityType DEF Done
<1>3. CASE f.spec = i
  <2>1. {g \in finished' : g.spec = i} = S \ {f} /\ f \in S
    BY <1>3
  <2>2. Cardinality(S) \in Nat
    BY <1>1, FS_CardinalityType
  <2>3. Cardinality(S \ {f}) = Cardinality(S) - 1 /\ Cardinality(S \ {f}) \in Nat
    BY <1>1, <2>1, FS_RemoveElement, FS_CardinalityType
  <2>4. Done(i)' = Done(i) - 1 /\ Done(i) \in Nat /\ Done(i)' \in Nat
    BY <1>2, <2>1, <2>3
  <2> QED
    BY <1>1, <1>3, <2>4
<1>4. CASE f.spec # i
  <2>1. {g \in finished' : g.spec = i} = S
    BY <1>4
  <2>2. Done(i)' = Done(i) /\ Done(i) \in Nat
    BY <1>2, <2>1
  <2> QED
    BY <1>1, <1>4, <2>2
<1> QED
  BY <1>1, <1>3, <1>4

LEMMA QueuedNext ==
  ASSUME TypeOK, NEW i
  PROVE  /\ \A j \in Specs : queue' = Append(queue, j) =>
              Queued(i)' = Queued(i) + (IF j = i THEN 1 ELSE 0)
         /\ queue # <<>> /\ queue' = Tail(queue) =>
              Queued(i) = Queued(i)' + (IF Head(queue) = i THEN 1 ELSE 0) /\ Queued(i)' \in Nat
<1>1. queue \in Seq(Specs)
  BY DEF TypeOK
<1>2. ASSUME NEW j \in Specs, queue' = Append(queue, j)
      PROVE  Queued(i)' = Queued(i) + (IF j = i THEN 1 ELSE 0)
  BY <1>1, <1>2, CountAppend DEF Queued
<1>3. ASSUME queue # <<>>, queue' = Tail(queue)
      PROVE  Queued(i) = Queued(i)' + (IF Head(queue) = i THEN 1 ELSE 0) /\ Queued(i)' \in Nat
  <2>1. Tail(queue) \in Seq(Specs)
    BY <1>1, <1>3
  <2> QED
    BY <1>1, <1>3, <2>1, CountTail, CountIsUpto DEF Queued
<1> QED
  BY <1>2, <1>3

(* PoolInv is inductive. *)
LEMMA PoolStep ==
  ASSUME TypeOK, PoolInv, [Next]_vars
  PROVE  PoolInv'
<1> DEFINE Same == \A i : Places(i)' = Places(i)
<1>1. /\ UNCHANGED <<queue, active, finished, pairs>> => Same
      /\ \A i : /\ Queued(i) \in Nat /\ Done(i) \in Nat /\ Collected(i) \in Nat
               /\ Running(i) = IF i \in active THEN 1 ELSE 0
      /\ UNCHANGED pairs => \A i : Collected(i)' = Collected(i)
      /\ UNCHANGED queue => \A i : Queued(i)' = Queued(i)
      /\ UNCHANGED active => \A i : Running(i)' = Running(i)
      /\ UNCHANGED finished => \A i : Done(i)' = Done(i)
  <2>1. UNCHANGED pairs => \A i : Collected(i)' = Collected(i)
    BY DEF Collected, SpecsOf
  <2>2. UNCHANGED queue => \A i : Queued(i)' = Queued(i)
    BY DEF Queued
  <2>3. UNCHANGED active => \A i : Running(i)' = Running(i)
    BY DEF Running
  <2>4. UNCHANGED finished => \A i : Done(i)' = Done(i)
    BY DEF Done
  <2> QED
    BY <2>1, <2>2, <2>3, <2>4, PlaceTypes DEF Places, PoolInv
<1>2. CASE UNCHANGED vars
  BY <1>1, <1>2 DEF vars, PoolInv, Idle, Issued
<1>3. CASE Prepare
  BY <1>1, <1>3 DEF Prepare, PoolInv, Idle, Issued, params, pool, report, loop
<1>4. CASE RunSequential
  <2>1. Len(pairs) + 1 \in Specs
    BY <1>4, SpecsAreIndices DEF RunSequential, TypeOK
  <2>2. PICK o \in Values \cup {Error} :
          pairs' = Append(pairs, [spec |-> Len(pairs) + 1, outcome |-> o])
    BY <1>4, <2>1, OutcomeTypes DEF RunSequential
  <2>3. [spec |-> Len(pairs) + 1, outcome |-> o] \in Pair /\ Len(pairs') = Len(pairs) + 1
    BY <1>4, <2>2, SpecsAreIndices DEF RunSequential, TypeOK, Pair
  <2>4. \A i : Places(i)' = Places(i) + (IF Len(pairs) + 1 = i THEN 1 ELSE 0)
    BY <1>1, <1>4, <2>2, <2>3, CollectedNext DEF RunSequential, Places, pool
  <2>5. \A i \in Specs : Places(i)' = IF i \in 1..Len(pairs') THEN 1 ELSE 0
    <3>1. \A i \in Specs : Places(i) = IF i \in 1..Len(pairs) THEN 1 ELSE 0
      BY <1>4 DEF RunSequential, PoolInv, Issued
    <3>2. Len(pairs) \in Nat /\ Specs \subseteq Nat
      BY SpecsAreIndices DEF TypeOK
    <3> QED
      BY <2>3, <2>4, <3>1, <3>2
  <2> QED
    BY <1>4, <2>5 DEF RunSequential, PoolInv, Idle, Issued, params, pool, report, loop
<1>5. CASE Submit
  <2>1. CASE at <= Len(Plan)
    <3>1. \A i : Places(i)' = Places(i) + (IF at = i THEN 1 ELSE 0)
      <4>1. at \in Specs /\ queue' = Append(queue, at)
        BY <1>5, <2>1, SpecsAreIndices DEF Submit, TypeOK
      <4>2. \A i : Queued(i)' = Queued(i) + (IF at = i THEN 1 ELSE 0)
        BY <4>1, QueuedNext
      <4> QED
        BY <1>1, <1>5, <4>2 DEF Submit, Places
    <3>2. nJobs # 1 /\ \A i \in Specs : Places(i)' = IF i \in 1..at THEN 1 ELSE 0
      BY <1>5, <3>1, SpecsAreIndices DEF Submit, PoolInv, Issued, TypeOK
    <3> QED
      BY <1>5, <2>1, <3>2, SpecsAreIndices
      DEF Submit, PoolInv, Idle, Issued, params, report, TypeOK
  <2>2. CASE at > Len(Plan)
    <3>1. at = Len(Plan) + 1 /\ Same
      BY <1>1, <1>5, <2>2, SpecsAreIndices DEF Submit, PoolInv, TypeOK
    <3> QED
      BY <1>5, <2>2, <3>1, SpecsAreIndices
      DEF Submit, PoolInv, Idle, Issued, params, report, TypeOK
  <2> QED
    BY <2>1, <2>2, SpecsAreIndices DEF TypeOK
<1>6. CASE Start
  <2>1. Head(queue) \in Specs
    BY <1>6 DEF Start, TypeOK
  <2>2. nJobs # 1 /\ Places(Head(queue)) <= 1
    BY <1>6, <2>1 DEF Start, PoolInv, Idle
  <2>3. \A i : Queued(i) = Queued(i)' + (IF Head(queue) = i THEN 1 ELSE 0)
    BY <1>6, QueuedNext DEF Start
  <2>4. \A i : Queued(i)' \in Nat /\ Running(i)' = IF i \in active' THEN 1 ELSE 0
    BY <1>6, QueuedNext, OneOrNone DEF Start, Running
  <2>5. Head(queue) \notin active
    BY <1>1, <2>2, <2>3, <2>4 DEF Places
  <2>6. \A i : Running(i)' = Running(i) + (IF Head(queue) = i THEN 1 ELSE 0)
    BY <1>1, <1>6, <2>4, <2>5 DEF Start
  <2>7. Same
    BY <1>1, <1>6, <2>3, <2>4, <2>6 DEF Start, Places
  <2> QED
    BY <1>6, <2>2, <2>7 DEF Start, PoolInv, Issued, params, report, loop
<1>7. ASSUME NEW j \in active, Finish(j)
      PROVE  PoolInv'
  <2>1. PICK o \in Values \cup {Error} : finished' = finished \cup {[spec |-> j, outcome |-> o]}
    BY <1>7, OutcomeTypes DEF Finish, TypeOK
  <2>2. nJobs # 1 /\ Places(j) <= 1
    BY <1>7 DEF Finish, PoolInv, Idle, TypeOK
  <2>3. [spec |-> j, outcome |-> o] \notin finished
    <3>1. Done(j) = 0
      BY <1>1, <1>7, <2>2 DEF Places
    <3>2. {f \in finished : f.spec = j} \in SUBSET finished
      OBVIOUS
    <3>3. {f \in finished : f.spec = j} = {}
      BY <3>1, <3>2, FS_Subset, FS_EmptySet DEF Done, PoolInv
    <3> QED
      BY <3>3
  <2>4. IsFiniteSet(finished') /\ \A i : Done(i)' = Done(i) + (IF j = i THEN 1 ELSE 0)
    <3> DEFINE f == [spec |-> j, outcome |-> o]
    <3>1. f.spec = j /\ f \notin finished /\ finished' = finished \cup {f}
      BY <2>1, <2>3
    <3> HIDE DEF f
    <3> QED
      BY <3>1, DoneNext DEF PoolInv
  <2>5. \A i : Running(i)' = IF i \in active' THEN 1 ELSE 0
    BY OneOrNone DEF Running
  <2>6. \A i : Running(i) = Running(i)' + (IF j = i THEN 1 ELSE 0)
    BY <1>1, <1>7, <2>5 DEF Finish
  <2>7. Same
    BY <1>1, <1>7, <2>4, <2>5, <2>6 DEF Finish, Places
  <2> QED
    BY <1>7, <2>2, <2>4, <2>7 DEF Finish, PoolInv, Issued, params, report, loop
<1>8. ASSUME NEW f \in finished, Collect(f)
      PROVE  PoolInv'
  <2>1. nJobs # 1 /\ f \in Pair
    BY <1>8 DEF Collect, PoolInv, Idle, TypeOK
  <2>2. \A i : Collected(i)' = Collected(i) + (IF f.spec = i THEN 1 ELSE 0)
    BY <1>8, <2>1, CollectedNext DEF Collect
  <2>3. IsFiniteSet(finished') /\ \A i : Done(i) = Done(i)' + (IF f.spec = i THEN 1 ELSE 0)
    BY <1>8, DoneLess DEF Collect, PoolInv
  <2>4. \A i : Done(i)' \in Nat
    BY <1>8, DoneLess DEF Collect, PoolInv
  <2>5. Same
    BY <1>1, <1>8, <2>2, <2>3, <2>4 DEF Collect, Places
  <2> QED
    BY <1>8, <2>1, <2>3, <2>5 DEF Collect, PoolInv, Issued, params, report, loop
<1>9. CASE AllCollected \/ Split \/ EvaluateRule \/ AfterAlerts \/ Profile \/ StoreWrite
  <2>1. /\ UNCHANGED <<nJobs, queue, active, finished>>
        /\ pc' \notin {"prepare", "submit", "metrics"}
    BY <1>9 DEF AllCollected, Split, EvaluateRule, AfterAlerts, Profile, StoreWrite, params, pool
  <2> QED
    BY <2>1 DEF PoolInv, Idle
<1>10. CASE SinkWrite \/ ChannelWrite \/ Die
  <2>1. /\ UNCHANGED <<nJobs, queue, active, finished>>
        /\ pc' \notin {"prepare", "submit", "metrics"}
    BY <1>10 DEF SinkWrite, ChannelWrite, Die, params, pool
  <2> QED
    BY <2>1 DEF PoolInv, Idle
<1> QED
  BY <1>2, <1>3, <1>4, <1>5, <1>6, <1>7, <1>8, <1>9, <1>10 DEF Next, Main, Worker

(* The futures of a run are accounted for in every reachable state. *)
THEOREM PoolInvariance == Spec => [](TypeOK /\ PoolInv)
<1>1. Init => PoolInv
  <2> SUFFICES ASSUME Init PROVE PoolInv
    OBVIOUS
  <2>1. \A i : Places(i) = 0
    <3>1. \A i : Queued(i) = 0 /\ Collected(i) = 0
      <4>1. SpecsOf(<<>>) = <<>>
        BY DEF SpecsOf
      <4> QED
        BY <4>1, CountEmpty DEF Init, Queued, Collected
    <3>2. \A i : Running(i) = 0 /\ Done(i) = 0
      <4>1. \A i : {f \in {} : f.spec = i} = {}
        OBVIOUS
      <4> QED
        BY <4>1, OneOrNone, FS_EmptySet DEF Init, Running, Done
    <3> QED
      BY <3>1, <3>2 DEF Places
  <2>2. Issued = {}
    BY DEF Init, Issued
  <2> QED
    BY <2>1, <2>2, FS_EmptySet DEF Init, PoolInv, Idle
<1>2. TypeOK /\ PoolInv /\ [Next]_vars => PoolInv'
  BY PoolStep
<1> QED
  BY <1>1, <1>2, RunnerTypes, PTL DEF Spec

(* While the pool runs, every spec is in one place, for every plan and      *)
(* every number of workers.                                                   *)
THEOREM PoolLosesNoSpec == Spec => []NoSpecLost
<1>1. TypeOK /\ PoolInv => NoSpecLost
  BY DEF PoolInv, NoSpecLost, Issued
<1> QED
  BY <1>1, PoolInvariance, PTL

Taken(i) == Count(SpecsOf(results), i) + Count(errors, i)

(* The pairs hold every spec once, and so does what was split of them. *)
SplitInv ==
  /\ pc \in {"split"} \cup {"alerts", "profile"} \cup Dispatching =>
       \A i \in Specs : Count(SpecsOf(pairs), i) = 1
  /\ pc = "split" =>
       /\ at <= Len(pairs) + 1 /\ fired = <<>> /\ item = 1
       /\ \A i \in Specs :
            Taken(i) = CountUpto(SpecsOf(pairs), at - 1, i)
  /\ Reported => \A i \in Specs : Taken(i) = 1

(* SplitInv is inductive. *)
LEMMA SplitStep ==
  ASSUME TypeOK, PoolInv, SplitInv, [Next]_vars
  PROVE  SplitInv'
<1> USE DEF Dispatching, Reported
<1>1. \A i : /\ UNCHANGED pairs => Count(SpecsOf(pairs), i)' = Count(SpecsOf(pairs), i)
             /\ UNCHANGED <<results, errors>> => Taken(i)' = Taken(i)
  BY DEF SpecsOf, Taken, Count
<1>2. CASE UNCHANGED vars
  <2>1. \A i : CountUpto(SpecsOf(pairs), at - 1, i)' = CountUpto(SpecsOf(pairs), at - 1, i)
    BY <1>2 DEF vars, SpecsOf, CountUpto
  <2> QED
    BY <1>1, <1>2, <2>1 DEF vars, SplitInv
<1>3. CASE Prepare \/ RunSequential \/ Submit \/ Start \/ (\E i \in active : Finish(i))
           \/ (\E f \in finished : Collect(f)) \/ Die
  <2>1. pc' \in {"submit", "metrics", "raised", "died"}
    BY <1>3 DEF Prepare, RunSequential, Submit, Start, Finish, Collect, Die
  <2> QED
    BY <2>1 DEF SplitInv
<1>4. CASE AllCollected
  <2>1. \A i \in Specs : Places(i) = 1
    BY <1>4, SpecsAreIndices DEF AllCollected, PoolInv, Issued
  <2>2. SpecsOf(pairs) \in Seq(Specs) /\ Len(SpecsOf(pairs)) = Len(Plan)
    BY <1>4, SpecsOfType, PairSpecs DEF AllCollected, TypeOK
  <2>3. \A i \in Specs : Count(SpecsOf(pairs), i) <= 1
    BY <2>1, PlaceTypes DEF Places, Collected, PoolInv
  <2>4. \A i \in Specs : Count(SpecsOf(pairs), i) = 1
    BY <2>2, <2>3, CountAll, SpecsAreIndices
  <2>5. \A i : CountUpto(SpecsOf(pairs), at - 1, i)' = 0
    BY <1>4, CountUptoZero DEF AllCollected, PoolInv, loop
  <2>6. \A i : Taken(i)' = 0
    <3>1. SpecsOf(<<>>) = <<>>
      BY DEF SpecsOf
    <3> QED
      BY <1>4, <3>1, CountEmpty DEF AllCollected, PoolInv, report, Taken
  <2>7. at' = 1 /\ Len(pairs') \in Nat /\ fired' = <<>> /\ item' = 1 /\ pc' = "split"
    BY <1>4 DEF AllCollected, PoolInv, TypeOK, loop, report
  <2> QED
    BY <1>1, <1>4, <2>4, <2>5, <2>6, <2>7 DEF AllCollected, SplitInv
<1>5. CASE Split
  <2>1. /\ SpecsOf(pairs) \in Seq(Specs) /\ Len(SpecsOf(pairs)) = Len(pairs) /\ Len(pairs) \in Nat
        /\ SpecsOf(results) \in Seq(Specs) /\ errors \in Seq(Specs)
    <3>1. pairs \in Seq(Pair) /\ results \in Seq(Result) /\ errors \in Seq(Specs)
      BY DEF TypeOK
    <3>2. /\ SpecsOf(pairs) \in Seq(Specs) /\ Len(SpecsOf(pairs)) = Len(pairs)
          /\ SpecsOf(results) \in Seq(Specs)
      BY <3>1, SpecsOfType, PairSpecs
    <3> QED
      BY <3>1, <3>2
  <2>2. UNCHANGED <<pairs, fired, item>> /\ pc = "split"
    BY <1>5 DEF Split
  <2>3. CASE at <= Len(pairs)
    <3> DEFINE p == pairs[at]
    <3>1. p \in Pair /\ p.spec \in Specs /\ SpecsOf(pairs)[at] = p.spec /\ at' = at + 1 /\ pc' = pc
      BY <1>5, <2>3, PairSpecs DEF Split, TypeOK, SpecsOf
    <3>2. \A i \in Specs : Taken(i)' = Taken(i) + (IF p.spec = i THEN 1 ELSE 0)
      <4> SUFFICES ASSUME NEW i \in Specs
                   PROVE  Taken(i)' = Taken(i) + (IF p.spec = i THEN 1 ELSE 0)
        OBVIOUS
      <4>1. Count(SpecsOf(results), i) \in Nat /\ Count(errors, i) \in Nat
        BY <2>1, CountIsUpto
      <4>2. CASE Succeeded(p) /\ results' = Append(results, ResultOf(p)) /\ UNCHANGED errors
        <5>1. SpecsOf(Append(results, ResultOf(p))) = Append(SpecsOf(results), ResultOf(p).spec)
          BY <3>1, <4>2, ResultTypes, SpecsOfType, PairSpecs DEF TypeOK
        <5>2. ResultOf(p).spec = p.spec
          BY DEF ResultOf
        <5>3. Count(Append(SpecsOf(results), p.spec), i)
                = Count(SpecsOf(results), i) + (IF p.spec = i THEN 1 ELSE 0)
          BY <2>1, <3>1, CountAppend
        <5>4. Count(SpecsOf(results), i)' = Count(Append(SpecsOf(results), p.spec), i)
          BY <4>2, <5>1, <5>2 DEF SpecsOf, Count
        <5>5. Count(errors, i)' = Count(errors, i)
          BY <4>2 DEF Count
        <5> QED
          BY <4>1, <5>3, <5>4, <5>5 DEF Taken
      <4>3. CASE errors' = Append(errors, p.spec) /\ UNCHANGED results
        <5>1. Count(errors, i)' = Count(errors, i) + (IF p.spec = i THEN 1 ELSE 0)
          BY <2>1, <3>1, <4>3, CountAppend
        <5>2. Count(SpecsOf(results), i)' = Count(SpecsOf(results), i)
          BY <4>3 DEF SpecsOf, Count
        <5> QED
          BY <4>1, <5>1, <5>2 DEF Taken
      <4> QED
        BY <1>5, <2>3, <4>2, <4>3 DEF Split, Succeeded, Failed
    <3>3. \A i : CountUpto(SpecsOf(pairs), at, i)
                 = CountUpto(SpecsOf(pairs), at - 1, i) + (IF p.spec = i THEN 1 ELSE 0)
      <4>1. at - 1 \in Nat /\ (at - 1) + 1 = at
        BY DEF TypeOK
      <4> HIDE DEF p
      <4> QED
        BY <3>1, <4>1, CountUptoNext
    <3>4. \A i : CountUpto(SpecsOf(pairs), at - 1, i)' = CountUpto(SpecsOf(pairs), at, i)
      BY <2>2, <3>1 DEF SpecsOf, CountUpto, TypeOK
    <3>5. \A i \in Specs : Taken(i)' = CountUpto(SpecsOf(pairs), at - 1, i)'
      BY <2>2, <3>2, <3>3, <3>4 DEF SplitInv
    <3>6. at' <= Len(pairs') + 1
      BY <2>1, <2>2, <2>3, <3>1 DEF TypeOK
    <3> QED
      BY <1>1, <2>2, <3>1, <3>5, <3>6 DEF SplitInv
  <2>4. CASE ~(at <= Len(pairs))
    <3>1. at = Len(pairs) + 1 /\ at - 1 = Len(pairs)
      BY <2>1, <2>2, <2>4 DEF SplitInv, TypeOK
    <3>2. \A i \in Specs : Taken(i) = 1
      BY <2>1, <2>2, <3>1, CountIsUpto DEF SplitInv
    <3>3. pc' = "alerts" /\ UNCHANGED <<results, errors>>
      BY <1>5, <2>4 DEF Split
    <3> QED
      BY <1>1, <2>2, <3>2, <3>3 DEF SplitInv
  <2> QED
    BY <2>3, <2>4
<1>6. CASE EvaluateRule \/ AfterAlerts \/ Profile \/ StoreWrite \/ SinkWrite \/ ChannelWrite
  <2>1. /\ UNCHANGED <<pairs, results, errors>> /\ Reported
        /\ pc' \in {"raised", "alerts", "profile"} \cup Dispatching
    BY <1>6 DEF EvaluateRule, AfterAlerts, Profile, StoreWrite, SinkWrite, ChannelWrite, report
  <2> QED
    BY <1>1, <2>1 DEF SplitInv
<1> QED
  BY <1>2, <1>3, <1>4, <1>5, <1>6 DEF Next, Main, Worker

(* The report loses no spec on the way from the pairs. *)
THEOREM SplitInvariance == Spec => [](TypeOK /\ PoolInv /\ SplitInv)
<1>1. Init => SplitInv
  BY DEF Init, SplitInv, Dispatching, Reported
<1>2. TypeOK /\ PoolInv /\ SplitInv /\ [Next]_vars => SplitInv'
  BY SplitStep
<1> QED
  BY <1>1, <1>2, PoolInvariance, PTL DEF Spec

(* Every spec of the plan is in the report once, for every plan, number of  *)
(* workers and order of completion.                                           *)
THEOREM EverySpecReported == Spec => []EachSpecOnce
<1>1. SplitInv => EachSpecOnce
  BY DEF SplitInv, EachSpecOnce, Taken
<1> QED
  BY <1>1, SplitInvariance, PTL

(***************************************************************************)
(* The fired alerts.                                                        *)
(***************************************************************************)

(* The results that the two loops of step 8 have tried rule k on. *)
Tried(k) == IF pc # "alerts" \/ k < at THEN DOMAIN results
            ELSE IF k = at THEN 1..(item - 1) ELSE {}

Hit(k, i) == \E j \in Tried(k) : results[j].spec = i /\ Fires(k, results[j])

AlertInv ==
  /\ pc = "alerts" => at <= Len(Rules) + 1 /\ item <= Len(results) + 1
  /\ pc = "alerts" /\ at > Len(Rules) => item = 1
  /\ pc = "profile" => item = 1
  /\ Reported =>
       \A k \in DOMAIN Rules, i \in Specs :
         Count(fired, [rule |-> k, spec |-> i]) = IF Hit(k, i) THEN 1 ELSE 0

(* No spec has two results. *)
LEMMA OneResultPerSpec ==
  ASSUME TypeOK, SplitInv, Reported, NEW j \in DOMAIN results, NEW k \in DOMAIN results,
         results[j].spec = results[k].spec
  PROVE  j = k
<1>1. SpecsOf(results) \in Seq(Specs) /\ errors \in Seq(Specs)
  BY SpecsOfType, PairSpecs DEF TypeOK
<1>2. /\ DOMAIN SpecsOf(results) = DOMAIN results /\ results[j] \in Result
      /\ \A x \in DOMAIN results : SpecsOf(results)[x] = results[x].spec
  BY DEF SpecsOf, TypeOK
<1>3. results[j].spec \in Specs
  BY <1>2, PairSpecs
<1>4. Count(SpecsOf(results), results[j].spec) <= 1
  <2>1. Count(SpecsOf(results), results[j].spec) + Count(errors, results[j].spec) = 1
    BY <1>3 DEF SplitInv, Taken
  <2>2. Count(SpecsOf(results), results[j].spec) \in Nat /\ Count(errors, results[j].spec) \in Nat
    BY <1>1, CountIsUpto
  <2> QED
    BY <2>1, <2>2
<1> QED
  BY <1>1, <1>2, <1>4, CountPositions

(* AlertInv is inductive. *)
LEMMA AlertStep ==
  ASSUME TypeOK, SplitInv, AlertInv, [Next]_vars
  PROVE  AlertInv'
<1> USE DEF Dispatching, Reported
<1>1. CASE UNCHANGED vars
  <2>1. \A k, i : /\ Hit(k, i)' <=> Hit(k, i)
                  /\ Count(fired, [rule |-> k, spec |-> i])' = Count(fired, [rule |-> k, spec |-> i])
    BY <1>1 DEF vars, Hit, Tried, Fires, Matches, Count
  <2> QED
    BY <1>1, <2>1 DEF vars, AlertInv
<1>2. CASE Prepare \/ RunSequential \/ Submit \/ Start \/ (\E i \in active : Finish(i))
           \/ (\E f \in finished : Collect(f)) \/ AllCollected \/ Die
  <2>1. pc' \in {"submit", "metrics", "split", "raised", "died"}
    BY <1>2 DEF Prepare, RunSequential, Submit, Start, Finish, Collect, AllCollected, Die
  <2> QED
    BY <2>1 DEF AlertInv
<1>3. CASE Split
  <2>1. CASE pc' = "split"
    BY <2>1 DEF AlertInv
  <2>2. CASE pc' # "split"
    <3>1. /\ pc' = "alerts" /\ at' = 1 /\ item' = 1 /\ fired' = <<>> /\ UNCHANGED results
      BY <1>3, <2>2 DEF Split, SplitInv
    <3>2. \A k \in DOMAIN Rules : Tried(k)' = {}
      BY <3>1, RunnerAssumption DEF Tried
    <3>3. \A k \in DOMAIN Rules : \A i : ~Hit(k, i)'
      BY <3>2 DEF Hit
    <3>4. \A k, i : Count(fired, [rule |-> k, spec |-> i])' = 0
      BY <3>1, CountEmpty
    <3>5. at' <= Len(Rules) + 1 /\ item' <= Len(results') + 1
      BY <3>1, RunnerAssumption DEF TypeOK
    <3> QED
      BY <3>1, <3>3, <3>4, <3>5 DEF AlertInv
  <2> QED
    BY <2>1, <2>2
<1>4. CASE EvaluateRule
  <2>1. /\ pc = "alerts" /\ at \in 1..Len(Rules) /\ item \in 1..(Len(results) + 1)
        /\ Len(results) \in Nat /\ DOMAIN results = 1..Len(results) /\ UNCHANGED results
        /\ Len(Rules) \in Nat /\ DOMAIN Rules = 1..Len(Rules)
    BY <1>4, RunnerAssumption DEF EvaluateRule, AlertInv, TypeOK
  <2>2. CASE item > Len(results)
    <3>1. pc' = "alerts" /\ at' = at + 1 /\ item' = 1 /\ UNCHANGED fired
      BY <1>4, <2>1, <2>2 DEF EvaluateRule
    <3>2. \A k \in DOMAIN Rules : Tried(k)' = Tried(k)
      BY <2>1, <2>2, <3>1 DEF Tried
    <3>3. \A k \in DOMAIN Rules : \A i : Hit(k, i)' <=> Hit(k, i)
      BY <2>1, <3>2 DEF Hit, Fires, Matches
    <3>4. \A k, i : Count(fired, [rule |-> k, spec |-> i])' = Count(fired, [rule |-> k, spec |-> i])
      BY <3>1 DEF Count
    <3>5. at' <= Len(Rules) + 1 /\ item' <= Len(results') + 1
      BY <2>1, <3>1
    <3> QED
      BY <2>1, <3>1, <3>3, <3>4, <3>5 DEF AlertInv
  <2>3. CASE item <= Len(results) /\ Rejects(at, results[item])
    <3>1. pc' = "raised"
      BY <1>4, <2>1, <2>3 DEF EvaluateRule
    <3> QED
      BY <3>1 DEF AlertInv
  <2>4. CASE item <= Len(results) /\ ~Rejects(at, results[item])
    <3> DEFINE r == results[item]
               a == [rule |-> at, spec |-> r.spec]
    <3>1. /\ pc' = pc /\ at' = at /\ item' = item + 1
          /\ fired' = IF Fires(at, r) THEN Append(fired, a) ELSE fired
      BY <1>4, <2>1, <2>4 DEF EvaluateRule
    <3>2. r \in Result /\ r.spec \in Specs /\ item \in DOMAIN results /\ fired \in Seq(Alert)
      BY <2>1, <2>4, PairSpecs DEF TypeOK
    <3>3. a \in Alert
      BY <2>1, <3>2 DEF Alert
    <3>4. /\ Tried(at) = 1..(item - 1)
          /\ \A k \in DOMAIN Rules : Tried(k)' = IF k = at THEN 1..item ELSE Tried(k)
      BY <2>1, <3>1 DEF Tried
    <3>5. \A k \in DOMAIN Rules, i \in Specs :
            Hit(k, i)' <=> Hit(k, i) \/ (k = at /\ r.spec = i /\ Fires(at, r))
      <4> TAKE k \in DOMAIN Rules, i \in Specs
      <4>1. CASE k # at
        BY <2>1, <3>4, <4>1 DEF Hit, Fires, Matches
      <4>2. CASE k = at
        <5>1. Hit(k, i)' <=> \E j \in 1..item : results[j].spec = i /\ Fires(k, results[j])
          <6>1. Tried(k)' = 1..item
            BY <3>4, <4>2
          <6> QED
            BY <2>1, <6>1 DEF Hit, Fires, Matches
        <5>2. Hit(k, i) <=> \E j \in 1..(item - 1) : results[j].spec = i /\ Fires(k, results[j])
          BY <3>4, <4>2 DEF Hit
        <5>3. 1..item = 1..(item - 1) \cup {item}
          BY <2>1
        <5> QED
          BY <4>2, <5>1, <5>2, <5>3
      <4> QED
        BY <4>1, <4>2
    <3>6. ~Hit(at, r.spec)
      <4>1. ASSUME NEW j \in 1..(item - 1), results[j].spec = r.spec
            PROVE  FALSE
        BY <2>1, <3>2, <4>1, OneResultPerSpec
      <4> QED
        BY <3>4, <4>1 DEF Hit
    <3>7. \A k, i : a = [rule |-> k, spec |-> i] <=> k = at /\ i = r.spec
      OBVIOUS
    <3>8. \A k, i : Count(fired, [rule |-> k, spec |-> i])'
                      = Count(fired, [rule |-> k, spec |-> i])
                        + (IF Fires(at, r) /\ k = at /\ i = r.spec THEN 1 ELSE 0)
      <4> TAKE k, i
      <4>1. CASE Fires(at, r)
        <5>1. fired' = Append(fired, a)
          BY <3>1, <4>1
        <5> DEFINE b == [rule |-> k, spec |-> i]
        <5>2. a = b <=> k = at /\ i = r.spec
          OBVIOUS
        <5> HIDE DEF a, b
        <5>3. Count(Append(fired, a), b) = Count(fired, b) + (IF a = b THEN 1 ELSE 0)
          BY <3>2, <3>3, CountAppend
        <5>4. Count(fired, b)' = Count(fired', b)
          BY DEF Count, b
        <5> QED
          BY <4>1, <5>1, <5>2, <5>3, <5>4 DEF b
      <4>2. CASE ~Fires(at, r)
        <5>1. fired' = fired /\ Count(fired, [rule |-> k, spec |-> i]) \in Nat
          BY <3>1, <3>2, <4>2, CountIsUpto
        <5> QED
          BY <4>2, <5>1 DEF Count
      <4> QED
        BY <4>1, <4>2
    <3>9. \A k \in DOMAIN Rules, i \in Specs :
            Count(fired, [rule |-> k, spec |-> i])' = IF Hit(k, i)' THEN 1 ELSE 0
      <4> TAKE k \in DOMAIN Rules, i \in Specs
      <4>1. Count(fired, [rule |-> k, spec |-> i]) = IF Hit(k, i) THEN 1 ELSE 0
        BY <2>1 DEF AlertInv
      <4>2. CASE Fires(at, r) /\ k = at /\ i = r.spec
        <5>1. ~Hit(k, i) /\ Hit(k, i)'
          BY <3>5, <3>6, <4>2
        <5> QED
          BY <3>8, <4>1, <4>2, <5>1
      <4>3. CASE ~(Fires(at, r) /\ k = at /\ i = r.spec)
        <5>1. Hit(k, i) <=> Hit(k, i)'
          BY <3>5, <4>3
        <5> QED
          BY <3>8, <4>1, <4>3, <5>1
      <4> QED
        BY <4>2, <4>3
    <3>10. pc' = "alerts" /\ at' <= Len(Rules) /\ item' <= Len(results') + 1
      BY <2>1, <2>4, <3>1
    <3> QED
      BY <2>1, <3>1, <3>9, <3>10 DEF AlertInv
  <2> QED
    BY <2>1, <2>2, <2>3, <2>4
<1>5. CASE AfterAlerts \/ Profile \/ StoreWrite \/ SinkWrite \/ ChannelWrite
  <2>1. /\ UNCHANGED <<results, fired>> /\ Reported
        /\ pc' \in {"raised", "profile"} \cup Dispatching
        /\ pc = "alerts" => at > Len(Rules)
        /\ pc' = "profile" => pc = "alerts" /\ UNCHANGED item
    BY <1>5 DEF AfterAlerts, Profile, StoreWrite, SinkWrite, ChannelWrite, report
  <2>2. \A k \in DOMAIN Rules : Tried(k)' = DOMAIN results /\ Tried(k) = DOMAIN results
    BY <2>1, RunnerAssumption DEF Tried, TypeOK
  <2>3. \A k \in DOMAIN Rules : \A i : Hit(k, i)' <=> Hit(k, i)
    BY <2>1, <2>2 DEF Hit, Fires, Matches
  <2>4. \A k, i : Count(fired, [rule |-> k, spec |-> i])' = Count(fired, [rule |-> k, spec |-> i])
    BY <2>1 DEF Count
  <2>5. pc' = "profile" => item' = 1
    BY <2>1 DEF AlertInv
  <2> QED
    BY <2>1, <2>3, <2>4, <2>5 DEF AlertInv
<1> QED
  BY <1>1, <1>2, <1>3, <1>4, <1>5 DEF Next, Main, Worker

THEOREM AlertInvariance == Spec => [](TypeOK /\ SplitInv /\ AlertInv)
<1>1. Init => AlertInv
  BY DEF Init, AlertInv, Dispatching, Reported
<1>2. TypeOK /\ SplitInv /\ AlertInv /\ [Next]_vars => AlertInv'
  BY AlertStep
<1> QED
  BY <1>1, <1>2, SplitInvariance, PTL DEF Spec

(* A rule fires once for each result of its metric on which its policy      *)
(* holds and never otherwise, for every set of rules.                         *)
THEOREM AlertsAreExact == Spec => []AlertsExact
<1>1. TypeOK /\ AlertInv => AlertsExact
  <2> SUFFICES ASSUME TypeOK, AlertInv, pc \in {"profile"} \cup Dispatching,
                      NEW k \in DOMAIN Rules, NEW i \in Specs
               PROVE  Count(fired, [rule |-> k, spec |-> i]) =
                        IF /\ Plan[i].name = Rules[k].metric
                           /\ \E j \in DOMAIN results :
                                results[j].spec = i /\ Evaluate(Rules[k].policy, results[j])
                        THEN 1 ELSE 0
    BY DEF AlertsExact
  <2>1. Tried(k) = DOMAIN results
    BY DEF Tried, Dispatching
  <2>2. Hit(k, i) <=> /\ Plan[i].name = Rules[k].metric
                      /\ \E j \in DOMAIN results :
                           results[j].spec = i /\ Evaluate(Rules[k].policy, results[j])
    BY <2>1 DEF Hit, Fires, Matches
  <2> QED
    BY <2>2 DEF AlertInv, Reported
<1> QED
  BY <1>1, AlertInvariance, PTL

(***************************************************************************)
(* The channels of the rules that fired.                                    *)
(***************************************************************************)

(* The channels of rule k that the two loops of step 12 have written to. *)
Written(k, d) ==
  IF pc = "returned" \/ k < at THEN Count(Rules[k].channels, d)
  ELSE IF k = at THEN CountUpto(Rules[k].channels, item - 1, d) ELSE 0

ChannelInv ==
  /\ pc \in {"store", "sinks"} => item = 1
  /\ pc = "store" => told = <<>>
  /\ pc = "sinks" => \A x \in DOMAIN told : told[x].rule = 0
  /\ pc = "channels" /\ at <= Len(Rules) =>
       item <= (IF Notified(at) THEN Len(Rules[at].channels) + 1 ELSE 1)
  /\ pc = "channels" => at <= Len(Rules) + 1
  /\ pc \in {"channels", "returned"} =>
       \A k \in DOMAIN Rules, d \in STRING :
         Count(told, [rule |-> k, dest |-> d]) =
           IF Notified(k) THEN Written(k, d) ELSE 0

(* ChannelInv is inductive. *)
LEMMA ChannelStep ==
  ASSUME TypeOK, EffectInv, AlertInv, ChannelInv, [Next]_vars
  PROVE  ChannelInv'
<1> DEFINE Of(k, d) == [rule |-> k, dest |-> d]
<1>1. /\ Len(Rules) \in Nat /\ DOMAIN Rules = 1..Len(Rules)
      /\ UNCHANGED fired => \A k : Notified(k)' <=> Notified(k)
  BY RunnerAssumption DEF Notified, FiredMetricNames
<1>2. CASE UNCHANGED vars
  <2>1. \A k, d : /\ Written(k, d)' = Written(k, d)
                  /\ Count(told, Of(k, d))' = Count(told, Of(k, d))
    BY <1>2 DEF vars, Written, Count, CountUpto
  <2> QED
    BY <1>1, <1>2, <2>1 DEF vars, ChannelInv, Notified, FiredMetricNames
<1>3. CASE Prepare \/ RunSequential \/ Submit \/ Start \/ (\E i \in active : Finish(i))
           \/ (\E f \in finished : Collect(f)) \/ AllCollected \/ Split \/ Die
  <2>1. pc' \in {"submit", "metrics", "split", "alerts", "raised", "died"}
    BY <1>3 DEF Prepare, RunSequential, Submit, Start, Finish, Collect, AllCollected, Split, Die
  <2> QED
    BY <2>1 DEF ChannelInv
<1>4. CASE EvaluateRule \/ AfterAlerts
  <2>1. pc' \in {"alerts", "raised", "profile"}
    BY <1>4 DEF EvaluateRule, AfterAlerts
  <2> QED
    BY <2>1 DEF ChannelInv
<1>5. CASE Profile
  <2>1. pc' \in {"store", "raised"} /\ item' = 1 /\ told' = <<>>
    BY <1>5 DEF Profile, AlertInv, EffectInv, Quiet, loop, effects
  <2> QED
    BY <2>1 DEF ChannelInv
<1>6. CASE StoreWrite
  <2>1. pc' = "sinks" /\ item' = 1 /\ told' = <<>>
    BY <1>6 DEF StoreWrite, ChannelInv, loop
  <2> QED
    BY <2>1 DEF ChannelInv
<1>7. CASE SinkWrite
  <2>1. item' = 1 /\ UNCHANGED fired /\ told \in Seq(Notice) /\ \A x \in DOMAIN told : told[x].rule = 0
    BY <1>7 DEF SinkWrite, ChannelInv, TypeOK, report
  <2>2. CASE at <= Len(Sinks)
    <3>1. pc' = "sinks" /\ told' = Append(told, [rule |-> 0, dest |-> Sinks[at]])
      BY <1>7, <2>2 DEF SinkWrite, Tell
    <3>2. \A x \in DOMAIN told' : told'[x].rule = 0
      BY <2>1, <3>1
    <3> QED
      BY <2>1, <3>1, <3>2 DEF ChannelInv
  <2>3. CASE ~(at <= Len(Sinks))
    <3>1. pc' = "channels" /\ at' = 1 /\ UNCHANGED told
      BY <1>7, <2>3 DEF SinkWrite
    <3>2. \A k \in DOMAIN Rules, d \in STRING : Count(told, Of(k, d))' = 0
      <4> TAKE k \in DOMAIN Rules, d \in STRING
      <4>1. \A x \in DOMAIN told : told[x] # Of(k, d)
        BY <1>1, <2>1
      <4>2. Count(told, Of(k, d)) = 0
        BY <2>1, <4>1, CountPositions
      <4> QED
        BY <3>1, <4>2
    <3>3. \A k \in DOMAIN Rules, d \in STRING : Written(k, d)' = 0
      BY <1>1, <2>1, <3>1, CountUptoZero DEF Written
    <3>4. at' <= Len(Rules) => item' <= (IF Notified(at) THEN Len(Rules[at].channels) + 1 ELSE 1)'
      <4>1. at' <= Len(Rules) => Len(Rules[at'].channels) \in Nat
        BY <1>1, <3>1, RuleTypes
      <4> QED
        BY <2>1, <4>1
    <3>5. \A k \in DOMAIN Rules, d \in STRING :
            Count(told, Of(k, d))' = IF Notified(k)' THEN Written(k, d)' ELSE 0
      BY <3>2, <3>3
    <3> QED
      BY <1>1, <2>1, <3>1, <3>4, <3>5 DEF ChannelInv
  <2> QED
    BY <2>2, <2>3
<1>8. CASE ChannelWrite
  <2>1. /\ pc = "channels" /\ at \in 1..(Len(Rules) + 1) /\ item \in Nat \ {0}
        /\ UNCHANGED fired /\ told \in Seq(Notice)
        /\ \A k \in DOMAIN Rules : Rules[k].channels \in Seq(STRING)
    BY <1>1, <1>8, RuleTypes DEF ChannelWrite, ChannelInv, TypeOK, report
  <2>2. CASE at <= Len(Rules) /\ Notified(at) /\ item <= Len(Rules[at].channels)
    <3> DEFINE q == Rules[at].channels
               a == Of(at, q[item])
    <3>1. pc' = pc /\ at' = at /\ item' = item + 1 /\ told' = Append(told, a)
      BY <1>8, <2>1, <2>2 DEF ChannelWrite, Tell
    <3>2. at \in DOMAIN Rules /\ q \in Seq(STRING) /\ q[item] \in STRING /\ Len(q) \in Nat
      BY <1>1, <2>1, <2>2
    <3>3. a \in Notice
      BY <1>1, <3>2 DEF Notice
    <3>4. \A k \in DOMAIN Rules, d \in STRING :
            Count(told, Of(k, d))' = Count(told, Of(k, d))
                                       + (IF k = at /\ d = q[item] THEN 1 ELSE 0)
      <4> TAKE k \in DOMAIN Rules, d \in STRING
      <4> DEFINE b == Of(k, d)
      <4>1. a = b <=> k = at /\ d = q[item]
        OBVIOUS
      <4> HIDE DEF a, b
      <4>2. Count(Append(told, a), b) = Count(told, b) + (IF a = b THEN 1 ELSE 0)
        BY <2>1, <3>3, CountAppend
      <4>3. Count(told, b)' = Count(told', b)
        BY DEF Count, b
      <4> QED
        BY <3>1, <4>1, <4>2, <4>3 DEF b
    <3>5. \A k \in DOMAIN Rules : \A d :
            Written(k, d)' = Written(k, d) + (IF k = at /\ d = q[item] THEN 1 ELSE 0)
      <4> TAKE k \in DOMAIN Rules
      <4> TAKE d
      <4>1. CASE k = at
        <5>1. Written(k, d) = CountUpto(q, item - 1, d) /\ Written(k, d)' = CountUpto(q, item, d)
          BY <2>1, <3>1, <4>1 DEF Written
        <5> DEFINE n == item - 1
        <5>2. n \in Nat /\ n + 1 = item
          BY <2>1
        <5> HIDE DEF n
        <5>3. \A p : CountUpto(p, n + 1, d) = CountUpto(p, n, d) + (IF p[n + 1] = d THEN 1 ELSE 0)
          BY <5>2, CountUptoNext
        <5>4. CountUpto(q, item, d) = CountUpto(q, n, d) + (IF q[item] = d THEN 1 ELSE 0)
          BY <5>2, <5>3
        <5> QED
          BY <4>1, <5>1, <5>4 DEF n
      <4>2. CASE k # at
        <5>1. Written(k, d)' = Written(k, d)
          BY <2>1, <3>1, <4>2 DEF Written
        <5>2. Written(k, d) \in Nat
          BY <2>1, <4>2, CountIsUpto DEF Written
        <5> QED
          BY <4>2, <5>1, <5>2
      <4> QED
        BY <4>1, <4>2
    <3>6. \A k \in DOMAIN Rules, d \in STRING :
            Count(told, Of(k, d))' = IF Notified(k)' THEN Written(k, d)' ELSE 0
      <4> TAKE k \in DOMAIN Rules, d \in STRING
      <4>1. Count(told, Of(k, d)) = IF Notified(k) THEN Written(k, d) ELSE 0
        BY <2>1 DEF ChannelInv
      <4>2. Notified(k)' <=> Notified(k)
        BY <1>1, <2>1
      <4> HIDE DEF Of, q
      <4> QED
        BY <2>2, <3>4, <3>5, <4>1, <4>2
    <3>7. item' <= Len(Rules[at'].channels) + 1 /\ Notified(at)'
      BY <1>1, <2>1, <2>2, <3>1, <3>2 DEF Notified, FiredMetricNames
    <3> QED
      BY <2>1, <2>2, <3>1, <3>6, <3>7 DEF ChannelInv
  <2>3. CASE at <= Len(Rules) /\ (Notified(at) => item > Len(Rules[at].channels))
    <3>1. pc' = pc /\ at' = at + 1 /\ item' = 1 /\ UNCHANGED told
      BY <1>8, <2>1, <2>3 DEF ChannelWrite
    <3>2. \A k \in DOMAIN Rules, d \in STRING :
            Notified(k) => Written(k, d)' = Written(k, d)
      <4> SUFFICES ASSUME NEW k \in DOMAIN Rules, NEW d \in STRING, Notified(k)
                   PROVE  Written(k, d)' = Written(k, d)
        OBVIOUS
      <4>1. CASE k < at
        BY <1>1, <2>1, <3>1, <4>1 DEF Written
      <4>2. CASE k = at
        <5>1. item - 1 = Len(Rules[k].channels)
          BY <1>1, <2>1, <2>3, <4>2 DEF ChannelInv
        <5>2. Written(k, d)' = Count(Rules[k].channels, d)
          BY <1>1, <2>1, <3>1, <4>2 DEF Written
        <5>3. Written(k, d) = CountUpto(Rules[k].channels, item - 1, d)
          BY <1>1, <2>1, <4>2 DEF Written
        <5> QED
          BY <2>1, <5>1, <5>2, <5>3, CountIsUpto
      <4>3. CASE k = at + 1
        BY <1>1, <2>1, <3>1, <4>3, CountUptoZero DEF Written
      <4>4. CASE k > at + 1
        BY <1>1, <2>1, <3>1, <4>4 DEF Written
      <4> QED
        BY <1>1, <2>1, <4>1, <4>2, <4>3, <4>4
    <3>3. \A k \in DOMAIN Rules, d \in STRING :
            Count(told, Of(k, d))' = IF Notified(k)' THEN Written(k, d)' ELSE 0
      BY <1>1, <2>1, <3>1, <3>2 DEF ChannelInv
    <3>4. /\ at' <= Len(Rules) + 1
          /\ at' <= Len(Rules) => item' <= (IF Notified(at) THEN Len(Rules[at].channels) + 1 ELSE 1)'
      <4>1. at' <= Len(Rules) => Len(Rules[at'].channels) \in Nat
        BY <1>1, <2>1, <3>1
      <4> QED
        BY <1>1, <2>1, <2>3, <3>1, <4>1
    <3> QED
      BY <2>1, <3>1, <3>3, <3>4 DEF ChannelInv
  <2>4. CASE at > Len(Rules)
    <3>1. pc' = "returned" /\ UNCHANGED <<at, item, told>>
      BY <1>1, <1>8, <2>1, <2>4 DEF ChannelWrite, loop
    <3>2. \A k \in DOMAIN Rules, d \in STRING : Written(k, d)' = Written(k, d)
      BY <1>1, <2>1, <2>4, <3>1 DEF Written
    <3>3. \A k \in DOMAIN Rules, d \in STRING :
            Count(told, Of(k, d))' = IF Notified(k)' THEN Written(k, d)' ELSE 0
      BY <1>1, <2>1, <3>1, <3>2 DEF ChannelInv
    <3> QED
      BY <3>1, <3>3 DEF ChannelInv
  <2> QED
    BY <1>8, <2>2, <2>3, <2>4 DEF ChannelWrite
<1> QED
  BY <1>2, <1>3, <1>4, <1>5, <1>6, <1>7, <1>8 DEF Next, Main, Worker

THEOREM ChannelInvariance == Spec => [](TypeOK /\ AlertInv /\ ChannelInv)
<1>1. Init => ChannelInv
  BY DEF Init, ChannelInv
<1>2. TypeOK /\ EffectInv /\ AlertInv /\ ChannelInv /\ [Next]_vars => ChannelInv'
  BY ChannelStep
<1> QED
  BY <1>1, <1>2, AlertInvariance, EffectInvariance, PTL DEF Spec

(* Every channel of a rule that fired is written to as often as the rule    *)
(* lists it, whatever the others, the sinks and the store did.                *)
THEOREM FiredRulesAreNotified == Spec => []FiredRulesNotify
<1>1. TypeOK /\ AlertInv /\ ChannelInv => FiredRulesNotify
  <2> SUFFICES ASSUME TypeOK, AlertInv, ChannelInv, pc = "returned",
                      NEW j \in DOMAIN fired,
                      NEW c \in DOMAIN Rules[fired[j].rule].channels
               PROVE  LET k == fired[j].rule
                          d == Rules[k].channels[c]
                      IN  Count(told, [rule |-> k, dest |-> d]) = Count(Rules[k].channels, d)
    BY DEF FiredRulesNotify
  <2> DEFINE k == fired[j].rule
             i == fired[j].spec
             d == Rules[k].channels[c]
  <2>1. fired \in Seq(Alert) /\ fired[j] \in Alert
    BY DEF TypeOK
  <2>2. k \in DOMAIN Rules /\ i \in Specs /\ fired[j] = [rule |-> k, spec |-> i]
    BY <2>1 DEF Alert
  <2>3. Count(fired, [rule |-> k, spec |-> i]) # 0
    BY <2>1, <2>2, CountPositions
  <2>4. Hit(k, i)
    BY <2>2, <2>3 DEF AlertInv, Reported, Dispatching
  <2>5. Notified(k)
    BY <2>2, <2>4 DEF Hit, Fires, Matches, Notified, FiredMetricNames
  <2>6. d \in STRING
    BY <2>2, RuleTypes
  <2>7. Written(k, d) = Count(Rules[k].channels, d)
    BY DEF Written
  <2> QED
    BY <2>2, <2>5, <2>6, <2>7 DEF ChannelInv
<1> QED
  BY <1>1, ChannelInvariance, PTL

(***************************************************************************)
(* Where results and errors come from, and what a status says of an alert.  *)
(***************************************************************************)

(* A result is that of a pair that succeeded, an error that of one that     *)
(* failed.                                                                    *)
OriginInv ==
  /\ \A j \in DOMAIN results :
       \E x \in DOMAIN pairs : Succeeded(pairs[x]) /\ results[j] = ResultOf(pairs[x])
  /\ \A j \in DOMAIN errors :
       \E x \in DOMAIN pairs : Failed(pairs[x]) /\ errors[j] = pairs[x].spec

(* OriginInv is inductive. *)
LEMMA OriginStep ==
  ASSUME TypeOK, OriginInv, [Next]_vars
  PROVE  OriginInv'
<1>1. ASSUME UNCHANGED <<pairs, results, errors>> PROVE OriginInv'
  BY <1>1 DEF OriginInv, Succeeded, Failed, ResultOf
<1>2. ASSUME NEW p, pairs' = Append(pairs, p), UNCHANGED <<results, errors>>
      PROVE  OriginInv'
  <2>1. \A x \in DOMAIN pairs : x \in DOMAIN pairs' /\ pairs'[x] = pairs[x]
    BY <1>2 DEF TypeOK
  <2> QED
    BY <1>2, <2>1 DEF OriginInv, Succeeded, Failed, ResultOf
<1>3. CASE Split /\ at <= Len(pairs)
  <2> DEFINE p == pairs[at]
  <2>1. at \in DOMAIN pairs /\ p \in Pair /\ p.spec \in Specs /\ UNCHANGED pairs
    BY <1>3, PairSpecs DEF Split, TypeOK
  <2>2. ASSUME NEW j \in DOMAIN results'
        PROVE  (\E x \in DOMAIN pairs : Succeeded(pairs[x]) /\ results[j] = ResultOf(pairs[x]))'
    <3>1. CASE Succeeded(p) /\ results' = Append(results, ResultOf(p))
      <4>1. results'[j] = IF j \in DOMAIN results THEN results[j] ELSE ResultOf(p)
        BY <2>2, <3>1 DEF TypeOK
      <4> QED
        BY <2>1, <3>1, <4>1 DEF OriginInv, Succeeded, ResultOf
    <3>2. CASE results' = results
      BY <2>1, <2>2, <3>2 DEF OriginInv, Succeeded, ResultOf
    <3> QED
      BY <1>3, <3>1, <3>2 DEF Split
  <2>3. ASSUME NEW j \in DOMAIN errors'
        PROVE  (\E x \in DOMAIN pairs : Failed(pairs[x]) /\ errors[j] = pairs[x].spec)'
    <3>1. CASE Failed(p) /\ errors' = Append(errors, p.spec)
      <4>1. errors'[j] = IF j \in DOMAIN errors THEN errors[j] ELSE p.spec
        BY <2>3, <3>1 DEF TypeOK
      <4> QED
        BY <2>1, <3>1, <4>1 DEF OriginInv, Failed
    <3>2. CASE errors' = errors
      BY <2>1, <2>3, <3>2 DEF OriginInv, Failed
    <3> QED
      BY <1>3, <3>1, <3>2 DEF Split
  <2> QED
    BY <2>2, <2>3 DEF OriginInv
<1>4. CASE Split /\ ~(at <= Len(pairs))
  BY <1>1, <1>4 DEF Split
<1>5. CASE Prepare \/ Submit \/ Start \/ (\E i \in active : Finish(i)) \/ AllCollected
           \/ EvaluateRule \/ AfterAlerts \/ Profile \/ StoreWrite \/ SinkWrite
           \/ ChannelWrite \/ Die
  BY <1>1, <1>5
  DEF Prepare, Submit, Start, Finish, AllCollected, EvaluateRule, AfterAlerts,
      Profile, StoreWrite, SinkWrite, ChannelWrite, Die, report
<1>6. CASE RunSequential \/ \E f \in finished : Collect(f)
  BY <1>2, <1>6 DEF RunSequential, Collect, report
<1> QED
  BY <1>1, <1>3, <1>4, <1>5, <1>6 DEF Next, Main, Worker, vars

(* Results and errors come from the pairs, whatever the order of completion. *)
THEOREM OriginInvariance == Spec => [](TypeOK /\ OriginInv)
<1>1. Init => OriginInv
  BY DEF Init, OriginInv
<1>2. TypeOK /\ OriginInv /\ [Next]_vars => OriginInv'
  BY OriginStep
<1> QED
  BY <1>1, <1>2, RunnerTypes, PTL DEF Spec

(* The fired alerts, as a set. *)
LEMMA AlertedIsHit ==
  ASSUME TypeOK, AlertInv, Reported, NEW k \in DOMAIN Rules, NEW i \in Specs
  PROVE  Alerted(k, i) <=> Hit(k, i)
<1> DEFINE a == [rule |-> k, spec |-> i]
<1>1. fired \in Seq(Alert)
  BY DEF TypeOK
<1>2. Count(fired, a) = IF Hit(k, i) THEN 1 ELSE 0
  BY <1>1 DEF AlertInv
<1>3. Alerted(k, i) <=> \E j \in DOMAIN fired : fired[j] = a
  BY DEF Alerted
<1> HIDE DEF a
<1>4. Count(fired, a) # 0 <=> \E j \in DOMAIN fired : fired[j] = a
  BY <1>1, CountPositions
<1> QED
  BY <1>2, <1>3, <1>4

(* A policy without threshold alerts exactly on failed metrics; one that    *)
(* repeats the spec's does so too, except on what is no number.              *)
THEOREM StatusesRuleAlerts == Spec => []AlertsFollowStatus
<1>1. TypeOK /\ SplitInv /\ AlertInv /\ OriginInv => AlertsFollowStatus
  <2> SUFFICES ASSUME TypeOK, SplitInv, AlertInv, OriginInv, Concluded,
                      NEW k \in DOMAIN Rules, NEW j \in DOMAIN results,
                      Plan[results[j].spec].name = Rules[k].metric
               PROVE  LET r == results[j]
                          s == Plan[r.spec]
                          p == Rules[k].policy
                      IN  /\ p.threshold = <<>> => (Alerted(k, r.spec) <=> r.status = "fail")
                          /\ p.threshold = s.threshold /\ p.upper = s.upper /\ Len(s.threshold) = 1 =>
                               (Alerted(k, r.spec) <=> r.status = "fail" /\ r.value.kind = "num")
    BY DEF AlertsFollowStatus, Concluded
  <2> DEFINE r == results[j]
             s == Plan[r.spec]
             p == Rules[k].policy
  <2>1. r \in Result /\ r.spec \in Specs /\ r.value \in Value /\ Reported
    <3>1. r \in Result
      BY DEF TypeOK
    <3>2. Values \subseteq Value
      BY RunnerAssumption
    <3> QED
      BY <3>1, <3>2, PairSpecs DEF Result, Reported, Concluded
  <2>2. Alerted(k, r.spec) <=> Evaluate(p, r)
    <3>1. Alerted(k, r.spec) <=> Hit(k, r.spec)
      BY <2>1, AlertedIsHit
    <3>2. Tried(k) = DOMAIN results
      BY DEF Tried, Concluded, Dispatching
    <3>3. \A x \in DOMAIN results : results[x].spec = r.spec => x = j
      BY <2>1, OneResultPerSpec
    <3> QED
      BY <3>1, <3>2, <3>3 DEF Hit, Fires, Matches
  <2>3. r.status = ComputeStatus(r.value, s.threshold, s.upper)
    BY DEF OriginInv, ResultOf
  <2>4. s.threshold \in Seq(Int) /\ s.upper \in BOOLEAN
    <3>1. s \in MetricSpec
      BY <2>1, RunnerAssumption DEF Specs
    <3> QED
      BY <3>1 DEF MetricSpec
  <2>5. p.threshold = <<>> => (Evaluate(p, r) <=> r.status = "fail")
    BY DEF Evaluate
  <2>6. ASSUME p.threshold = s.threshold, p.upper = s.upper, Len(s.threshold) = 1
        PROVE  Evaluate(p, r) <=> r.status = "fail" /\ r.value.kind = "num"
    <3>1. p.threshold # <<>> /\ s.threshold[1] \in Int
      <4>1. ASSUME NEW q \in Seq(Int), Len(q) = 1
            PROVE  q # <<>> /\ q[1] \in Int
        <5>1. 1 \in DOMAIN q
          BY <4>1
        <5>2. q[1] \in Int
          BY <5>1
        <5>3. q # <<>>
          BY <5>1
        <5> QED
          BY <5>2, <5>3
      <4> QED
        BY <2>4, <2>6, <4>1
    <3>2. Evaluate(p, r) <=> IF s.upper THEN Above(r.value, s.threshold[1])
                                        ELSE Below(r.value, s.threshold[1])
      BY <2>6, <3>1 DEF Evaluate
    <3>3. r.status = "fail" <=> ~(IF s.upper THEN AtMost(r.value, s.threshold[1])
                                             ELSE AtLeast(r.value, s.threshold[1]))
      BY <2>3, <2>6 DEF ComputeStatus, Verdict
    <3>4. r.value.kind = "num" => r.value.num \in Int
      BY <2>1 DEF Value, NaN, Other
    <3> HIDE DEF r, s, p
    <3> QED
      BY <2>4, <3>1, <3>2, <3>3, <3>4 DEF Above, Below, AtMost, AtLeast
  <2> QED
    BY <2>2, <2>5, <2>6
<1> QED
  BY <1>1, AlertInvariance, OriginInvariance, PTL

(***************************************************************************)
(* A run implements its contract.                                           *)
(***************************************************************************)

(* From the split on there is no finished future left to collect. *)
DrainInv == pc \in {"split"} \cup {"alerts", "profile"} \cup Dispatching => finished = {}

(* DrainInv is inductive. *)
LEMMA DrainStep ==
  ASSUME TypeOK, PoolInv, DrainInv, [Next]_vars
  PROVE  DrainInv'
<1> USE DEF Dispatching
<1>1. CASE UNCHANGED vars
  BY <1>1 DEF vars, DrainInv
<1>2. CASE Prepare \/ RunSequential \/ Submit \/ Start \/ (\E i \in active : Finish(i))
           \/ (\E f \in finished : Collect(f)) \/ Die
  <2>1. pc' \in {"submit", "metrics", "raised", "died"}
    BY <1>2 DEF Prepare, RunSequential, Submit, Start, Finish, Collect, Die
  <2> QED
    BY <2>1 DEF DrainInv
<1>3. CASE AllCollected
  <2>1. \A i \in Specs : Places(i) = 1
    BY <1>3, SpecsAreIndices DEF AllCollected, PoolInv, Issued
  <2>2. SpecsOf(pairs) \in Seq(Specs) /\ Len(SpecsOf(pairs)) = Len(Plan)
    BY <1>3, SpecsOfType, PairSpecs DEF AllCollected, TypeOK
  <2>3. \A i \in Specs : Count(SpecsOf(pairs), i) <= 1
    BY <2>1, PlaceTypes DEF Places, Collected, PoolInv
  <2>4. \A i \in Specs : Collected(i) = 1
    BY <2>2, <2>3, CountAll, SpecsAreIndices DEF Collected
  <2>5. \A i \in Specs : Done(i) = 0
    BY <2>1, <2>4, PlaceTypes DEF Places, PoolInv
  <2>6. ASSUME NEW f \in finished PROVE FALSE
    <3> DEFINE S == {g \in finished : g.spec = f.spec}
    <3>1. f.spec \in Specs
      BY PairSpecs DEF TypeOK
    <3>2. Cardinality(S) = 0
      BY <2>5, <3>1 DEF Done
    <3>3. IsFiniteSet(S)
      <4>1. S \in SUBSET finished
        OBVIOUS
      <4> QED
        BY <4>1, FS_Subset DEF PoolInv
    <3>4. f \in S
      OBVIOUS
    <3> HIDE DEF S
    <3> QED
      BY <3>2, <3>3, <3>4, FS_EmptySet
  <2> QED
    BY <1>3, <2>6 DEF AllCollected, DrainInv, pool
<1>4. CASE Split \/ EvaluateRule \/ AfterAlerts \/ Profile \/ StoreWrite \/ SinkWrite \/ ChannelWrite
  BY <1>4
  DEF Split, EvaluateRule, AfterAlerts, Profile, StoreWrite, SinkWrite, ChannelWrite,
      pool, DrainInv
<1> QED
  BY <1>1, <1>2, <1>3, <1>4 DEF Next, Main, Worker

(* Sinks are told in order, all of them before any channel. *)
ToldSink(s) == \E x \in DOMAIN told : told[x] = [rule |-> 0, dest |-> Sinks[s]]

SinkInv ==
  /\ pc \in {"profile", "store"} => at = 1
  /\ pc = "sinks" => at <= Len(Sinks) + 1 /\ \A s \in 1..(at - 1) : ToldSink(s)
  /\ pc \in {"channels", "returned"} => \A s \in DOMAIN Sinks : ToldSink(s)

(* SinkInv is inductive. *)
LEMMA SinkStep ==
  ASSUME TypeOK, SinkInv, [Next]_vars
  PROVE  SinkInv'
<1>1. CASE UNCHANGED vars
  BY <1>1 DEF vars, SinkInv, ToldSink
<1>2. CASE Prepare \/ RunSequential \/ Submit \/ Start \/ (\E i \in active : Finish(i))
           \/ (\E f \in finished : Collect(f)) \/ AllCollected \/ Split \/ EvaluateRule \/ Die
  <2>1. pc' \in {"submit", "metrics", "split", "alerts", "raised", "died"}
    BY <1>2
    DEF Prepare, RunSequential, Submit, Start, Finish, Collect, AllCollected, Split,
        EvaluateRule, Die
  <2> QED
    BY <2>1 DEF SinkInv
<1>3. CASE AfterAlerts \/ Profile
  <2>1. pc' \in {"profile", "store", "raised"} /\ (pc' # "raised" => at' = 1)
    BY <1>3 DEF AfterAlerts, Profile, SinkInv, loop
  <2> QED
    BY <2>1 DEF SinkInv
<1>4. CASE StoreWrite
  <2>1. pc' = "sinks" /\ at' = 1 /\ Len(Sinks) \in Nat
    BY <1>4, RunnerAssumption DEF StoreWrite, SinkInv, loop
  <2> QED
    BY <2>1 DEF SinkInv
<1>5. ASSUME NEW n, told' = Append(told, n)
      PROVE  /\ \A s : ToldSink(s) => ToldSink(s)'
             /\ \E x \in DOMAIN told' : told'[x] = n
  <2>1. /\ \A x \in DOMAIN told : x \in DOMAIN told' /\ told'[x] = told[x]
        /\ Len(told) + 1 \in DOMAIN told' /\ told'[Len(told) + 1] = n
    BY <1>5 DEF TypeOK
  <2> QED
    BY <2>1 DEF ToldSink
<1>6. CASE SinkWrite
  <2>1. pc = "sinks" /\ at \in Nat \ {0} /\ at <= Len(Sinks) + 1 /\ Len(Sinks) \in Nat
        /\ DOMAIN Sinks = 1..Len(Sinks)
    BY <1>6, RunnerAssumption DEF SinkWrite, SinkInv, TypeOK
  <2>2. CASE at <= Len(Sinks)
    <3>1. /\ told' = Append(told, [rule |-> 0, dest |-> Sinks[at]])
          /\ at' = at + 1 /\ pc' = "sinks"
      BY <1>6, <2>2 DEF SinkWrite, Tell
    <3>2. ASSUME NEW s \in 1..(at' - 1) PROVE ToldSink(s)'
      <4>1. s = at \/ s \in 1..(at - 1)
        BY <2>1, <3>1
      <4>2. s \in 1..(at - 1) => ToldSink(s)
        BY <2>1 DEF SinkInv
      <4>3. s = at => ToldSink(s)'
        BY <1>5, <3>1 DEF ToldSink
      <4> QED
        BY <1>5, <3>1, <4>1, <4>2, <4>3
    <3> QED
      BY <2>1, <2>2, <3>1, <3>2 DEF SinkInv
  <2>3. CASE ~(at <= Len(Sinks))
    <3>1. pc' = "channels" /\ told' = told
      BY <1>6, <2>3 DEF SinkWrite
    <3>2. \A s \in DOMAIN Sinks : s \in 1..(at - 1)
      BY <2>1, <2>3
    <3>3. \A s \in DOMAIN Sinks : ToldSink(s)'
      BY <2>1, <3>1, <3>2 DEF SinkInv, ToldSink
    <3> QED
      BY <3>1, <3>3 DEF SinkInv
  <2> QED
    BY <2>2, <2>3
<1>7. CASE ChannelWrite
  <2>1. pc = "channels" /\ pc' \in {"channels", "returned"}
    BY <1>7 DEF ChannelWrite
  <2>2. UNCHANGED told \/ \E n : told' = Append(told, n)
    BY <1>7 DEF ChannelWrite, Tell
  <2>3. \A s : ToldSink(s) => ToldSink(s)'
    BY <1>5, <2>2 DEF ToldSink
  <2> QED
    BY <2>1, <2>3 DEF SinkInv
<1> QED
  BY <1>1, <1>2, <1>3, <1>4, <1>6, <1>7 DEF Next, Main, Worker

(* All that the contract rests on. *)
RunInv == /\ TypeOK /\ EffectInv /\ PoolInv /\ SplitInv /\ AlertInv /\ ChannelInv
          /\ OriginInv /\ DrainInv /\ SinkInv

THEOREM RunInvariance == Spec => []RunInv
<1>1. Init => DrainInv /\ SinkInv
  BY DEF Init, DrainInv, SinkInv, Dispatching
<1>2. TypeOK /\ PoolInv /\ DrainInv /\ SinkInv /\ [Next]_vars => DrainInv' /\ SinkInv'
  BY DrainStep, SinkStep
<1>3. Spec => [](TypeOK /\ PoolInv /\ DrainInv /\ SinkInv)
  BY <1>1, <1>2, PoolInvariance, PTL DEF Spec
<1> QED
  BY <1>3, EffectInvariance, SplitInvariance, ChannelInvariance, OriginInvariance, PTL
  DEF RunInv

----------------------------------------------------------------------------
(* The steps of a run, as steps of the contract. *)

AllPairs == finished \cup {pairs[x] : x \in DOMAIN pairs}

LEMMA OutcomesAre == \A i : OutcomesOf(i) = {p.outcome : p \in {q \in AllPairs : q.spec = i}}
  BY DEF OutcomesOf, AllPairs

(* What a step changes of the outcomes: nothing, if the pairs only change   *)
(* hands; one outcome, if a pair of a spec without one is new.               *)
LEMMA OutcomesStand ==
  ASSUME AllPairs' = AllPairs
  PROVE  \A i : OutcomeOf(i)' = OutcomeOf(i)
<1>1. \A i : OutcomesOf(i)' = OutcomesOf(i)
  BY DEF OutcomesOf, AllPairs
<1> QED
  BY <1>1 DEF OutcomeOf

LEMMA OneOutcomeMore ==
  ASSUME NEW p, AllPairs' = AllPairs \cup {p}, \A q \in AllPairs : q.spec # p.spec
  PROVE  /\ OutcomeOf(p.spec) = [kind |-> "pending", num |-> 0]
         /\ OutcomeOf(p.spec)' = p.outcome
         /\ \A i : i # p.spec => OutcomeOf(i)' = OutcomeOf(i)
<1>1. \A i : OutcomesOf(i) = {q.outcome : q \in {r \in AllPairs : r.spec = i}}
  BY OutcomesAre
<1>2. \A i : OutcomesOf(i)' = {q.outcome : q \in {r \in AllPairs \cup {p} : r.spec = i}}
  BY DEF OutcomesOf, AllPairs
<1>3. OutcomesOf(p.spec) = {}
  BY <1>1
<1>4. OutcomesOf(p.spec)' = {p.outcome}
  <2>1. {r \in AllPairs \cup {p} : r.spec = p.spec} = {p}
    OBVIOUS
  <2> QED
    BY <1>2, <2>1
<1>5. \A i : i # p.spec => OutcomesOf(i)' = OutcomesOf(i)
  <2>1. ASSUME NEW i, i # p.spec
        PROVE  {r \in AllPairs \cup {p} : r.spec = i} = {r \in AllPairs : r.spec = i}
    BY <2>1
  <2> QED
    BY <1>1, <1>2, <2>1
<1>6. OutcomeOf(p.spec)' = p.outcome
  <2>1. Only({p.outcome}) = p.outcome
    BY DEF Only
  <2> QED
    BY <1>4, <2>1 DEF OutcomeOf
<1> QED
  BY <1>3, <1>5, <1>6 DEF OutcomeOf

(* A spec that a worker computes, or whose turn it is, has no pair. *)
LEMMA NoPairYet ==
  ASSUME TypeOK, PoolInv, pc \in {"submit", "metrics"}, NEW i \in Specs,
         \/ i \in active
         \/ nJobs = 1 /\ i \notin Issued
         , NEW q \in AllPairs
  PROVE  q.spec # i
<1> SUFFICES ASSUME q.spec = i PROVE FALSE
  OBVIOUS
<1>1. Queued(i) \in Nat /\ Done(i) \in Nat /\ Collected(i) \in Nat
      /\ Running(i) = IF i \in active THEN 1 ELSE 0
  BY PlaceTypes DEF PoolInv
<1>2. Places(i) = IF i \in Issued THEN 1 ELSE 0
  BY DEF PoolInv
<1>3. Done(i) = 0 /\ Collected(i) = 0
  BY <1>1, <1>2 DEF Places
<1>4. CASE q \in finished
  <2> DEFINE S == {g \in finished : g.spec = i}
  <2>1. IsFiniteSet(S)
    <3>1. S \in SUBSET finished
      OBVIOUS
    <3> QED
      BY <3>1, FS_Subset DEF PoolInv
  <2>2. Cardinality(S) = 0 /\ q \in S
    BY <1>3, <1>4 DEF Done
  <2> HIDE DEF S
  <2> QED
    BY <2>1, <2>2, FS_EmptySet
<1>5. CASE \E x \in DOMAIN pairs : q = pairs[x]
  <2>1. SpecsOf(pairs) \in Seq(Specs)
    BY SpecsOfType, PairSpecs DEF TypeOK
  <2>2. \E x \in DOMAIN SpecsOf(pairs) : SpecsOf(pairs)[x] = i
    BY <1>5 DEF SpecsOf
  <2> QED
    BY <1>3, <2>1, <2>2, CountPositions DEF Collected
<1> QED
  BY <1>4, <1>5 DEF AllPairs

LEMMA FinishSettles ==
  ASSUME RunInv, NEW i \in active, Finish(i)
  PROVE  Contract!Settle(i) /\ i \in Specs
<1> TypeOK /\ PoolInv
  BY DEF RunInv
<1>1. i \in Specs /\ pc \in {"submit", "metrics"}
  BY DEF TypeOK, Finish
<1>2. PICK o \in Values \cup {Error} : finished' = finished \cup {[spec |-> i, outcome |-> o]}
  BY <1>1, OutcomeTypes DEF Finish
<1> DEFINE p == [spec |-> i, outcome |-> o]
<1>3. AllPairs' = AllPairs \cup {p}
  BY <1>2 DEF AllPairs, Finish
<1>4. \A q \in AllPairs : q.spec # p.spec
  BY <1>1, NoPairYet
<1>5. /\ OutcomeOf(i) = [kind |-> "pending", num |-> 0] /\ OutcomeOf(i)' = o
      /\ \A j : j # i => OutcomeOf(j)' = OutcomeOf(j)
  <2>1. p.spec = i /\ p.outcome = o
    OBVIOUS
  <2> HIDE DEF p
  <2> QED
    BY <1>3, <1>4, <2>1, OneOutcomeMore
<1>6. [j \in Specs |-> OutcomeOf(j)]' = [[j \in Specs |-> OutcomeOf(j)] EXCEPT ![i] = o]
  BY <1>1, <1>5
<1>7. /\ Stage = "computing" /\ Stage' = "computing" /\ ~Concluded /\ ~Concluded'
      /\ UNCHANGED <<stored, told>>
  BY <1>1 DEF Finish, Stage, Concluded, Dispatching, effects
<1> QED
  BY <1>1, <1>5, <1>6, <1>7 DEF Contract!Settle, Contract!Pending, Contract!Error, Error

LEMMA SequentialSettles ==
  ASSUME RunInv, RunSequential
  PROVE  \E i \in Specs : Contract!Settle(i)
<1> TypeOK /\ PoolInv
  BY DEF RunInv
<1> PICK i \in Specs : i = Len(pairs) + 1
  BY SpecsAreIndices DEF RunSequential, TypeOK
<1>1. pc = "metrics" /\ nJobs = 1 /\ Len(pairs) \in Nat
  BY DEF RunSequential, TypeOK
<1>2. PICK o \in Values \cup {Error} : pairs' = Append(pairs, [spec |-> i, outcome |-> o])
  BY <1>1, OutcomeTypes DEF RunSequential
<1> DEFINE p == [spec |-> i, outcome |-> o]
<1>3. AllPairs' = AllPairs \cup {p}
  <2>1. /\ DOMAIN pairs' = DOMAIN pairs \cup {i} /\ pairs'[i] = p
        /\ \A x \in DOMAIN pairs : pairs'[x] = pairs[x]
    BY <1>2 DEF TypeOK
  <2>2. {pairs'[x] : x \in DOMAIN pairs'} = {pairs[x] : x \in DOMAIN pairs} \cup {p}
    <3> HIDE DEF p
    <3> QED
      BY <2>1
  <2> QED
    BY <2>2 DEF AllPairs, RunSequential, pool
<1>4. \A q \in AllPairs : q.spec # p.spec
  <2>1. i \notin Issued
    BY <1>1 DEF Issued
  <2> QED
    BY <1>1, <2>1, NoPairYet
<1>5. /\ OutcomeOf(i) = [kind |-> "pending", num |-> 0] /\ OutcomeOf(i)' = o
      /\ \A j : j # i => OutcomeOf(j)' = OutcomeOf(j)
  <2>1. p.spec = i /\ p.outcome = o
    OBVIOUS
  <2> HIDE DEF p
  <2> QED
    BY <1>3, <1>4, <2>1, OneOutcomeMore
<1>6. [j \in Specs |-> OutcomeOf(j)]' = [[j \in Specs |-> OutcomeOf(j)] EXCEPT ![i] = o]
  BY <1>1, <1>5
<1>7. /\ Stage = "computing" /\ Stage' = "computing" /\ ~Concluded /\ ~Concluded'
      /\ UNCHANGED <<stored, told>>
  BY <1>1 DEF RunSequential, Stage, Concluded, Dispatching, effects
<1>8. Contract!Settle(i)
  BY <1>5, <1>6, <1>7 DEF Contract!Settle, Contract!Pending, Contract!Error, Error
<1> QED
  BY <1>8

LEMMA CollectKeepsPairs ==
  ASSUME TypeOK, NEW f \in finished, Collect(f)
  PROVE  AllPairs' = AllPairs
<1>1. finished' = finished \ {f} /\ pairs' = Append(pairs, f)
  BY DEF Collect
<1>2. /\ DOMAIN pairs' = DOMAIN pairs \cup {Len(pairs) + 1} /\ pairs'[Len(pairs) + 1] = f
      /\ \A x \in DOMAIN pairs : pairs'[x] = pairs[x]
  BY <1>1 DEF TypeOK
<1>3. {pairs'[x] : x \in DOMAIN pairs'} = {pairs[x] : x \in DOMAIN pairs} \cup {f}
  BY <1>2
<1> QED
  BY <1>1, <1>3 DEF AllPairs

(* The report shows of every spec what became of it. *)
LEMMA ShownIsOutcome ==
  ASSUME RunInv, Reported, NEW i \in Specs
  PROVE  /\ OutcomeOf(i) = ShownOf(i)
         /\ OutcomeOf(i) # [kind |-> "pending", num |-> 0]
         /\ \A j \in DOMAIN results : results[j].spec = i => OutcomeOf(i) = results[j].value
         /\ OutcomeOf(i) # Error => \E j \in DOMAIN results : results[j].spec = i
<1> TypeOK /\ SplitInv /\ OriginInv /\ DrainInv
  BY DEF RunInv
<1>1. finished = {} /\ Count(SpecsOf(pairs), i) = 1
  BY DEF DrainInv, SplitInv, Reported
<1>2. /\ SpecsOf(pairs) \in Seq(Specs) /\ SpecsOf(results) \in Seq(Specs) /\ errors \in Seq(Specs)
      /\ DOMAIN SpecsOf(pairs) = DOMAIN pairs /\ \A x \in DOMAIN pairs : SpecsOf(pairs)[x] = pairs[x].spec
      /\ DOMAIN SpecsOf(results) = DOMAIN results
      /\ \A j \in DOMAIN results : SpecsOf(results)[j] = results[j].spec
  BY SpecsOfType, PairSpecs DEF TypeOK, SpecsOf
<1>3. ASSUME NEW x \in DOMAIN pairs, pairs[x].spec = i
      PROVE  OutcomeOf(i) = pairs[x].outcome
  <2>1. \A y \in DOMAIN pairs : pairs[y].spec = i => y = x
    BY <1>1, <1>2, <1>3, CountPositions
  <2>2. {q \in AllPairs : q.spec = i} = {pairs[x]}
    BY <1>1, <1>3, <2>1 DEF AllPairs
  <2>3. OutcomesOf(i) = {pairs[x].outcome}
    BY <2>2, OutcomesAre
  <2>4. Only({pairs[x].outcome}) = pairs[x].outcome
    BY DEF Only
  <2> QED
    BY <2>3, <2>4 DEF OutcomeOf
<1>4. ASSUME NEW j \in DOMAIN results, results[j].spec = i
      PROVE  OutcomeOf(i) = results[j].value
  <2>1. PICK x \in DOMAIN pairs : results[j] = ResultOf(pairs[x])
    BY DEF OriginInv
  <2>2. pairs[x].spec = i /\ results[j].value = pairs[x].outcome
    BY <1>4, <2>1 DEF ResultOf
  <2> QED
    BY <1>3, <2>2
<1>5. ASSUME ~\E j \in DOMAIN results : results[j].spec = i
      PROVE  OutcomeOf(i) = Error
  <2>1. Count(SpecsOf(results), i) = 0
    BY <1>2, <1>5, CountPositions
  <2>2. Count(errors, i) = 1
    <3>1. Count(SpecsOf(results), i) + Count(errors, i) = 1
      BY DEF SplitInv, Taken
    <3>2. Count(errors, i) \in Nat
      BY <1>2, CountIsUpto
    <3> QED
      BY <2>1, <3>1, <3>2
  <2>3. PICK j \in DOMAIN errors : errors[j] = i
    BY <1>2, <2>2, CountPositions
  <2>4. PICK x \in DOMAIN pairs : Failed(pairs[x]) /\ errors[j] = pairs[x].spec
    BY DEF OriginInv
  <2> QED
    BY <1>3, <2>3, <2>4 DEF Failed
<1>6. ASSUME NEW j \in DOMAIN results PROVE results[j].value # [kind |-> "pending", num |-> 0]
  <2>1. results[j] \in Result
    BY DEF TypeOK
  <2>2. results[j].value \in Value \/ results[j].value = Error
    BY <2>1, RunnerAssumption DEF Result
  <2> QED
    BY <2>2 DEF Value, NaN, Other, Error
<1>7. Error # [kind |-> "pending", num |-> 0]
  BY DEF Error
<1> QED
  BY <1>4, <1>5, <1>6, <1>7 DEF ShownOf

(* The contract reads thresholds and policies as the run does. *)
LEMMA SameJudgement ==
  /\ \A v, t, u : Contract!ComputeStatus(v, t, u) = ComputeStatus(v, t, u)
  /\ \A p, r : Contract!Evaluate(p, r) = Evaluate(p, r)
<1>1. /\ \A v, x : Contract!AtMost(v, x) = AtMost(v, x)
      /\ \A v, x : Contract!AtLeast(v, x) = AtLeast(v, x)
      /\ \A v, x : Contract!Above(v, x) = Above(v, x)
      /\ \A v, x : Contract!Below(v, x) = Below(v, x)
  BY DEF Contract!AtMost, Contract!AtLeast, Contract!Above, Contract!Below,
         AtMost, AtLeast, Above, Below
<1>2. \A b : Contract!Verdict(b) = Verdict(b)
  BY DEF Contract!Verdict, Verdict
<1> QED
  BY <1>1, <1>2 DEF Contract!ComputeStatus, ComputeStatus, Contract!Evaluate, Evaluate

(* With every rule tried on every result, the alerts are those that the     *)
(* outcomes call for.                                                         *)
LEMMA AlertsAreThose ==
  ASSUME RunInv, Reported, \A k \in DOMAIN Rules : Tried(k) = DOMAIN results
  PROVE  {fired[j] : j \in DOMAIN fired} = Contract!AlertsOf([i \in Specs |-> OutcomeOf(i)])
<1> TypeOK /\ AlertInv /\ OriginInv
  BY DEF RunInv
<1>1. /\ Alert = [rule : DOMAIN Rules, spec : Specs]
      /\ \A j \in DOMAIN fired : fired[j] \in Alert
  <2>1. \A j \in DOMAIN fired : fired[j] \in Alert
    BY DEF TypeOK
  <2> QED
    BY <2>1 DEF Alert
<1>2. ASSUME NEW a \in Alert
      PROVE  (\E j \in DOMAIN fired : fired[j] = a) <=>
               /\ Rules[a.rule].metric = Plan[a.spec].name
               /\ OutcomeOf(a.spec) # Error
               /\ Evaluate(Rules[a.rule].policy, Contract!Reading(a.spec, OutcomeOf(a.spec)))
  <2> DEFINE k == a.rule
             i == a.spec
  <2>1. k \in DOMAIN Rules /\ i \in Specs /\ a = [rule |-> k, spec |-> i]
    BY <1>1
  <2>2. (\E j \in DOMAIN fired : fired[j] = a) <=> Hit(k, i)
    BY <2>1, AlertedIsHit DEF Alerted
  <2>3. Hit(k, i) <=> \E j \in DOMAIN results :
                        /\ results[j].spec = i /\ Plan[i].name = Rules[k].metric
                        /\ Evaluate(Rules[k].policy, results[j])
    BY <2>1 DEF Hit, Fires, Matches
  <2>4. ASSUME NEW j \in DOMAIN results, results[j].spec = i
        PROVE  /\ OutcomeOf(i) # Error
               /\ Evaluate(Rules[k].policy, results[j])
                    <=> Evaluate(Rules[k].policy, Contract!Reading(i, OutcomeOf(i)))
    <3>1. OutcomeOf(i) = results[j].value
      BY <2>1, <2>4, ShownIsOutcome
    <3>2. PICK x \in DOMAIN pairs : Succeeded(pairs[x]) /\ results[j] = ResultOf(pairs[x])
      BY DEF OriginInv
    <3>3. results[j].status = ComputeStatus(OutcomeOf(i), Plan[i].threshold, Plan[i].upper)
      BY <2>4, <3>1, <3>2 DEF ResultOf
    <3>4. OutcomeOf(i) # Error
      BY <3>1, <3>2 DEF Succeeded, ResultOf
    <3>5. /\ Contract!Reading(i, OutcomeOf(i)).value = results[j].value
          /\ Contract!Reading(i, OutcomeOf(i)).status = results[j].status
      BY <3>1, <3>3, SameJudgement DEF Contract!Reading
    <3> QED
      BY <3>4, <3>5 DEF Evaluate
  <2>5. OutcomeOf(i) # Error => \E j \in DOMAIN results : results[j].spec = i
    BY <2>1, ShownIsOutcome
  <2> QED
    BY <2>2, <2>3, <2>4, <2>5
<1> DEFINE o == [i \in Specs |-> OutcomeOf(i)]
<1>3. \A a \in Alert : o[a.spec] = OutcomeOf(a.spec)
  BY DEF Alert
<1>4. Contract!AlertsOf(o) = {a \in Alert : \E j \in DOMAIN fired : fired[j] = a}
  <2> HIDE DEF o
  <2> QED
    BY <1>1, <1>2, <1>3, SameJudgement DEF Contract!AlertsOf, Contract!Specs, Contract!Error, Error, Specs
<1> QED
  BY <1>1, <1>4

(* The report is there, and the step leaves it alone. *)
LEMMA ReportStands ==
  ASSUME Concluded, Concluded', UNCHANGED <<pool, pairs, report>>
  PROVE  UNCHANGED <<[i \in Specs |-> OutcomeOf(i)],
                     IF Concluded THEN [i \in Specs |-> ShownOf(i)] ELSE <<>>,
                     IF Concluded THEN {fired[j] : j \in DOMAIN fired} ELSE {}>>
<1>1. \A i : OutcomeOf(i)' = OutcomeOf(i)
  BY OutcomesStand DEF AllPairs, pool
<1>2. \A i : ShownOf(i)' = ShownOf(i)
  BY DEF ShownOf, report
<1> QED
  BY <1>1, <1>2 DEF report

(* There is no report before and after a step that no metric returns in. *)
LEMMA ComputingStands ==
  ASSUME ~Concluded, ~Concluded', AllPairs' = AllPairs, Stage' = Stage, UNCHANGED <<stored, told>>
  PROVE  UNCHANGED Contract!contractVars
<1>1. \A i : OutcomeOf(i)' = OutcomeOf(i)
  BY OutcomesStand
<1> QED
  BY <1>1 DEF Contract!contractVars

(* After the last rule, the report and its alerts are what the contract     *)
(* makes of the outcomes.                                                     *)
LEMMA AlertsConclude ==
  ASSUME RunInv, AfterAlerts
  PROVE  Contract!Conclude
<1> DEFINE o == [i \in Specs |-> OutcomeOf(i)]
<1>1. /\ pc = "alerts" /\ pc' = "profile" /\ at > Len(Rules)
      /\ UNCHANGED <<pool, pairs, report, effects>>
  BY DEF AfterAlerts
<1>2. Reported /\ ~Concluded /\ Concluded' /\ Stage = "computing" /\ Stage' = "concluded"
  BY <1>1 DEF Reported, Concluded, Stage, Dispatching
<1>3. \A i : OutcomeOf(i)' = OutcomeOf(i)
  BY <1>1, OutcomesStand DEF AllPairs, pool
<1>4. \A i \in Specs : ShownOf(i)' = OutcomeOf(i) /\ OutcomeOf(i) # [kind |-> "pending", num |-> 0]
  <2>1. \A i : ShownOf(i)' = ShownOf(i)
    BY <1>1 DEF ShownOf, report
  <2> QED
    BY <1>2, <2>1, ShownIsOutcome
<1>5. {fired[j] : j \in DOMAIN fired} = Contract!AlertsOf(o)
  <2>1. \A k \in DOMAIN Rules : k < at
    BY <1>1, RunnerAssumption DEF RunInv, TypeOK
  <2>2. \A k \in DOMAIN Rules : Tried(k) = DOMAIN results
    BY <2>1 DEF Tried
  <2> QED
    BY <1>2, <2>2, AlertsAreThose
<1>6. o' = o /\ [i \in Specs |-> ShownOf(i)]' = o
  BY <1>3, <1>4
<1>7. \A i \in Specs : o[i] # [kind |-> "pending", num |-> 0]
  BY <1>4
<1> HIDE DEF o
<1> QED
  BY <1>1, <1>2, <1>5, <1>6, <1>7
  DEF Contract!Conclude, Contract!Specs, Specs, Contract!Pending, o, report, effects

(* What raises has no effect yet, and what dies keeps what it had. *)
LEMMA RaisingLoses ==
  ASSUME RunInv, [Next]_vars, pc # "raised", pc' = "raised"
  PROVE  Contract!Raise
<1>1. Prepare \/ EvaluateRule \/ Profile
  BY DEF Next, Main, Worker, vars, RunSequential, Submit, Start, Finish, Collect, AllCollected,
         Split, AfterAlerts, StoreWrite, SinkWrite, ChannelWrite, Die
<1>2. pc \in {"prepare", "alerts", "profile"} /\ UNCHANGED <<pool, pairs, effects>>
  BY <1>1 DEF Prepare, EvaluateRule, Profile
<1>3. ~stored /\ told = <<>>
  BY <1>2 DEF RunInv, EffectInv, Quiet
<1>4. \A i : OutcomeOf(i)' = OutcomeOf(i)
  BY <1>2, OutcomesStand DEF AllPairs, pool
<1>5. Stage \in {"computing", "concluded"} /\ Stage' = "raised" /\ ~Concluded'
  BY <1>2 DEF Stage, Concluded, Dispatching
<1> QED
  BY <1>2, <1>3, <1>4, <1>5 DEF Contract!Raise, Contract!Lose, effects

LEMMA DyingLoses ==
  ASSUME Die
  PROVE  Contract!Die
<1>1. \A i : OutcomeOf(i)' = OutcomeOf(i)
  BY OutcomesStand DEF Die, AllPairs, pool
<1>2. Stage \in {"computing", "concluded"} /\ Stage' = "died" /\ ~Concluded'
  BY DEF Die, Stage, Concluded, Dispatching
<1> QED
  BY <1>1, <1>2 DEF Contract!Die, Contract!Lose, Die, effects

(* Writing to the store, to a sink and to a channel. *)
LEMMA StoreWriteStores ==
  ASSUME RunInv, StoreWrite
  PROVE  Contract!Store \/ UNCHANGED Contract!contractVars
<1>1. /\ pc = "store" /\ pc' = "sinks" /\ (stored' = TRUE \/ UNCHANGED stored)
      /\ UNCHANGED <<pool, pairs, report, told>>
  BY DEF StoreWrite
<1>2. Stage = "concluded" /\ Stage' = "concluded" /\ Concluded /\ Concluded'
  BY <1>1 DEF Stage, Concluded, Dispatching
<1>3. told = <<>>
  BY <1>1 DEF RunInv, ChannelInv
<1>4. CASE stored' = TRUE
  BY <1>1, <1>2, <1>3, <1>4, ReportStands DEF Contract!Store
<1>5. CASE UNCHANGED stored
  BY <1>1, <1>2, <1>5, ReportStands DEF Contract!contractVars
<1> QED
  BY <1>1, <1>4, <1>5

(* A notice more. *)
LEMMA NoticeTells ==
  ASSUME TypeOK, NEW n \in Contract!Allowed, told' = Append(told, n),
         Stage = "concluded", Stage' = "concluded", Concluded, Concluded',
         UNCHANGED <<pool, pairs, report, stored>>
  PROVE  Contract!Tell(n)
<1>1. /\ DOMAIN told' = DOMAIN told \cup {Len(told) + 1} /\ told'[Len(told) + 1] = n
      /\ \A x \in DOMAIN told : told'[x] = told[x]
  BY DEF TypeOK
<1>2. {told'[x] : x \in DOMAIN told'} = {told[x] : x \in DOMAIN told} \cup {n}
  BY <1>1
<1> QED
  BY <1>2, ReportStands DEF Contract!Tell

LEMMA SinkWriteTells ==
  ASSUME RunInv, SinkWrite
  PROVE  (\E n \in Contract!Allowed : Contract!Tell(n)) \/ UNCHANGED Contract!contractVars
<1> TypeOK
  BY DEF RunInv
<1>1. pc = "sinks" /\ pc' \in {"sinks", "channels"} /\ UNCHANGED <<pool, pairs, report, stored>>
  BY DEF SinkWrite
<1>2. Stage = "concluded" /\ Stage' = "concluded" /\ Concluded /\ Concluded'
  BY <1>1 DEF Stage, Concluded, Dispatching
<1>3. CASE at <= Len(Sinks)
  <2> DEFINE n == [rule |-> 0, dest |-> Sinks[at]]
  <2>1. at \in DOMAIN Sinks
    BY <1>3, RunnerAssumption DEF TypeOK
  <2>2. n \in Contract!Allowed
    BY <2>1 DEF Contract!Allowed, Contract!ToSinks
  <2>3. told' = Append(told, n)
    BY <1>3 DEF SinkWrite, Tell
  <2> HIDE DEF n
  <2> QED
    BY <1>1, <1>2, <2>2, <2>3, NoticeTells
<1>4. CASE ~(at <= Len(Sinks))
  BY <1>1, <1>2, <1>4, ReportStands DEF SinkWrite, Contract!contractVars
<1> QED
  BY <1>3, <1>4

LEMMA ChannelWriteTells ==
  ASSUME RunInv, ChannelWrite
  PROVE  \/ \E n \in Contract!Allowed : Contract!Tell(n)
         \/ Contract!Return
         \/ UNCHANGED Contract!contractVars
<1> TypeOK /\ AlertInv /\ ChannelInv /\ SinkInv
  BY DEF RunInv
<1>1. /\ pc = "channels" /\ pc' \in {"channels", "returned"}
      /\ UNCHANGED <<pool, pairs, report, stored>>
  BY DEF ChannelWrite
<1>2. /\ Stage = "concluded" /\ Concluded /\ Concluded'
      /\ Stage' = IF pc' = "returned" THEN "returned" ELSE "concluded"
  BY <1>1 DEF Stage, Concluded, Dispatching
<1>3. ASSUME at <= Len(Rules), Notified(at), item <= Len(Rules[at].channels),
             told' = Append(told, [rule |-> at, dest |-> Rules[at].channels[item]]),
             pc' = "channels"
      PROVE  \E n \in Contract!Allowed : Contract!Tell(n)
  <2> DEFINE n == [rule |-> at, dest |-> Rules[at].channels[item]]
  <2>1. at \in DOMAIN Rules /\ item \in DOMAIN Rules[at].channels
    BY <1>3, RuleTypes, RunnerAssumption DEF TypeOK
  <2>2. n \in Contract!ToChannels(at)
    BY <2>1 DEF Contract!ToChannels
  <2>3. at \in Contract!Watching
    BY <1>2, <1>3, <2>1 DEF Notified, FiredMetricNames, Contract!Watching
  <2>4. n \in Contract!Allowed
    BY <2>2, <2>3 DEF Contract!Allowed
  <2>5. told' = Append(told, n)
    BY <1>3
  <2> HIDE DEF n
  <2> QED
    BY <1>1, <1>2, <1>3, <2>4, <2>5, NoticeTells
<1>4. ASSUME pc' = "channels", UNCHANGED told
      PROVE  UNCHANGED Contract!contractVars
  BY <1>1, <1>2, <1>4, ReportStands DEF Contract!contractVars
<1>5. ASSUME at > Len(Rules), pc' = "returned", UNCHANGED told
      PROVE  Contract!Return
  <2>1. \A s \in DOMAIN Sinks : ToldSink(s)
    BY <1>1 DEF SinkInv
  <2>2. ASSUME NEW j \in DOMAIN fired, NEW c \in DOMAIN Rules[fired[j].rule].channels
        PROVE  \E x \in DOMAIN told :
                 told[x] = [rule |-> fired[j].rule, dest |-> Rules[fired[j].rule].channels[c]]
    <3> DEFINE k == fired[j].rule
               d == Rules[k].channels[c]
    <3>1. fired[j] \in Alert
      BY DEF TypeOK
    <3>2. /\ k \in DOMAIN Rules /\ fired[j].spec \in Specs
          /\ fired[j] = [rule |-> k, spec |-> fired[j].spec]
      BY <3>1 DEF Alert
    <3>3. Notified(k)
      <4>1. Count(fired, [rule |-> k, spec |-> fired[j].spec]) # 0
        BY <3>2, CountPositions DEF TypeOK
      <4>2. Hit(k, fired[j].spec)
        BY <1>1, <3>2, <4>1 DEF AlertInv, Reported, Dispatching
      <4> QED
        BY <3>2, <4>2 DEF Hit, Fires, Matches, Notified, FiredMetricNames
    <3>4. k < at
      BY <1>5, <3>2, RunnerAssumption DEF TypeOK
    <3>5. Rules[k].channels \in Seq(STRING) /\ d \in STRING
      BY <3>2, RuleTypes
    <3>6. Count(told, [rule |-> k, dest |-> d]) = Count(Rules[k].channels, d)
      BY <1>1, <3>2, <3>3, <3>4, <3>5 DEF ChannelInv, Written
    <3>7. Count(Rules[k].channels, d) # 0
      BY <3>5, CountPositions
    <3> QED
      BY <3>6, <3>7, CountPositions DEF TypeOK
  <2>3. Contract!Owed \subseteq {told[x] : x \in DOMAIN told}
    BY <1>2, <2>1, <2>2
    DEF Contract!Owed, Contract!ToSinks, Contract!ToChannels, ToldSink
  <2> QED
    BY <1>1, <1>2, <1>5, <2>3, ReportStands DEF Contract!Return
<1> QED
  BY <1>1, <1>3, <1>4, <1>5 DEF ChannelWrite, Tell

(* A run implements its contract: the pool settles the specs one by one,    *)
(* the last rule concludes, the writes store and tell, all else is a stutter. *)
THEOREM RunImplementsContract == Spec => ImplementsContract
<1>1. Init => Contract!Init
  <2> SUFFICES ASSUME Init PROVE Contract!Init
    OBVIOUS
  <2>1. AllPairs = {}
    BY DEF Init, AllPairs
  <2>2. \A i : OutcomeOf(i) = [kind |-> "pending", num |-> 0]
    BY <2>1, OutcomesAre DEF OutcomeOf
  <2>3. Stage = "computing" /\ ~Concluded
    BY DEF Init, Stage, Concluded, Dispatching
  <2> QED
    BY <2>2, <2>3 DEF Init, Contract!Init, Contract!Specs, Specs, Contract!Pending
<1>2. RunInv /\ [Next]_vars => [Contract!Next]_(Contract!contractVars)
  <2> SUFFICES ASSUME RunInv, [Next]_vars PROVE [Contract!Next]_(Contract!contractVars)
    OBVIOUS
  <2> TypeOK
    BY DEF RunInv
  <2>1. CASE UNCHANGED vars
    <3>1. \A i : OutcomeOf(i)' = OutcomeOf(i) /\ ShownOf(i)' = ShownOf(i)
      BY <2>1, OutcomesStand DEF vars, AllPairs, ShownOf
    <3> QED
      BY <2>1, <3>1 DEF vars, Stage, Concluded, Contract!contractVars
  <2>2. CASE pc # "raised" /\ pc' = "raised"
    BY <2>2, RaisingLoses DEF Contract!Next
  <2>3. CASE Prepare \/ Submit \/ Start \/ AllCollected \/ Split \/ EvaluateRule
    <3>1. /\ pc \in {"prepare", "submit", "metrics", "split", "alerts"}
          /\ pc' \in {"submit", "metrics", "split", "alerts", "raised"}
          /\ UNCHANGED <<finished, pairs, effects>>
      BY <2>3 DEF Prepare, Submit, Start, AllCollected, Split, EvaluateRule, pool
    <3>2. pc' # "raised" => Stage' = Stage /\ ~Concluded /\ ~Concluded'
      BY <3>1 DEF Stage, Concluded, Dispatching
    <3> QED
      BY <2>2, <3>1, <3>2, ComputingStands DEF AllPairs, effects
  <2>4. ASSUME NEW f \in finished, Collect(f) PROVE UNCHANGED Contract!contractVars
    <3>1. pc = "metrics" /\ pc' = "metrics" /\ UNCHANGED effects
      BY <2>4 DEF Collect
    <3> QED
      BY <2>4, <3>1, CollectKeepsPairs, ComputingStands DEF Stage, Concluded, Dispatching, effects
  <2>5. CASE RunSequential \/ \E i \in active : Finish(i)
    BY <2>5, SequentialSettles, FinishSettles DEF Contract!Next, Contract!Specs, Specs
  <2>6. CASE AfterAlerts \/ Die
    BY <2>6, AlertsConclude, DyingLoses DEF Contract!Next
  <2>7. CASE Profile
    <3>1. pc = "profile" /\ pc' \in {"store", "raised"} /\ UNCHANGED <<pool, pairs, report, effects>>
      BY <2>7 DEF Profile
    <3>2. pc' # "raised" => Stage' = Stage /\ Concluded /\ Concluded'
      BY <3>1 DEF Stage, Concluded, Dispatching
    <3> QED
      BY <2>2, <3>1, <3>2, ReportStands DEF Contract!contractVars, effects
  <2>8. CASE StoreWrite \/ SinkWrite \/ ChannelWrite
    BY <2>8, StoreWriteStores, SinkWriteTells, ChannelWriteTells DEF Contract!Next
  <2> QED
    BY <2>1, <2>3, <2>4, <2>5, <2>6, <2>7, <2>8 DEF Next, Main, Worker
<1> QED
  BY <1>1, <1>2, RunInvariance, PTL DEF Spec, ImplementsContract, Contract!Spec
=============================================================================
