-------------------------- MODULE MonitoringProofs --------------------------
(***************************************************************************)
(* Theorems about Monitoring: what is registered once the extensions have     *)
(* been loaded, what becomes of a report and of its alert, and how often a     *)
(* period is stored.                                                          *)
(***************************************************************************)
EXTENDS Monitoring, FiniteSetTheorems, TLAPS

----------------------------------------------------------------------------
(* The registry. *)

(* The first n metrics of an extension are its own. *)
Owns(e, n) ==
  \A k \in 1..n : /\ Extensions[e][k] \in DOMAIN registry
                  /\ registry[Extensions[e][k]] = e

(* Between an import and the death of the process: the library's metrics,   *)
(* those of the extensions that were loaded, and those that the extension     *)
(* being loaded has registered so far, have their owner.                       *)
RegistryInv ==
  pc # "down" =>
    /\ ext \in Nat \ {0} /\ at \in Nat \ {0}
    /\ DOMAIN status = DOMAIN Extensions
    /\ \A n \in Base : n \in DOMAIN registry /\ registry[n] = 0
    /\ \A e \in DOMAIN Extensions : status[e] = "loaded" => Owns(e, Len(Extensions[e]))
    /\ pc = "import" /\ ext \in DOMAIN Extensions => Owns(ext, at - 1)

LEMMA ExtensionLists ==
  ASSUME NEW e \in DOMAIN Extensions
  PROVE  /\ e \in Nat \ {0}
         /\ Extensions[e] \in Seq(STRING)
         /\ Len(Extensions[e]) \in Nat
         /\ DOMAIN Extensions[e] = 1..Len(Extensions[e])
  BY MonitoringAssumption DEF MonitoringAssumption

(* What was registered stays registered when another name is. *)
LEMMA BoundKeeps ==
  ASSUME NEW n, NEW e, n \notin DOMAIN registry, registry' = Bound(n, e)
  PROVE  /\ n \in DOMAIN registry' /\ registry'[n] = e
         /\ \A m \in DOMAIN registry : m \in DOMAIN registry' /\ registry'[m] = registry[m]
  BY DEF Bound

LEMMA RegisterStep ==
  ASSUME RegistryInv, Register
  PROVE  RegistryInv'
<1>1. /\ pc = "import" /\ ext \in DOMAIN Extensions
      /\ at <= Len(Extensions[ext]) /\ at \in Nat \ {0} /\ ext \in Nat \ {0}
      /\ DOMAIN status = DOMAIN Extensions /\ pc' = pc
  BY DEF Register, Loading, RegistryInv, NextExtension
<1>2. CASE Extensions[ext][at] \in DOMAIN registry
  <2>1. /\ registry' = registry /\ status' = [status EXCEPT ![ext] = "failed"]
        /\ ext' = ext + 1 /\ at' = 1
    BY <1>2 DEF Register, NextExtension
  <2>2. \A e \in DOMAIN Extensions : status'[e] = "loaded" => status[e] = "loaded"
    BY <1>1, <2>1
  <2>3. \A e, n : Owns(e, n) => Owns(e, n)'
    BY <2>1 DEF Owns
  <2>4. Owns(ext, at - 1)'
    BY <2>1 DEF Owns
  <2> QED
    BY <1>1, <2>1, <2>2, <2>3, <2>4 DEF RegistryInv
<1>3. CASE Extensions[ext][at] \notin DOMAIN registry
  <2>1. /\ registry' = Bound(Extensions[ext][at], ext) /\ at' = at + 1
        /\ status' = status /\ ext' = ext
    BY <1>3 DEF Register
  <2>2. /\ Extensions[ext][at] \in DOMAIN registry' /\ registry'[Extensions[ext][at]] = ext
        /\ \A m \in DOMAIN registry : m \in DOMAIN registry' /\ registry'[m] = registry[m]
    BY <1>3, <2>1, BoundKeeps
  <2>3. \A e, n : Owns(e, n) => Owns(e, n)'
    BY <2>2 DEF Owns
  <2>4. Owns(ext, at - 1)'
    <3>1. Owns(ext, at - 1)
      BY <1>1 DEF RegistryInv
    <3>2. at' - 1 = at /\ \A k \in 1..at : k \in 1..(at - 1) \/ k = at
      BY <1>1, <2>1
    <3>3. \A k \in 1..at : /\ Extensions[ext][k] \in DOMAIN registry'
                           /\ registry'[Extensions[ext][k]] = ext
      BY <2>2, <3>1, <3>2 DEF Owns
    <3> QED
      BY <2>1, <3>2, <3>3 DEF Owns
  <2>5. at' - 1 = at /\ at' \in Nat \ {0}
    BY <1>1, <2>1
  <2> QED
    BY <1>1, <2>1, <2>2, <2>3, <2>4, <2>5 DEF RegistryInv
<1> QED
  BY <1>2, <1>3

LEMMA LoadedStep ==
  ASSUME RegistryInv, ExtensionLoaded
  PROVE  RegistryInv'
<1>1. /\ pc = "import" /\ ext \in DOMAIN Extensions /\ pc' = pc
      /\ at > Len(Extensions[ext]) /\ at \in Nat \ {0} /\ ext \in Nat \ {0}
      /\ DOMAIN status = DOMAIN Extensions
      /\ registry' = registry /\ status' = [status EXCEPT ![ext] = "loaded"]
      /\ ext' = ext + 1 /\ at' = 1
  BY DEF ExtensionLoaded, Loading, RegistryInv, NextExtension
<1>2. \A e, n : Owns(e, n) => Owns(e, n)'
  BY <1>1 DEF Owns
<1>3. Owns(ext, at - 1)'
  BY <1>1 DEF Owns
<1>4. Owns(ext, Len(Extensions[ext]))
  <2>1. Owns(ext, at - 1)
    BY <1>1 DEF RegistryInv
  <2>2. Len(Extensions[ext]) \in Nat
    BY <1>1, ExtensionLists
  <2>3. \A k \in 1..Len(Extensions[ext]) : k \in 1..(at - 1)
    BY <1>1, <2>2
  <2> QED
    BY <2>1, <2>3 DEF Owns
<1>5. \A e \in DOMAIN Extensions : status'[e] = "loaded" => status[e] = "loaded" \/ e = ext
  BY <1>1
<1> QED
  BY <1>1, <1>2, <1>3, <1>4, <1>5 DEF RegistryInv

LEMMA RaisesStep ==
  ASSUME RegistryInv, ExtensionRaises
  PROVE  RegistryInv'
<1>1. /\ pc = "import" /\ ext \in DOMAIN Extensions /\ pc' = pc /\ ext \in Nat \ {0}
      /\ DOMAIN status = DOMAIN Extensions
      /\ registry' = registry /\ status' = [status EXCEPT ![ext] = "failed"]
      /\ ext' = ext + 1 /\ at' = 1
  BY DEF ExtensionRaises, Loading, RegistryInv, NextExtension
<1>2. \A e, n : Owns(e, n) => Owns(e, n)'
  BY <1>1 DEF Owns
<1>3. Owns(ext, at - 1)'
  BY <1>1 DEF Owns
<1>4. \A e \in DOMAIN Extensions : status'[e] = "loaded" => status[e] = "loaded"
  BY <1>1
<1> QED
  BY <1>1, <1>2, <1>3, <1>4 DEF RegistryInv

LEMMA ImportStep ==
  ASSUME Import
  PROVE  RegistryInv'
<1>1. /\ pc' = "import" /\ registry' = [n \in Base |-> 0]
      /\ status' = [e \in DOMAIN Extensions |-> "pending"] /\ ext' = 1 /\ at' = 1
  BY DEF Import
<1>2. Owns(ext, at - 1)'
  BY <1>1 DEF Owns
<1> QED
  BY <1>1, <1>2 DEF RegistryInv

(* Every other step leaves the registry alone, and none starts an import. *)
LEMMA KeepsRegistry ==
  ASSUME RegistryInv, UNCHANGED imports,
         pc' = "down" \/ (pc # "down" /\ pc' # "import") \/ pc' = pc
  PROVE  RegistryInv'
<1>1. registry' = registry /\ status' = status /\ ext' = ext /\ at' = at
  BY DEF imports
<1>2. \A e, n : Owns(e, n) => Owns(e, n)'
  BY <1>1 DEF Owns
<1> QED
  BY <1>1, <1>2 DEF RegistryInv

(* The library's metrics, and those of every extension that was loaded, are  *)
(* computed by the classes that the library and the extension registered: a   *)
(* later extension neither replaces them nor takes them away when it fails.    *)
THEOREM LoadedExtensionsOwn == Spec => []ExtensionsOwnTheirs
<1>1. Init => RegistryInv
  BY DEF Init, RegistryInv
<1>2. RegistryInv /\ [Next]_vars => RegistryInv'
  <2> SUFFICES ASSUME RegistryInv, [Next]_vars PROVE RegistryInv'
    OBVIOUS
  <2>1. CASE Import
    BY <2>1, ImportStep
  <2>2. CASE Loads
    BY <2>2, RegisterStep, LoadedStep, RaisesStep DEF Loads
  <2>3. CASE Arrive \/ Imported \/ Call \/ Skip \/ Crash
    BY <2>3, KeepsRegistry DEF Arrive, Imported, Call, Skip, Crash
  <2>4. CASE Steps
    BY <2>4, KeepsRegistry DEF Steps, Resolve, Window, Sample, Filter, Validate, Evaluate,
      StoreWrite, Tell, Return, RunRaises, Goes, At, Outside, imports
  <2>5. CASE UNCHANGED vars
    BY <2>5, KeepsRegistry DEF vars, imports
  <2> QED
    BY <2>1, <2>2, <2>3, <2>4, <2>5 DEF Next
<1>3. RegistryInv => ExtensionsOwnTheirs
  <2> SUFFICES ASSUME RegistryInv, pc # "down" PROVE ExtensionsOwnTheirs
    BY DEF ExtensionsOwnTheirs
  <2>1. \A e \in DOMAIN Extensions : DOMAIN Extensions[e] = 1..Len(Extensions[e])
    BY ExtensionLists
  <2> QED
    BY <2>1 DEF RegistryInv, Owns, ExtensionsOwnTheirs
<1> QED
  BY <1>1, <1>2, <1>3, PTL DEF Spec

----------------------------------------------------------------------------
(* The calls of run(). *)

RunFields == {"period", "seen", "side", "refSide", "evaluated", "ref", "bounds", "fired",
              "stored", "warned", "reached", "end"}
IsRun(r) == r = [f \in RunFields |-> r[f]] /\ r.fired \in BOOLEAN /\ r.stored \in BOOLEAN

Stored(r) == r.stored \/ "store" \in r.warned
Told(r)   == r.reached # {} \/ "channel" \in r.warned

(* What is true of every call, over or not. *)
Explained(r) ==
  /\ IsRun(r) /\ r.end \in {"running", "returned", "raised", "died"}
  /\ r.end = "returned" => Stored(r) /\ (r.fired => Told(r))
  /\ r.end = "raised" => r.evaluated = <<>> /\ ~r.stored /\ ~r.fired
  /\ r.reached # {} => r.fired /\ Stored(r)
  /\ r.stored => plan.window.type # "time_window"

(* How far the call that is running has got. *)
Progress(r, step) ==
  /\ step \in {"resolve", "window", "sample", "filter", "validate", "evaluate"} =>
       r.evaluated = <<>> /\ ~r.stored /\ ~r.fired /\ r.reached = {}
  /\ step = "store" => ~r.stored /\ r.reached = {}
  /\ step = "tell" => Stored(r) /\ r.reached = {}
  /\ step = "return" => Stored(r) /\ (r.fired => Told(r))

(* Only the last call may be running, and is while the process is at one of  *)
(* the steps of run().                                                        *)
CallsInv ==
  /\ pc \in {"down", "import", "idle"} \cup Running
  /\ \E S : runs \in Seq(S)
  /\ \A i \in DOMAIN runs :
       /\ Explained(runs[i])
       /\ runs[i].end = "running" => i = Now /\ pc \in Running
  /\ pc \in Running => Now > 0 /\ runs[Now].end = "running" /\ Progress(runs[Now], pc)

(* A step of run() changes its own call only. *)
LEMMA OwnCallChanges ==
  ASSUME CallsInv, pc \in Running,
         NEW r, runs' = [runs EXCEPT ![Now] = r], plan' = plan,
         Explained(r),
         \/ r.end # "running" /\ pc' \in {"down", "idle"}
         \/ r.end = "running" /\ pc' \in Running /\ Progress(r, pc')
  PROVE  CallsInv'
<1>1. PICK S : runs \in Seq(S)
  BY DEF CallsInv
<1>2. /\ Len(runs) \in Nat /\ Len(runs) > 0 /\ DOMAIN runs = 1..Len(runs)
  BY <1>1 DEF CallsInv, Now
<1>3. runs' \in Seq(S \cup {r})
  BY <1>1, <1>2 DEF Now
<1>4. /\ Now' = Now /\ DOMAIN runs' = DOMAIN runs /\ runs'[Now] = r
      /\ \A i \in DOMAIN runs : i # Now => runs'[i] = runs[i]
  BY <1>1, <1>2 DEF Now
<1>5. \A i \in DOMAIN runs' : Explained(runs'[i])
  BY <1>4 DEF CallsInv
<1>6. \A x : Explained(x) => Explained(x)'
  BY DEF Explained
<1>7. \A i \in DOMAIN runs' : runs'[i].end = "running" => i = Now /\ pc' \in Running
  BY <1>4 DEF CallsInv, Running
<1>8. pc' \in {"down", "import", "idle"} \cup Running
  BY DEF Running
<1>9. pc' \in Running => r.end = "running" /\ Progress(r, pc')
  BY DEF Running
<1> QED
  BY <1>2, <1>3, <1>4, <1>5, <1>6, <1>7, <1>8, <1>9 DEF CallsInv

(* A step outside run(), and one that changes the run's data only. *)
LEMMA NoCallChanges ==
  ASSUME CallsInv, runs' = runs, plan' = plan,
         \/ pc \notin Running /\ pc' \in {"down", "import", "idle"}
         \/ pc \in Running /\ pc' \in Running /\ Progress(runs[Now], pc')
  PROVE  CallsInv'
<1>1. \A x : Explained(x) => Explained(x)'
  BY DEF Explained
<1>2. Now' = Now
  BY DEF Now
<1> QED
  BY <1>1, <1>2 DEF CallsInv, Running

LEMMA CallStarts ==
  ASSUME CallsInv, Call
  PROVE  CallsInv'
<1> DEFINE r == NewRun(Partition(table, Cutoffs[period], Width))
<1>1. pc \notin Running /\ pc' = "resolve" /\ runs' = Append(runs, r) /\ plan' = plan
  BY DEF Call, Running
<1>2. /\ IsRun(r) /\ r.end = "running" /\ ~r.stored /\ ~r.fired /\ r.reached = {}
      /\ r.evaluated = <<>>
  BY DEF NewRun, IsRun, RunFields
<1>3. Explained(r) /\ Progress(r, "resolve")
  BY <1>2 DEF Explained, Progress
<1> HIDE DEF r
<1>4. PICK S : runs \in Seq(S)
  BY DEF CallsInv
<1>5. /\ runs' \in Seq(S \cup {r}) /\ Now' = Now + 1 /\ Now \in Nat
      /\ DOMAIN runs = 1..Now /\ DOMAIN runs' = 1..(Now + 1)
      /\ runs'[Now + 1] = r /\ \A i \in DOMAIN runs : runs'[i] = runs[i]
  <2>1. r \in S \cup {r} /\ runs \in Seq(S \cup {r})
    BY <1>4
  <2> QED
    BY <1>1, <1>4, <2>1 DEF Now
<1>6. \A x : Explained(x) => Explained(x)'
  BY <1>1 DEF Explained
<1>7. \A i \in DOMAIN runs' : i = Now + 1 \/ i \in DOMAIN runs
  BY <1>5
<1>8. \A i \in DOMAIN runs' : /\ Explained(runs'[i])
                              /\ runs'[i].end = "running" => i = Now + 1
  BY <1>1, <1>3, <1>5, <1>7 DEF CallsInv
<1>9. pc' \in Running
  BY <1>1 DEF Running
<1>10. Now' > 0 /\ runs'[Now'].end = "running" /\ Progress(runs'[Now'], pc')
  BY <1>1, <1>2, <1>3, <1>5
<1> QED
  BY <1>5, <1>6, <1>8, <1>9, <1>10 DEF CallsInv

LEMMA CurrentCall ==
  ASSUME CallsInv, pc \in Running
  PROVE  /\ Now \in DOMAIN runs /\ Explained(runs[Now]) /\ IsRun(runs[Now])
         /\ runs[Now].end = "running" /\ Progress(runs[Now], pc)
<1>1. PICK S : runs \in Seq(S)
  BY DEF CallsInv
<1>2. Now \in DOMAIN runs
  BY <1>1 DEF CallsInv, Now
<1> QED
  BY <1>2 DEF CallsInv, Explained

(* run() raises before the metrics are computed. *)
LEMMA RaisedStep ==
  ASSUME CallsInv, NEW step \in {"resolve", "window", "sample", "validate"}, RunRaises(step)
  PROVE  CallsInv'
<1> DEFINE r == [runs[Now] EXCEPT !.end = "raised"]
<1>1. /\ pc = step /\ pc' = "idle" /\ plan' = plan /\ runs' = [runs EXCEPT ![Now] = r]
      /\ pc \in Running
  BY DEF RunRaises, At, Ends, Outside, Running
<1>2. IsRun(r) /\ r.end = "raised" /\ r.evaluated = <<>> /\ ~r.stored /\ ~r.fired
      /\ r.reached = {}
  BY <1>1, CurrentCall DEF IsRun, RunFields, Progress
<1>3. Explained(r)
  BY <1>2 DEF Explained
<1> QED
  BY <1>1, <1>2, <1>3, OwnCallChanges

(* The steps before the metrics leave the call as it is. *)
LEMMA DataStep ==
  ASSUME CallsInv, Resolve \/ Window \/ Sample \/ Filter \/ Validate
  PROVE  CallsInv'
<1>1. CASE \E step \in {"resolve", "window", "sample", "validate"} : RunRaises(step)
  BY <1>1, RaisedStep
<1>2. CASE \E step, next \in {"resolve", "window", "sample", "filter", "validate",
                              "evaluate"} : Goes(step, next)
  <2>1. pc \in Running /\ pc' \in Running /\ runs' = runs /\ plan' = plan
    BY <1>2 DEF Goes, At, Outside, Running
  <2>2. Progress(runs[Now], pc')
    BY <1>2, <2>1, CurrentCall DEF Goes, At, Progress
  <2> QED
    BY <2>1, <2>2, NoCallChanges
<1> QED
  BY <1>1, <1>2 DEF Resolve, Window, Sample, Filter, Validate

LEMMA EvaluateStep ==
  ASSUME CallsInv, Evaluate
  PROVE  CallsInv'
<1> DEFINE known  == {spec.name : spec \in plan.metrics} \cap DOMAIN registry
           fired  == known # {} /\ Len(work.cur) < AlertBelow
           bounds == Period(work.cols, work.cur, plan.schema)
<1>1. fired \in BOOLEAN
  OBVIOUS
<1>2. runs' = [runs EXCEPT ![Now] =
                 [runs[Now] EXCEPT !.evaluated = <<work.cur>>, !.ref = work.ref,
                                   !.bounds = bounds, !.fired = fired]]
  BY DEF Evaluate
<1> HIDE DEF fired, bounds
<1> DEFINE r == [runs[Now] EXCEPT !.evaluated = <<work.cur>>, !.ref = work.ref,
                                  !.bounds = bounds, !.fired = fired]
<1>3. pc = "evaluate" /\ pc' = "store" /\ plan' = plan /\ pc \in Running
  BY DEF Evaluate, At, Outside, Running
<1>4. IsRun(r) /\ r.end = "running" /\ ~r.stored /\ r.reached = {}
  BY <1>1, <1>3, CurrentCall DEF IsRun, RunFields, Progress
<1>5. Explained(r) /\ Progress(r, "store")
  BY <1>4 DEF Explained, Progress
<1>6. "store" \in Running
  BY DEF Running
<1> HIDE DEF r
<1> QED
  BY <1>2, <1>3, <1>4, <1>5, <1>6, OwnCallChanges DEF r

(* A write stores or raises, and stores no plan with instants. *)
LEMMA StoreSpeaks ==
  ASSUME NEW o \in StoreOutcomes
  PROVE  /\ o.stored \in BOOLEAN /\ (o.stored \/ o.raised)
         /\ o.stored => plan.window.type # "time_window"
<1>1. CASE plan.window.type = "time_window"
  <2>1. o = [stored |-> FALSE, raised |-> TRUE]
    BY <1>1 DEF StoreOutcomes
  <2> QED
    BY <2>1
<1>2. CASE plan.window.type # "time_window"
  <2>1. PICK st \in BOOLEAN, ra \in BOOLEAN : o = [stored |-> st, raised |-> ra]
    BY <1>2 DEF StoreOutcomes
  <2>2. o # [stored |-> FALSE, raised |-> FALSE]
    BY <1>2 DEF StoreOutcomes
  <2>3. st = TRUE \/ ra = TRUE
    BY <2>1, <2>2
  <2> QED
    BY <1>2, <2>1, <2>3
<1> QED
  BY <1>1, <1>2

LEMMA StoreStep ==
  ASSUME CallsInv, StoreWrite
  PROVE  CallsInv'
<1>1. PICK o \in StoreOutcomes :
        runs' = [runs EXCEPT ![Now] =
                   [runs[Now] EXCEPT !.stored = o.stored,
                      !.warned = IF o.raised THEN @ \cup {"store"} ELSE @]]
  BY DEF StoreWrite
<1> DEFINE r == [runs[Now] EXCEPT !.stored = o.stored,
                   !.warned = IF o.raised THEN @ \cup {"store"} ELSE @]
<1>2. pc = "store" /\ pc' = "tell" /\ plan' = plan /\ pc \in Running
  BY DEF StoreWrite, At, Outside, Running
<1>3. /\ IsRun(r) /\ r.end = "running" /\ r.reached = {} /\ r.stored = o.stored
      /\ r.stored \/ "store" \in r.warned
  BY <1>2, CurrentCall, StoreSpeaks DEF IsRun, RunFields, Progress
<1>4. Explained(r) /\ Progress(r, "tell")
  BY <1>3, StoreSpeaks DEF Explained, Progress, Stored
<1>5. "tell" \in Running
  BY DEF Running
<1> HIDE DEF r
<1> QED
  BY <1>1, <1>2, <1>3, <1>4, <1>5, OwnCallChanges DEF r

(* A channel raises, or somebody has the report. *)
LEMMA ChannelSpeaks ==
  ASSUME NEW o \in ChannelWrites(Channel)
  PROVE  o.raised \/ o.reached # {}
<1>1. Channel.to # {}
  BY MonitoringAssumption DEF MonitoringAssumption, ChannelValid
<1>2. CASE o = Refused
  BY <1>2 DEF Refused
<1>3. CASE o \in {[raised |-> raised, reached |-> to, body |-> body] :
                    raised \in BOOLEAN, to \in (SUBSET Channel.to) \ {{}}, body \in Bodies(Channel)}
  <2>1. PICK raised \in BOOLEAN, to \in (SUBSET Channel.to) \ {{}}, body \in Bodies(Channel) :
          o = [raised |-> raised, reached |-> to, body |-> body]
    BY <1>3
  <2>2. o.reached = to /\ to # {}
    BY <2>1
  <2> QED
    BY <2>2
<1>4. CASE o = [raised |-> TRUE, reached |-> Channel.to, body |-> "json"]
  BY <1>4
<1>5. CASE o = Delivered(Channel.to, "json")
  BY <1>1, <1>5 DEF Delivered
<1> QED
  BY <1>2, <1>3, <1>4, <1>5 DEF ChannelWrites, EmailWrites, WebhookWrites

LEMMA TellStep ==
  ASSUME CallsInv, Tell
  PROVE  CallsInv'
<1>1. /\ pc = "tell" /\ pc' = "return" /\ plan' = plan /\ pc \in Running
      /\ "return" \in Running
  BY DEF Tell, At, Outside, Running
<1>2. CASE ~runs[Now].fired
  <2>1. runs' = runs
    BY <1>2 DEF Tell
  <2>2. Progress(runs[Now], "return")
    BY <1>1, <1>2, CurrentCall DEF Progress
  <2> QED
    BY <1>1, <2>1, <2>2, NoCallChanges
<1>3. CASE runs[Now].fired
  <2>1. PICK o \in ChannelWrites(Channel) :
          runs' = [runs EXCEPT ![Now] =
                     [runs[Now] EXCEPT !.reached = o.reached,
                        !.warned = IF o.raised THEN @ \cup {"channel"} ELSE @]]
    BY <1>3 DEF Tell
  <2> DEFINE r == [runs[Now] EXCEPT !.reached = o.reached,
                     !.warned = IF o.raised THEN @ \cup {"channel"} ELSE @]
  <2>2. IsRun(r) /\ r.end = "running" /\ r.fired /\ r.stored = runs[Now].stored
        /\ r.reached = o.reached
        /\ r.warned = IF o.raised THEN runs[Now].warned \cup {"channel"} ELSE runs[Now].warned
    BY <1>1, <1>3, CurrentCall DEF IsRun, RunFields
  <2>3. Stored(r)
    BY <1>1, <2>2, CurrentCall DEF Progress, Stored
  <2>4. Told(r)
    BY <2>2, ChannelSpeaks DEF Told
  <2>5. r.stored => plan.window.type # "time_window"
    BY <1>1, <2>2, CurrentCall DEF Explained
  <2> HIDE DEF r
  <2>6. Explained(r) /\ Progress(r, "return")
    BY <2>2, <2>3, <2>4, <2>5 DEF Explained, Progress
  <2> QED
    BY <1>1, <2>1, <2>2, <2>6, OwnCallChanges DEF r
<1> QED
  BY <1>1, <1>2, <1>3, CurrentCall DEF IsRun

LEMMA ReturnStep ==
  ASSUME CallsInv, Return
  PROVE  CallsInv'
<1> DEFINE r == [runs[Now] EXCEPT !.end = "returned"]
<1>1. /\ pc = "return" /\ pc' = "idle" /\ plan' = plan /\ pc \in Running
      /\ runs' = [runs EXCEPT ![Now] = r]
  BY DEF Return, At, Ends, Outside, Running
<1>2. /\ IsRun(r) /\ r.end = "returned" /\ r.fired = runs[Now].fired
      /\ r.stored = runs[Now].stored /\ r.warned = runs[Now].warned
      /\ r.reached = runs[Now].reached
  BY <1>1, CurrentCall DEF IsRun, RunFields
<1>3. Explained(r)
  BY <1>1, <1>2, CurrentCall DEF Explained, Progress, Stored, Told
<1> HIDE DEF r
<1> QED
  BY <1>1, <1>2, <1>3, OwnCallChanges

LEMMA CrashStep ==
  ASSUME CallsInv, Crash
  PROVE  CallsInv'
<1>1. pc' = "down" /\ plan' = plan /\ pc \in Running \cup {"import"}
  BY DEF Crash
<1>2. CASE pc = "import"
  BY <1>1, <1>2, NoCallChanges DEF Crash, Running
<1>3. CASE pc # "import"
  <2> DEFINE r == [runs[Now] EXCEPT !.end = "died"]
  <2>1. runs' = [runs EXCEPT ![Now] = r] /\ pc \in Running
    BY <1>1, <1>3 DEF Crash
  <2>2. /\ IsRun(r) /\ r.end = "died" /\ r.fired = runs[Now].fired
        /\ r.stored = runs[Now].stored /\ r.warned = runs[Now].warned
        /\ r.reached = runs[Now].reached
    BY <2>1, CurrentCall DEF IsRun, RunFields
  <2>3. Explained(r)
    BY <2>1, <2>2, CurrentCall DEF Explained, Stored
  <2> HIDE DEF r
  <2> QED
    BY <1>1, <2>1, <2>2, <2>3, OwnCallChanges
<1> QED
  BY <1>2, <1>3

LEMMA CallsInvariant == Spec => []CallsInv
<1>1. Init => CallsInv
  <2> SUFFICES ASSUME Init PROVE CallsInv
    OBVIOUS
  <2>1. runs \in Seq({}) /\ DOMAIN runs = {} /\ pc = "down"
    BY DEF Init
  <2> QED
    BY <2>1 DEF CallsInv, Running
<1>2. CallsInv /\ [Next]_vars => CallsInv'
  <2> SUFFICES ASSUME CallsInv, [Next]_vars PROVE CallsInv'
    OBVIOUS
  <2>1. CASE Call
    BY <2>1, CallStarts
  <2>2. CASE Steps
    BY <2>2, DataStep, EvaluateStep, StoreStep, TellStep, ReturnStep DEF Steps
  <2>3. CASE Crash
    BY <2>3, CrashStep
  <2>4. CASE Arrive \/ Import \/ Loads \/ Imported \/ Skip
    <3>1. /\ runs' = runs /\ plan' = plan
          /\ pc \notin Running /\ pc' \in {"down", "import", "idle"}
      BY <2>4 DEF Arrive, Import, Loads, Register, ExtensionLoaded, ExtensionRaises, Loading,
        NextExtension, Imported, Skip, Running, imports
    <3> QED
      BY <3>1, NoCallChanges
  <2>5. CASE UNCHANGED vars
    <3>1. runs' = runs /\ plan' = plan /\ pc' = pc
      BY <2>5 DEF vars
    <3>2. CASE pc \in Running
      BY <3>1, <3>2, CurrentCall, NoCallChanges
    <3>3. CASE pc \notin Running
      BY <3>1, <3>3, NoCallChanges DEF CallsInv
    <3> QED
      BY <3>2, <3>3
  <2> QED
    BY <2>1, <2>2, <2>3, <2>4, <2>5 DEF Next
<1> QED
  BY <1>1, <1>2, PTL DEF Spec

(* A call that returned has stored its report and told its alert, or logged  *)
(* that it could not; nobody is told of a report whose store was not tried;    *)
(* only the death of the process leaves a stored alert untold; a call that     *)
(* raised has stored nothing.                                                 *)
THEOREM ReportsLeaveATrace == Spec => []NothingLostSilently
<1>1. CallsInv => NothingLostSilently
  <2> SUFFICES ASSUME CallsInv, NEW i \in DOMAIN runs
               PROVE NothingLostSilently!(i)
    BY DEF NothingLostSilently
  <2> QED
    BY CurrentCall DEF CallsInv, Explained, Progress, Stored, Told, Running, IsRun
<1> QED
  BY <1>1, CallsInvariant, PTL

----------------------------------------------------------------------------
(* The periods. *)

(* A call that may have stored its report for good, and will not be repeated *)
(* on its account: it is running, or it returned.                             *)
Kept(r) == r.end \in {"running", "returned"}

(* The caller goes through the periods in order, and leaves one for good when *)
(* a call of it has returned.                                                 *)
PeriodInv ==
  /\ period \in Int
  /\ \A i \in DOMAIN runs :
       /\ runs[i].period \in Int /\ runs[i].period <= period
       /\ runs[i].end = "returned" => runs[i].period < period
       /\ runs[i].end = "running" => runs[i].period = period
  /\ \A i, j \in DOMAIN runs :
       runs[i].period = runs[j].period /\ Kept(runs[i]) /\ Kept(runs[j]) => i = j

(* What a step of run(), or the death of the process, makes of the call. *)
Moves(r) ==
  /\ runs' = [runs EXCEPT ![Now] = r]
  /\ r.period = runs[Now].period
  /\ \/ r.end = "running" /\ period' = period
     \/ r.end = "returned" /\ period' = period + 1
     \/ r.end \in {"raised", "died"} /\ period' \in {period, period + 1}

LEMMA RunMoves ==
  ASSUME CallsInv, Steps \/ (Crash /\ pc # "import")
  PROVE  pc \in Running /\ \E r : Moves(r)
<1>1. PICK S : runs \in Seq(S)
  BY DEF CallsInv
<1>2. pc \in Running
  BY DEF Steps, Resolve, Window, Sample, Filter, Validate, Evaluate, StoreWrite, Tell, Return,
    RunRaises, Goes, At, Crash, Running
<1>3. IsRun(runs[Now]) /\ runs[Now].end = "running" /\ Now \in DOMAIN runs
  BY <1>2, CurrentCall
<1>4. CASE \E step \in {"resolve", "window", "sample", "validate"} : RunRaises(step)
  <2>1. Moves([runs[Now] EXCEPT !.end = "raised"])
    BY <1>3, <1>4 DEF RunRaises, Ends, Moves, IsRun, RunFields
  <2> QED
    BY <1>2, <2>1
<1>5. CASE runs' = runs /\ period' = period
  <2>1. Moves(runs[Now])
    BY <1>1, <1>3, <1>5 DEF Moves
  <2> QED
    BY <1>2, <2>1
<1>6. CASE Evaluate
  <2>1. PICK f, b : runs' = [runs EXCEPT ![Now] =
                      [runs[Now] EXCEPT !.evaluated = <<work.cur>>, !.ref = work.ref,
                                        !.bounds = b, !.fired = f]]
    BY <1>6 DEF Evaluate
  <2>2. Moves([runs[Now] EXCEPT !.evaluated = <<work.cur>>, !.ref = work.ref,
                                !.bounds = b, !.fired = f])
    BY <1>3, <1>6, <2>1 DEF Evaluate, Moves, IsRun, RunFields
  <2> QED
    BY <1>2, <2>2
<1>7. CASE StoreWrite
  <2>1. PICK st, w : runs' = [runs EXCEPT ![Now] =
                       [runs[Now] EXCEPT !.stored = st, !.warned = w]]
    BY <1>7 DEF StoreWrite
  <2>2. Moves([runs[Now] EXCEPT !.stored = st, !.warned = w])
    BY <1>3, <1>7, <2>1 DEF StoreWrite, Moves, IsRun, RunFields
  <2> QED
    BY <1>2, <2>2
<1>8. CASE Tell /\ runs[Now].fired
  <2>1. PICK to, w : runs' = [runs EXCEPT ![Now] =
                       [runs[Now] EXCEPT !.reached = to, !.warned = w]]
    <3>1. PICK o \in ChannelWrites(Channel) :
            runs' = [runs EXCEPT ![Now].reached = o.reached,
                                 ![Now].warned = IF o.raised THEN @ \cup {"channel"} ELSE @]
      BY <1>8 DEF Tell
    <3> DEFINE w == IF o.raised THEN runs[Now].warned \cup {"channel"} ELSE runs[Now].warned
    <3>2. runs' = [runs EXCEPT ![Now] = [runs[Now] EXCEPT !.reached = o.reached, !.warned = w]]
      BY <3>1, Zenon
    <3> QED
      BY <3>2
  <2>2. Moves([runs[Now] EXCEPT !.reached = to, !.warned = w])
    BY <1>3, <1>8, <2>1 DEF Tell, Moves, IsRun, RunFields
  <2> QED
    BY <1>2, <2>2
<1>9. CASE Return
  <2>1. Moves([runs[Now] EXCEPT !.end = "returned"])
    BY <1>3, <1>9 DEF Return, Ends, Moves, IsRun, RunFields
  <2> QED
    BY <1>2, <2>1
<1>10. CASE Crash /\ pc # "import"
  <2>1. Moves([runs[Now] EXCEPT !.end = "died"])
    BY <1>3, <1>10 DEF Crash, Moves, IsRun, RunFields
  <2> QED
    BY <1>2, <2>1
<1>11. CASE Resolve \/ Window \/ Sample \/ Filter \/ Validate
  BY <1>4, <1>5, <1>11 DEF Resolve, Window, Sample, Filter, Validate, Goes
<1>12. CASE Tell /\ ~runs[Now].fired
  BY <1>5, <1>12 DEF Tell
<1> QED
  BY <1>3, <1>6, <1>7, <1>8, <1>9, <1>10, <1>11, <1>12 DEF Steps, IsRun

LEMMA MoveStep ==
  ASSUME CallsInv, PeriodInv, pc \in Running, NEW r, Moves(r)
  PROVE  PeriodInv'
<1>1. Now \in DOMAIN runs /\ runs[Now].end = "running"
  BY CurrentCall
<1>2. PICK S : runs \in Seq(S)
  BY DEF CallsInv
<1>3. /\ DOMAIN runs' = DOMAIN runs /\ runs'[Now] = r
      /\ \A i \in DOMAIN runs : i # Now => runs'[i] = runs[i]
  BY <1>1, <1>2 DEF Moves
<1>4. period \in Int /\ period' \in {period, period + 1}
  BY DEF PeriodInv, Moves
<1>5. \A i \in DOMAIN runs : i # Now => runs[i].end # "running"
  BY DEF CallsInv
<1>6. \A i \in DOMAIN runs' :
        /\ runs'[i].period = runs[i].period
        /\ Kept(runs'[i]) => Kept(runs[i])
  BY <1>1, <1>3 DEF Moves, Kept
<1>7. ASSUME NEW i \in DOMAIN runs'
      PROVE /\ runs'[i].period \in Int /\ runs'[i].period <= period'
            /\ runs'[i].end = "returned" => runs'[i].period < period'
            /\ runs'[i].end = "running" => runs'[i].period = period'
  <2>1. CASE i = Now
    <3>1. runs'[i] = r /\ r.period = period
      BY <1>1, <1>3, <2>1 DEF Moves, PeriodInv
    <3> QED
      BY <1>4, <3>1 DEF Moves
  <2>2. CASE i # Now
    <3>1. runs'[i] = runs[i] /\ runs[i].end # "running" /\ i \in DOMAIN runs
      BY <1>3, <1>5, <2>2
    <3> QED
      BY <1>4, <3>1 DEF PeriodInv
  <2> QED
    BY <2>1, <2>2
<1>8. \A i, j \in DOMAIN runs' :
        runs'[i].period = runs'[j].period /\ Kept(runs'[i]) /\ Kept(runs'[j]) => i = j
  BY <1>3, <1>6 DEF PeriodInv
<1> QED
  BY <1>4, <1>7, <1>8 DEF PeriodInv, Kept

(* The caller calls only when no call of the period has returned. *)
LEMMA CallPeriod ==
  ASSUME CallsInv, PeriodInv, Call
  PROVE  PeriodInv'
<1> DEFINE r == NewRun(Partition(table, Cutoffs[period], Width))
<1>1. pc = "idle" /\ runs' = Append(runs, r) /\ period' = period
  BY DEF Call
<1>2. r.period = period /\ r.end = "running"
  BY DEF NewRun
<1> HIDE DEF r
<1>3. PICK S : runs \in Seq(S)
  BY DEF CallsInv
<1>4. /\ DOMAIN runs = 1..Now /\ DOMAIN runs' = 1..(Now + 1) /\ Now \in Nat
      /\ runs'[Now + 1] = r /\ \A i \in DOMAIN runs : runs'[i] = runs[i]
  <2>1. r \in S \cup {r} /\ runs \in Seq(S \cup {r})
    BY <1>3
  <2> QED
    BY <1>1, <1>3, <2>1 DEF Now
<1>5. \A i \in DOMAIN runs : Kept(runs[i]) => runs[i].period < period
  BY <1>1 DEF CallsInv, PeriodInv, Kept, Running
<1>6. \A i \in DOMAIN runs' : i = Now + 1 \/ i \in DOMAIN runs
  BY <1>4
<1>7. ASSUME NEW i \in DOMAIN runs', NEW j \in DOMAIN runs',
             runs'[i].period = runs'[j].period, Kept(runs'[i]), Kept(runs'[j])
      PROVE i = j
  <2>1. CASE i \in DOMAIN runs /\ j \in DOMAIN runs
    BY <1>4, <1>7, <2>1 DEF PeriodInv
  <2>2. CASE i = Now + 1 /\ j \in DOMAIN runs
    BY <1>2, <1>4, <1>5, <1>7, <2>2 DEF PeriodInv
  <2>3. CASE j = Now + 1 /\ i \in DOMAIN runs
    BY <1>2, <1>4, <1>5, <1>7, <2>3 DEF PeriodInv
  <2> QED
    BY <1>6, <2>1, <2>2, <2>3
<1>8. \A i \in DOMAIN runs' :
        /\ runs'[i].period \in Int /\ runs'[i].period <= period
        /\ runs'[i].end = "returned" => runs'[i].period < period
        /\ runs'[i].end = "running" => runs'[i].period = period
  BY <1>2, <1>4, <1>6 DEF PeriodInv
<1> QED
  BY <1>1, <1>7, <1>8 DEF PeriodInv, Kept

LEMMA PeriodInvariant == Spec => []PeriodInv
<1>1. Init => PeriodInv
  BY DEF Init, PeriodInv
<1>2. CallsInv /\ PeriodInv /\ [Next]_vars => PeriodInv'
  <2> SUFFICES ASSUME CallsInv, PeriodInv, [Next]_vars PROVE PeriodInv'
    OBVIOUS
  <2>1. CASE Call
    BY <2>1, CallPeriod
  <2>2. CASE Steps \/ (Crash /\ pc # "import")
    BY <2>2, RunMoves, MoveStep
  <2>3. CASE Skip
    <3>1. pc = "idle" /\ runs' = runs /\ period' = period + 1
      BY <2>3 DEF Skip
    <3>2. \A i \in DOMAIN runs : runs[i].end # "running"
      BY <3>1 DEF CallsInv, Running
    <3> QED
      BY <3>1, <3>2 DEF PeriodInv, Kept
  <2>4. CASE Arrive \/ Import \/ Loads \/ Imported \/ (Crash /\ pc = "import") \/ UNCHANGED vars
    <3>1. runs' = runs /\ period' = period
      BY <2>4 DEF Arrive, Import, Loads, Register, ExtensionLoaded, ExtensionRaises,
        NextExtension, Imported, Crash, imports, vars
    <3> QED
      BY <3>1 DEF PeriodInv, Kept
  <2> QED
    BY <2>1, <2>2, <2>3, <2>4 DEF Next
<1> QED
  BY <1>1, <1>2, CallsInvariant, PTL DEF Spec

(* A period is stored at most once for every call of it that died, and once   *)
(* more: the calls that were kept are at most one, and one that raised stored  *)
(* nothing.                                                                   *)
THEOREM DuplicatesHaveACrash == Spec => []RerunsExplainDuplicates
<1>1. CallsInv /\ PeriodInv => RerunsExplainDuplicates
  <2> SUFFICES ASSUME CallsInv, PeriodInv, NEW p
               PROVE Cardinality({i \in {j \in DOMAIN runs : runs[j].period = p} :
                                    runs[i].stored})
                       <= 1 + Cardinality({i \in {j \in DOMAIN runs : runs[j].period = p} :
                                             runs[i].end = "died"})
    BY DEF RerunsExplainDuplicates
  <2> DEFINE calls  == {i \in DOMAIN runs : runs[i].period = p}
             stored == {i \in calls : runs[i].stored}
             died   == {i \in calls : runs[i].end = "died"}
  <2>1. IsFiniteSet(DOMAIN runs)
    <3>1. PICK S : runs \in Seq(S)
      BY DEF CallsInv
    <3>2. DOMAIN runs = 1..Len(runs) /\ Len(runs) \in Int /\ 1 \in Int
      BY <3>1
    <3> QED
      BY <3>2, FS_Interval
  <2>2. IsFiniteSet(died) /\ Cardinality(died) \in Nat
    BY <2>1, FS_Subset, FS_CardinalityType
  <2>3. \A i \in stored : i \in died \/ Kept(runs[i])
    BY DEF CallsInv, Explained, Kept
  <2>4. CASE stored \subseteq died
    <3>1. Cardinality(stored) <= Cardinality(died) /\ IsFiniteSet(stored)
      BY <2>2, <2>4, FS_Subset
    <3> QED
      BY <2>2, <3>1, FS_CardinalityType
  <2>5. CASE ~(stored \subseteq died)
    <3>1. PICK x \in stored : x \notin died
      BY <2>5
    <3>2. stored \subseteq died \cup {x}
      BY <2>3, <3>1 DEF PeriodInv
    <3>3. IsFiniteSet(died \cup {x}) /\ Cardinality(died \cup {x}) = Cardinality(died) + 1
      BY <2>2, <3>1, FS_AddElement
    <3>4. Cardinality(stored) <= Cardinality(died) + 1 /\ IsFiniteSet(stored)
      BY <3>2, <3>3, FS_Subset
    <3> QED
      BY <2>2, <3>4, FS_CardinalityType
  <2> QED
    BY <2>4, <2>5
<1> QED
  BY <1>1, CallsInvariant, PeriodInvariant, PTL
=============================================================================
