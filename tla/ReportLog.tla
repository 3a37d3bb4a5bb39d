----------------------------- MODULE ReportLog -----------------------------
(***************************************************************************)
(* What a ResultStore promises about durability (ayn_ml/stores/base.py and  *)
(* docs/stores.md): write(report) is atomic, a run is stored at most once,  *)
(* what is stored stays stored, and a write() that has returned normally is *)
(* a write that is stored.                                                   *)
(***************************************************************************)
CONSTANT Runs

VARIABLES log,   \* log[r]: "absent" or "whole"
          acked  \* runs for which a write() has returned normally

logVars == <<log, acked>>

LogTypeOK ==
  /\ log \in [Runs -> {"absent", "whole"}]
  /\ acked \subseteq Runs

Init ==
  /\ log   = [r \in Runs |-> "absent"]
  /\ acked = {}

(* The report becomes durable, all of it at once. *)
Persist(r) ==
  /\ log[r] = "absent"
  /\ log' = [log EXCEPT ![r] = "whole"]
  /\ UNCHANGED acked

(* write() returns: the first time, or for a run that is already stored. *)
Acknowledge(r) ==
  /\ log[r] = "whole"
  /\ acked' = acked \cup {r}
  /\ UNCHANGED log

Next == \E r \in Runs : Persist(r) \/ Acknowledge(r)

Spec == Init /\ [][Next]_logVars
============================================================================
