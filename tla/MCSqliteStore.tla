--------------------------- MODULE MCSqliteStore ---------------------------
(* Small instances of SqliteStore: r1 has rows in every table, r2 is the     *)
(* report of a run whose metrics all failed, r3 has a plan that json.dumps() *)
(* rejects.                                                                   *)
EXTENDS SqliteStore

CONSTANTS r1, r2, r3

MCReportRows ==
  [r \in Runs |->
     CASE r = r1 -> [runs |-> 1, results |-> 2, errors |-> 0, alerts |-> 1]
       [] r = r2 -> [runs |-> 1, results |-> 0, errors |-> 1, alerts |-> 0]
       [] OTHER  -> [runs |-> 1, results |-> 1, errors |-> 0, alerts |-> 0]]
============================================================================
