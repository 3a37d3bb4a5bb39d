---------------------------- MODULE SqliteStore ----------------------------
(***************************************************************************)
(* The ResultStore backed by one SQLite file: ayn_ml/stores/sqlite.py.      *)
(*                                                                          *)
(* Each element of Stores is one SqliteStore object: one connection and one *)
(* threading.Lock (mutex), all opened on the same file.  Threads call       *)
(* write(), get_report(), read_history() and close().  A report is the bag  *)
(* of rows it inserts into the four tables; a row is abstracted to the      *)
(* run_id it carries, so a table is a count per run.  Every SQL statement   *)
(* is one step.                                                             *)
(*                                                                          *)
(* The sqlite3 connection runs in its default mode: the first INSERT opens  *)
(* a transaction (inTxn), commit() ends it, and an exception leaves it      *)
(* open: nothing in the source rolls back.  fileLock is the lock that the   *)
(* connection holds on the database file between two statements.            *)
(***************************************************************************)
EXTENDS Naturals, FiniteSets

CONSTANTS Stores,          \* SqliteStore objects open on the file
          Threads,         \* caller threads
          Runs,            \* run_ids
          ReportRows,      \* ReportRows[r][tb]: rows that report r has for table tb
          Unserialisable,  \* runs whose plan json.dumps() rejects (datetime bounds)
          None,            \* no thread, no job
          MaxCalls,        \* bound: calls made in a behaviour
          MaxFaults,       \* bound: statements that fail for a reason outside the model
          MaxCrashes       \* bound: process deaths

Tables == {"runs", "results", "errors", "alerts"}
Rows   == [Tables -> Nat]
NoRows == [tb \in Tables |-> 0]

ASSUME SqliteAssumption ==
  /\ Runs # {}
  /\ ReportRows \in [Runs -> Rows]
  /\ \A r \in Runs : ReportRows[r]["runs"] = 1
  /\ Unserialisable \subseteq Runs
  /\ None \notin Threads
  /\ None \notin [op : {"write", "get"}, store : Stores, run : Runs]
  /\ MaxCalls \in Nat /\ MaxFaults \in Nat /\ MaxCrashes \in Nat

VARIABLES disk,      \* disk[r]: the committed rows of run r, per table
          pend,      \* pend[s][r]: rows of r in the open transaction of store s
          inTxn,     \* inTxn[s]: the connection is inside a transaction
          fileLock,  \* fileLock[s]: SQLite's lock on the file, held by s
          mutex,     \* mutex[s]: the thread that holds self._lock, or None
          isOpen,    \* isOpen[s]: close() has not been called
          pc,        \* pc[t]: where thread t is
          job,       \* job[t]: the call it executes
          rows,      \* rows[t]: rows this call has inserted, or has read
          todo,      \* todo[t]: tables get_report() has still to SELECT
          acked,     \* history: runs for which some write() returned normally
          calls, faults, crashes  \* counters for the bounds

vars == <<disk, pend, inTxn, fileLock, mutex, isOpen, pc, job, rows, todo,
          acked, calls, faults, crashes>>
conn    == <<pend, inTxn, fileLock>>
counted == <<calls, faults, crashes>>

Jobs == [op : {"write", "get"}, store : Stores, run : Runs]

(* The points of a call at which its thread is inside `with self._lock`. *)
Inside == {"preflight", "insert", "select", "leave"}

TypeOK ==
  /\ disk \in [Runs -> Rows]
  /\ pend \in [Stores -> [Runs -> Rows]]
  /\ inTxn \in [Stores -> BOOLEAN]
  /\ fileLock \in [Stores -> {"none", "shared", "reserved", "pending"}]
  /\ mutex \in [Stores -> Threads \cup {None}]
  /\ isOpen \in [Stores -> BOOLEAN]
  /\ pc \in [Threads -> {"idle", "lock"} \cup Inside]
  /\ job \in [Threads -> Jobs \cup {None}]
  /\ rows \in [Threads -> Rows]
  /\ todo \in [Threads -> SUBSET Tables]
  /\ acked \subseteq Runs
  /\ calls \in Nat /\ faults \in Nat /\ crashes \in Nat

----------------------------------------------------------------------------
(* The file and its locks, as the sqlite3 module presents them. *)

NoPend == [r \in Runs |-> NoRows]

Plus(a, b) == [tb \in Tables |-> a[tb] + b[tb]]

(* What a SELECT on connection s sees of run r: the committed rows and its own. *)
Visible(s, r) == Plus(disk[r], pend[s][r])

Writing(s) == fileLock[s] \in {"reserved", "pending"}

(* A new reader is refused while another connection waits to commit. *)
CanRead(s) ==
  fileLock[s] # "none" \/ \A o \in Stores \ {s} : fileLock[o] # "pending"

(* Mutant of CanWrite: a file system without locks. *)
CanAlwaysWrite(s) == TRUE

(* One connection at a time holds the write lock. *)
CanWrite(s) == Writing(s) \/ \A o \in Stores \ {s} : ~Writing(o)

(* Committing needs the file to itself. *)
CanCommit(s) == \A o \in Stores \ {s} : fileLock[o] = "none"

(* A SELECT inside a transaction keeps its lock until the transaction ends. *)
LockAfterRead(s) ==
  IF inTxn[s] /\ fileLock[s] = "none" THEN "shared" ELSE fileLock[s]

LockAfterInsert(s) == IF Writing(s) THEN fileLock[s] ELSE "reserved"

(* The transaction of s ends: its rows and its lock are gone. *)
EndTxn(s) ==
  /\ pend'     = [pend EXCEPT ![s] = NoPend]
  /\ inTxn'    = [inTxn EXCEPT ![s] = FALSE]
  /\ fileLock' = [fileLock EXCEPT ![s] = "none"]

(* What commit() makes of the file: every row of the open transaction, the  *)
(* current run's and any that an earlier failed write left behind.           *)
Merged(s) == [r \in Runs |-> Plus(disk[r], pend[s][r])]

Init ==
  /\ disk     = NoPend
  /\ pend     = [s \in Stores |-> NoPend]
  /\ inTxn    = [s \in Stores |-> FALSE]
  /\ fileLock = [s \in Stores |-> "none"]
  /\ mutex    = [s \in Stores |-> None]
  /\ isOpen   = [s \in Stores |-> TRUE]
  /\ pc       = [t \in Threads |-> "idle"]
  /\ job      = [t \in Threads |-> None]
  /\ rows     = [t \in Threads |-> NoRows]
  /\ todo     = [t \in Threads |-> {}]
  /\ acked    = {}
  /\ calls = 0 /\ faults = 0 /\ crashes = 0

----------------------------------------------------------------------------
(* Calls: entering, taking self._lock, and leaving, normally or not. *)

GoTo(t, l) == pc' = [pc EXCEPT ![t] = l]

(* The call of thread t is over. *)
Done(t) ==
  /\ pc'   = [pc EXCEPT ![t] = "idle"]
  /\ job'  = [job EXCEPT ![t] = None]
  /\ rows' = [rows EXCEPT ![t] = NoRows]
  /\ todo' = [todo EXCEPT ![t] = {}]

Unlock(t) == mutex' = [mutex EXCEPT ![job[t].store] = None]

(* Mutant of Raise: acquire() and release() without `with` or `finally`. *)
RaiseLocked(t) ==
  Done(t) /\ UNCHANGED <<disk, mutex, isOpen, acked, calls, crashes>>

(* An exception leaves the `with` block: the lock is released, the caller   *)
(* learns of the failure, and nothing is rolled back.                        *)
Raise(t) ==
  /\ Unlock(t) /\ Done(t)
  /\ UNCHANGED <<disk, isOpen, acked, calls, crashes>>

Call(t, j) ==
  /\ pc[t] = "idle" /\ calls < MaxCalls
  /\ calls' = calls + 1
  /\ job'   = [job EXCEPT ![t] = j]
  /\ GoTo(t, "lock")
  /\ UNCHANGED <<disk, conn, mutex, isOpen, rows, todo, acked, faults, crashes>>

(* write(): the row tuples, json.dumps(plan) among them, are built before   *)
(* the lock is taken; a plan it cannot encode ends the call there.           *)
Write(t, s, r) ==
  /\ r \notin Unserialisable
  /\ Call(t, [op |-> "write", store |-> s, run |-> r])

WriteUnserialisable(t, r) ==
  /\ r \in Unserialisable
  /\ pc[t] = "idle" /\ calls < MaxCalls
  /\ calls' = calls + 1
  /\ UNCHANGED <<disk, conn, mutex, isOpen, pc, job, rows, todo, acked,
                 faults, crashes>>

GetReport(t, s, r) == Call(t, [op |-> "get", store |-> s, run |-> r])

(* Mutant of Acquire: self._lock is not taken. *)
AcquireNothing(t) ==
  /\ pc[t] = "lock" /\ isOpen[job[t].store]
  /\ IF job[t].op = "write"
     THEN GoTo(t, "preflight") /\ UNCHANGED todo
     ELSE GoTo(t, "select") /\ todo' = [todo EXCEPT ![t] = Tables]
  /\ UNCHANGED <<disk, conn, mutex, isOpen, job, rows, acked, counted>>

(* Mutant of Acquire: only write() takes self._lock. *)
AcquireToWrite(t) ==
  /\ pc[t] = "lock" /\ isOpen[job[t].store]
  /\ IF job[t].op = "write"
     THEN /\ mutex[job[t].store] = None
          /\ mutex' = [mutex EXCEPT ![job[t].store] = t]
          /\ GoTo(t, "preflight") /\ UNCHANGED todo
     ELSE /\ GoTo(t, "select") /\ todo' = [todo EXCEPT ![t] = Tables]
          /\ UNCHANGED mutex
  /\ UNCHANGED <<disk, conn, isOpen, job, rows, acked, counted>>

Acquire(t) ==
  /\ pc[t] = "lock"
  /\ LET s == job[t].store IN
     /\ mutex[s] = None /\ isOpen[s]
     /\ mutex' = [mutex EXCEPT ![s] = t]
  /\ IF job[t].op = "write"
     THEN GoTo(t, "preflight") /\ UNCHANGED todo
     ELSE GoTo(t, "select") /\ todo' = [todo EXCEPT ![t] = Tables]
  /\ UNCHANGED <<disk, conn, isOpen, job, rows, acked, counted>>

(* A closed connection refuses cursor(): ProgrammingError. *)
UseAfterClose(t) ==
  /\ pc[t] = "lock"
  /\ mutex[job[t].store] = None /\ ~isOpen[job[t].store]
  /\ Done(t)
  /\ UNCHANGED <<disk, conn, mutex, isOpen, acked, counted>>

(* Mutant of Leave: the run is looked up after the call was cleared. *)
LeaveLate(t) ==
  /\ pc[t] = "leave"
  /\ Unlock(t) /\ Done(t)
  /\ acked' = acked \cup {job'[t]}
  /\ UNCHANGED <<disk, conn, isOpen, counted>>

(* The call returns normally: a write() is thereby acknowledged. *)
Leave(t) ==
  /\ pc[t] = "leave"
  /\ acked' = IF job[t].op = "write" THEN acked \cup {job[t].run} ELSE acked
  /\ Unlock(t) /\ Done(t)
  /\ UNCHANGED <<disk, conn, isOpen, counted>>

----------------------------------------------------------------------------
(* write() under the lock. *)

(* Mutant of Preflight: BEGIN before the pre-flight. *)
PreflightInTxn(t) ==
  LET s == job[t].store IN
  /\ pc[t] = "preflight" /\ CanRead(s)
  /\ inTxn'    = [inTxn EXCEPT ![s] = TRUE]
  /\ fileLock' = [fileLock EXCEPT ![s] = IF @ = "none" THEN "shared" ELSE @]
  /\ GoTo(t, IF Visible(s, job[t].run)["runs"] > 0 THEN "leave" ELSE "insert")
  /\ UNCHANGED <<disk, pend, mutex, isOpen, job, rows, todo, acked, counted>>

(* SELECT 1 FROM monitoring_runs WHERE run_id = ?  A run that is already    *)
(* visible ends the call as a success, with no commit.                       *)
Preflight(t) ==
  LET s == job[t].store
      r == job[t].run
  IN /\ pc[t] = "preflight" /\ CanRead(s)
     /\ fileLock' = [fileLock EXCEPT ![s] = LockAfterRead(s)]
     /\ GoTo(t, IF Visible(s, r)["runs"] > 0 THEN "leave" ELSE "insert")
     /\ UNCHANGED <<disk, pend, inTxn, mutex, isOpen, job, rows, todo, acked,
                    counted>>

PreflightBusy(t) ==
  /\ pc[t] = "preflight" /\ ~CanRead(job[t].store)
  /\ Raise(t)
  /\ UNCHANGED <<conn, faults>>

(* The tables filled before each one. *)
Before ==
  [tb \in Tables |->
     CASE tb = "runs"    -> {}
       [] tb = "results" -> {"runs"}
       [] tb = "errors"  -> {"runs", "results"}
       [] tb = "alerts"  -> {"runs", "results", "errors"}]

(* Mutant of NextRowIn: once the run row is in, the tables in any order. *)
NextRowAfterRun(t, tb) ==
  /\ rows[t][tb] < ReportRows[job[t].run][tb]
  /\ tb # "runs" => rows[t]["runs"] = 1

(* The next row that thread t inserts goes into table tb. *)
NextRowIn(t, tb) ==
  /\ rows[t][tb] < ReportRows[job[t].run][tb]
  /\ \A e \in Before[tb] : rows[t][e] = ReportRows[job[t].run][e]

(* Mutant of KeyConflict: no PRIMARY KEY. *)
NoKeyConflict(s, r, tb) == FALSE

(* run_id is the PRIMARY KEY of monitoring_runs, and of no other table. *)
KeyConflict(s, r, tb) == tb = "runs" /\ Visible(s, r)["runs"] > 0

InsertRow(t, tb) ==
  LET s == job[t].store
      r == job[t].run
  IN /\ pc[t] = "insert" /\ NextRowIn(t, tb)
     /\ CanWrite(s) /\ ~KeyConflict(s, r, tb)
     /\ inTxn'    = [inTxn EXCEPT ![s] = TRUE]
     /\ fileLock' = [fileLock EXCEPT ![s] = LockAfterInsert(s)]
     /\ pend'     = [pend EXCEPT ![s][r][tb] = @ + 1]
     /\ rows'     = [rows EXCEPT ![t][tb] = @ + 1]
     /\ UNCHANGED <<disk, mutex, isOpen, pc, job, todo, acked, counted>>

(* Mutant of InsertConflict: INSERT OR IGNORE. *)
InsertOrIgnore(t) ==
  LET s == job[t].store IN
  /\ pc[t] = "insert" /\ NextRowIn(t, "runs")
  /\ CanWrite(s) /\ KeyConflict(s, job[t].run, "runs")
  /\ inTxn'    = [inTxn EXCEPT ![s] = TRUE]
  /\ fileLock' = [fileLock EXCEPT ![s] = LockAfterInsert(s)]
  /\ rows'     = [rows EXCEPT ![t]["runs"] = 1]
  /\ UNCHANGED <<disk, pend, mutex, isOpen, pc, job, todo, acked, counted>>

(* Another store committed the same run_id after the pre-flight: the        *)
(* IntegrityError undoes the statement, and keeps the transaction and the   *)
(* write lock.                                                               *)
InsertConflict(t) ==
  LET s == job[t].store IN
  /\ pc[t] = "insert" /\ NextRowIn(t, "runs")
  /\ CanWrite(s) /\ KeyConflict(s, job[t].run, "runs")
  /\ inTxn'    = [inTxn EXCEPT ![s] = TRUE]
  /\ fileLock' = [fileLock EXCEPT ![s] = LockAfterInsert(s)]
  /\ Raise(t)
  /\ UNCHANGED <<pend, faults>>

(* Another connection holds the write lock for longer than the timeout. *)
InsertBusy(t) ==
  LET s == job[t].store IN
  /\ pc[t] = "insert" /\ ~CanWrite(s)
  /\ \E tb \in Tables : NextRowIn(t, tb)
  /\ inTxn' = [inTxn EXCEPT ![s] = TRUE]
  /\ Raise(t)
  /\ UNCHANGED <<pend, fileLock, faults>>

(* A row that cannot be bound (an int over 64 bits, a string that is not    *)
(* UTF-8) raises; the rows before it stay in the open transaction.           *)
InsertRejected(t) ==
  /\ pc[t] = "insert" /\ faults < MaxFaults
  /\ \E tb \in Tables : NextRowIn(t, tb)
  /\ inTxn'  = [inTxn EXCEPT ![job[t].store] = TRUE]
  /\ faults' = faults + 1
  /\ Raise(t)
  /\ UNCHANGED <<pend, fileLock>>

(* An I/O error or a full disk, on which SQLite itself rolls back. *)
StorageError(t) ==
  /\ pc[t] = "insert" /\ faults < MaxFaults
  /\ faults' = faults + 1
  /\ EndTxn(job[t].store)
  /\ Raise(t)

AllInserted(t) == pc[t] = "insert" /\ rows[t] = ReportRows[job[t].run]

(* Mutant of Commit: commit() is forgotten. *)
CommitForgotten(t) ==
  /\ AllInserted(t) /\ GoTo(t, "leave")
  /\ UNCHANGED <<disk, conn, mutex, isOpen, job, rows, todo, acked, counted>>

(* Mutant of Commit: every INSERT is committed on its own. *)
CommitEachRow(t) ==
  LET s == job[t].store IN
  /\ pc[t] = "insert" /\ inTxn[s] /\ CanCommit(s)
  /\ disk' = Merged(s)
  /\ EndTxn(s)
  /\ GoTo(t, IF AllInserted(t) THEN "leave" ELSE "insert")
  /\ UNCHANGED <<mutex, isOpen, job, rows, todo, acked, counted>>

Commit(t) ==
  LET s == job[t].store IN
  /\ AllInserted(t) /\ CanCommit(s)
  /\ disk' = Merged(s)
  /\ EndTxn(s)
  /\ GoTo(t, "leave")
  /\ UNCHANGED <<mutex, isOpen, job, rows, todo, acked, counted>>

(* A reader of another store keeps the file from this one: commit() raises, *)
(* and the transaction stays open, with all its rows.                        *)
CommitBusy(t) ==
  LET s == job[t].store IN
  /\ AllInserted(t) /\ ~CanCommit(s)
  /\ fileLock' = [fileLock EXCEPT ![s] = "pending"]
  /\ Raise(t)
  /\ UNCHANGED <<pend, inTxn, faults>>

(* The same, the reader being another program. *)
CommitRejected(t) ==
  /\ AllInserted(t) /\ faults < MaxFaults
  /\ faults'   = faults + 1
  /\ fileLock' = [fileLock EXCEPT ![job[t].store] = "pending"]
  /\ Raise(t)
  /\ UNCHANGED <<pend, inTxn>>

----------------------------------------------------------------------------
(* get_report(): four SELECTs, one per table, under one hold of the lock; a *)
(* missing run row ends the call at once.                                     *)

SelectTable(t, tb) ==
  LET s == job[t].store
      n == Visible(s, job[t].run)[tb]
  IN /\ pc[t] = "select" /\ tb \in todo[t] /\ CanRead(s)
     /\ Before[tb] \cap todo[t] = {}
     /\ fileLock' = [fileLock EXCEPT ![s] = LockAfterRead(s)]
     /\ rows'     = [rows EXCEPT ![t][tb] = n]
     /\ todo'     = [todo EXCEPT ![t] = @ \ {tb}]
     /\ GoTo(t, IF todo'[t] = {} \/ (tb = "runs" /\ n = 0) THEN "leave" ELSE "select")
     /\ UNCHANGED <<disk, pend, inTxn, mutex, isOpen, job, acked, counted>>

SelectBusy(t) ==
  /\ pc[t] = "select" /\ ~CanRead(job[t].store)
  /\ Raise(t)
  /\ UNCHANGED <<conn, faults>>

(* read_history(): one SELECT, so one step.  Its effect on the store is the *)
(* lock that a SELECT inside a left-over transaction keeps.                   *)
ReadHistory(t, s) ==
  /\ pc[t] = "idle" /\ calls < MaxCalls
  /\ mutex[s] = None /\ isOpen[s] /\ CanRead(s)
  /\ calls'    = calls + 1
  /\ fileLock' = [fileLock EXCEPT ![s] = LockAfterRead(s)]
  /\ UNCHANGED <<disk, pend, inTxn, mutex, isOpen, pc, job, rows, todo, acked,
                 faults, crashes>>

----------------------------------------------------------------------------
(* close(), a new object on the same file, and the death of a process. *)

Close(t, s) ==
  /\ pc[t] = "idle" /\ mutex[s] = None /\ calls < MaxCalls
  /\ calls'  = calls + 1
  /\ isOpen' = [isOpen EXCEPT ![s] = FALSE]
  /\ EndTxn(s)
  /\ UNCHANGED <<disk, mutex, pc, job, rows, todo, acked, faults, crashes>>

Callers(s) == {t \in Threads : pc[t] # "idle" /\ job[t].store = s}

(* SqliteStore(path): the tables exist, so _setup() only reads the schema. *)
Open(s) ==
  /\ ~isOpen[s] /\ Callers(s) = {} /\ CanRead(s)
  /\ isOpen' = [isOpen EXCEPT ![s] = TRUE]
  /\ UNCHANGED <<disk, conn, mutex, pc, job, rows, todo, acked, counted>>

(* The process that owns store s dies, and with it its callers, its open    *)
(* transaction and its locks.  The file keeps what was committed.             *)
Crash(s) ==
  /\ crashes < MaxCrashes
  /\ crashes' = crashes + 1
  /\ EndTxn(s)
  /\ isOpen' = [isOpen EXCEPT ![s] = FALSE]
  /\ mutex'  = [mutex EXCEPT ![s] = None]
  /\ pc'   = [t \in Threads |-> IF t \in Callers(s) THEN "idle" ELSE pc[t]]
  /\ job'  = [t \in Threads |-> IF t \in Callers(s) THEN None ELSE job[t]]
  /\ rows' = [t \in Threads |-> IF t \in Callers(s) THEN NoRows ELSE rows[t]]
  /\ todo' = [t \in Threads |-> IF t \in Callers(s) THEN {} ELSE todo[t]]
  /\ UNCHANGED <<disk, acked, calls, faults>>

----------------------------------------------------------------------------
(* One step of a call in progress. *)
Step(t) ==
  \/ Acquire(t) \/ UseAfterClose(t) \/ Leave(t)
  \/ Preflight(t) \/ PreflightBusy(t)
  \/ \E tb \in Tables : InsertRow(t, tb)
  \/ InsertConflict(t) \/ InsertBusy(t)
  \/ Commit(t) \/ CommitBusy(t)
  \/ \E tb \in Tables : SelectTable(t, tb)
  \/ SelectBusy(t)

Fault(t) == InsertRejected(t) \/ StorageError(t) \/ CommitRejected(t)

Request(t) ==
  \/ \E s \in Stores, r \in Runs : Write(t, s, r) \/ GetReport(t, s, r)
  \/ \E r \in Runs : WriteUnserialisable(t, r)
  \/ \E s \in Stores : ReadHistory(t, s) \/ Close(t, s)

Next ==
  \/ \E t \in Threads : Step(t) \/ Fault(t) \/ Request(t)
  \/ \E s \in Stores : Open(s) \/ Crash(s)

Spec == Init /\ [][Next]_vars

(* A thread inside a call keeps running; new calls are never owed. *)
FairSpec == Spec /\ \A t \in Threads : WF_vars(Step(t))

----------------------------------------------------------------------------
(* Properties. *)

(* No report is stored twice over, however often it is retried, from how    *)
(* many threads and stores, and whatever failed before: no connection ever  *)
(* sees more rows of a run in a table than its report has.  The tables that *)
(* hold them have no key to enforce it (sqlite.py write()).                  *)
NoDuplicateRows ==
  \A s \in Stores, r \in Runs, tb \in Tables :
    Visible(s, r)[tb] <= ReportRows[r][tb]

(* A metric, error or alert row is never visible without its run: the LEFT  *)
(* JOIN of read_history(get_metadata=True) parses plan_json of that run, and *)
(* SQLite does not enforce the FOREIGN KEY unless asked to.                  *)
RowsHaveTheirRun ==
  \A s \in Stores, r \in Runs, tb \in Tables :
    Visible(s, r)[tb] > 0 => Visible(s, r)["runs"] = 1

(* A torn report is torn at its end.  Whatever failed, what a connection    *)
(* sees of a run is an initial part of its report in the order in which      *)
(* write() inserts: an error row comes with every result, an alert row with  *)
(* every result and every error.                                             *)
TornReportsArePrefixes ==
  \A s \in Stores, r \in Runs, tb \in Tables :
    Visible(s, r)[tb] > 0 =>
      \A e \in Before[tb] : Visible(s, r)[e] = ReportRows[r][e]

(* Once any row of a run is committed, its rows never change: no retry adds *)
(* to it, no crash and no commit of another store takes from it.             *)
FrozenOnceCommitted ==
  [][\A r \in Runs : disk[r] # NoRows => disk'[r] = disk[r]]_vars

(* get_report() reads four tables in four statements, yet the rows it       *)
(* collects belong to one state of the database, whatever other threads and  *)
(* other stores commit meanwhile.                                             *)
ReadsOneSnapshot ==
  \A t \in Threads :
    pc[t] \in {"select", "leave"} /\ job[t].op = "get" /\ rows[t]["runs"] = 1
      => \A tb \in Tables \ todo[t] :
           rows[t][tb] = Visible(job[t].store, job[t].run)[tb]

(* Uncommitted rows exist in one store at a time, and that store has the    *)
(* write lock of the file: a commit never meets another's insertions.        *)
OnePendingWriter ==
  \A s \in Stores : pend[s] # NoPend =>
    Writing(s) /\ \A o \in Stores \ {s} : pend[o] = NoPend /\ ~Writing(o)

(* The file holds a report whole or not at all ("All inserts are wrapped in *)
(* a single transaction", sqlite.py write()).                                *)
WholeReports == \A r \in Runs : disk[r] \in {NoRows, ReportRows[r]}

(* A write() that returned normally stored its report (docs/stores.md: the  *)
(* second call of a retry is ignored because the first one took effect).     *)
AckedIsDurable == \A r \in acked : disk[r] = ReportRows[r]

(* A store that no thread is using keeps no lock on the database file, so   *)
(* it cannot shut out the other users of the file.                           *)
IdleStoreHoldsNoLock ==
  \A s \in Stores : mutex[s] = None => fileLock[s] = "none" /\ ~inTxn[s]

(* Every call ends, in a return or an exception, whatever failed before it: *)
(* no path out of the `with` block keeps self._lock.                         *)
EveryCallEnds == \A t \in Threads : pc[t] # "idle" ~> pc[t] = "idle"

(* The store implements the log of whole reports. *)
LogOf(r) ==
  CASE disk[r] = NoRows        -> "absent"
    [] disk[r] = ReportRows[r] -> "whole"
    [] OTHER                   -> "torn"

Log == INSTANCE ReportLog WITH log <- [r \in Runs |-> LogOf(r)]

(* With no statement failing, one SqliteStore gives ReportLog's promise,    *)
(* through concurrent calls, duplicate writes, close() and process deaths.   *)
ImplementsLog == Log!Spec

----------------------------------------------------------------------------
(* The inductive invariant behind the safety properties. *)

(* An initial part of the rows of a report, the run row first. *)
PartOf(a, r) ==
  /\ \A tb \in Tables : a[tb] <= ReportRows[r][tb]
  /\ a # NoRows => a["runs"] = 1
  /\ \A tb \in Tables : a[tb] > 0 => \A e \in Before[tb] : a[e] = ReportRows[r][e]

(* A call exists exactly while its thread is busy, and is of the right kind. *)
CallInv ==
  \A t \in Threads :
    /\ pc[t] = "idle" <=> job[t] = None
    /\ pc[t] \in {"preflight", "insert"} => job[t].op = "write"
    /\ pc[t] \in {"idle", "lock", "preflight"} => rows[t] = NoRows

(* `with self._lock`: a thread inside a call is the owner of the lock. *)
LockInv ==
  \A t \in Threads : pc[t] \in Inside => mutex[job[t].store] = t

(* The rows a write() has inserted are exactly the run's uncommitted rows. *)
InsertInv ==
  \A t \in Threads :
    pc[t] = "insert" => rows[t] = pend[job[t].store][job[t].run]

(* Uncommitted rows belong to a run of which the file has nothing. *)
PendInv ==
  \A s \in Stores, r \in Runs :
    /\ PartOf(pend[s][r], r)
    /\ pend[s][r] # NoRows => disk[r] = NoRows /\ Writing(s)

DiskInv == \A r \in Runs : PartOf(disk[r], r)

WriteLockInv ==
  \A s, o \in Stores : Writing(s) /\ Writing(o) => s = o

(* get_report() reads the run row first, and what it read beside a run row  *)
(* that it found is still what its connection sees.                           *)
ReadInv ==
  \A t \in Threads :
    pc[t] \in {"select", "leave"} /\ job[t].op = "get" =>
      /\ "runs" \in todo[t] => todo[t] = Tables /\ rows[t] = NoRows
      /\ rows[t]["runs"] = 1 =>
           \A tb \in Tables \ todo[t] :
             rows[t][tb] = Visible(job[t].store, job[t].run)[tb]

IInv == TypeOK /\ CallInv /\ LockInv /\ InsertInv /\ PendInv /\ DiskInv
        /\ WriteLockInv
============================================================================
