-------------------------- MODULE SqliteDurability --------------------------
(***************************************************************************)
(* What SqliteStore guarantees when no statement fails for a reason outside *)
(* the model (MaxFaults = 0): any number of stores on one file keep reports *)
(* whole, and a store that has the file to itself implements ReportLog.     *)
(***************************************************************************)
EXTENDS SqliteStoreProofs

Inserting(t, s, r) ==
  pc[t] = "insert" /\ job[t].store = s /\ job[t].run = r

(* Uncommitted rows are a whole report, unless a write() is inserting them. *)
WholeInv ==
  \A s \in Stores, r \in Runs :
    \/ pend[s][r] \in {NoRows, ReportRows[r]}
    \/ \E t \in Threads : Inserting(t, s, r)

LEMMA NoFaultHappens ==
  ASSUME MaxFaults = 0, IInv, NEW t \in Threads
  PROVE  ~Fault(t)
  BY SqliteAssumption
  DEF Fault, InsertRejected, StorageError, CommitRejected, IInv, TypeOK

(* A report is whole in the transaction when its write() ends early. *)
LEMMA EndsWhole ==
  ASSUME IInv, NEW t \in Threads,
         InsertConflict(t) \/ InsertBusy(t) \/ CommitBusy(t)
  PROVE  pend[job[t].store][job[t].run] \in {NoRows, ReportRows[job[t].run]}
<1> DEFINE s == job[t].store
           r == job[t].run
<1>1. pc[t] = "insert"
  BY DEF InsertConflict, InsertBusy, CommitBusy, AllInserted
<1>2. s \in Stores /\ r \in Runs
  BY <1>1, BusyFacts DEF IInv
<1>3. /\ rows[t] = pend[s][r] /\ rows[t] \in Rows
      /\ rows[t] # NoRows => rows[t]["runs"] = 1 /\ Writing(s)
  BY <1>1, <1>2 DEF IInv, InsertInv, PendInv, PartOf, TypeOK
<1>4. CASE InsertConflict(t)
  <2>1. rows[t]["runs"] < 1
    BY <1>2, <1>4, SqliteAssumption DEF InsertConflict, NextRowIn
  <2> QED
    BY <1>3, <2>1
<1>5. CASE InsertBusy(t)
  BY <1>3, <1>5 DEF InsertBusy, CanWrite
<1>6. CASE CommitBusy(t)
  BY <1>3, <1>6 DEF CommitBusy, AllInserted
<1> QED
  BY <1>4, <1>5, <1>6

(* A write() that ends leaves whole reports, and so does a transaction. *)
LEMMA WholeStep ==
  ASSUME MaxFaults = 0, IInv, WholeInv, [Next]_vars
  PROVE  WholeInv'
<1> TypeOK /\ CallInv /\ LockInv
  BY DEF IInv
<1>1. ASSUME UNCHANGED pend,
             \A u \in Threads : pc[u] = "insert" =>
               pc'[u] = "insert" /\ job'[u] = job[u]
      PROVE  WholeInv'
  BY <1>1 DEF WholeInv, Inserting
<1>2. ASSUME NEW s \in Stores, pend' = [pend EXCEPT ![s] = NoPend],
             \A u \in Threads : pc[u] = "insert" /\ job[u].store # s =>
               pc'[u] = "insert" /\ job'[u] = job[u]
      PROVE  WholeInv'
  <2>1. \A r \in Runs : pend'[s][r] = NoRows
    BY <1>2 DEF NoPend, TypeOK
  <2>2. \A o \in Stores \ {s} : pend'[o] = pend[o]
    BY <1>2 DEF TypeOK
  <2>3. \A u \in Threads, o \in Stores \ {s}, r \in Runs :
          Inserting(u, o, r) => Inserting(u, o, r)'
    BY <1>2 DEF Inserting
  <2> QED
    BY <2>1, <2>2, <2>3 DEF WholeInv
<1>3. ASSUME NEW t \in Threads, NEW tb \in Tables, InsertRow(t, tb)
      PROVE  WholeInv'
  <2>1. job[t].store \in Stores /\ job[t].run \in Runs
    BY <1>3, BusyFacts DEF InsertRow
  <2>2. \A s \in Stores, r \in Runs :
          ~Inserting(t, s, r) => pend'[s][r] = pend[s][r]
    BY <1>3, <2>1 DEF InsertRow, Inserting, TypeOK
  <2>3. \A u \in Threads, s \in Stores, r \in Runs :
          Inserting(u, s, r) => Inserting(u, s, r)'
    BY <1>3 DEF InsertRow, Inserting
  <2>4. \A s \in Stores, r \in Runs :
          pend'[s][r] = pend[s][r] \/ Inserting(t, s, r)
    BY <2>2
  <2> QED
    BY <2>3, <2>4 DEF WholeInv
<1>4. ASSUME NEW t \in Threads, Done(t), UNCHANGED pend,
             pend[job[t].store][job[t].run] \in {NoRows, ReportRows[job[t].run]}
      PROVE  WholeInv'
  <2>1. \A u \in Threads \ {t} : pc'[u] = pc[u] /\ job'[u] = job[u]
    BY <1>4 DEF Done, TypeOK
  <2> QED
    BY <1>4, <2>1 DEF WholeInv, Inserting
<1>5. ASSUME NEW t \in Threads, Commit(t) PROVE WholeInv'
  <2>1. job[t].store \in Stores
    BY <1>5, BusyFacts DEF Commit, AllInserted
  <2> QED
    BY <1>2, <1>5, <2>1 DEF Commit, EndTxn, GoTo, TypeOK
<1>6. ASSUME NEW s \in Stores, Crash(s) PROVE WholeInv'
  BY <1>2, <1>6 DEF Crash, EndTxn, Callers, TypeOK
<1>7. ASSUME NEW t \in Threads, Request(t) PROVE WholeInv'
  BY <1>1, <1>2, <1>7
  DEF Request, Write, GetReport, Call, GoTo, WriteUnserialisable, ReadHistory, Close,
      EndTxn, conn, TypeOK
<1>8. ASSUME NEW t \in Threads, pc[t] # "insert", UNCHANGED pend,
             \A u \in Threads \ {t} : pc'[u] = pc[u] /\ job'[u] = job[u]
      PROVE  WholeInv'
  BY <1>1, <1>8
<1>9. ASSUME NEW t \in Threads, Step(t) PROVE WholeInv'
  <2>1. CASE InsertConflict(t) \/ InsertBusy(t) \/ CommitBusy(t)
    BY <1>4, <2>1, EndsWhole DEF InsertConflict, InsertBusy, CommitBusy, Raise
  <2>2. CASE Acquire(t) \/ Preflight(t) \/ \E tb \in Tables : SelectTable(t, tb)
    BY <1>8, <2>2 DEF Acquire, Preflight, SelectTable, GoTo, TypeOK, conn
  <2>3. CASE UseAfterClose(t) \/ Leave(t) \/ PreflightBusy(t) \/ SelectBusy(t)
    BY <1>8, <2>3
    DEF UseAfterClose, Leave, PreflightBusy, SelectBusy, Raise, Done, TypeOK, conn
  <2> QED
    BY <1>3, <1>5, <1>9, <2>1, <2>2, <2>3 DEF Step
<1> QED
  BY <1>1, <1>6, <1>7, <1>9, NoFaultHappens DEF Next, Open, vars, conn

(* A commit adds whole reports to the file. *)
LEMMA WholeDisk ==
  ASSUME IInv, WholeInv, WholeReports, [Next]_vars
  PROVE  WholeReports'
<1>1. ASSUME NEW t \in Threads, Commit(t), NEW r \in Runs
      PROVE  Merged(job[t].store)[r] \in {NoRows, ReportRows[r]}
  <2>1. pc[t] = "insert" /\ rows[t] = ReportRows[job[t].run] /\ job[t].store \in Stores
    BY <1>1, CommitterWrites DEF Commit, AllInserted
  <2>2. ASSUME NEW u \in Threads, Inserting(u, job[t].store, r)
        PROVE  pend[job[t].store][r] = ReportRows[r]
    BY <2>1, <2>2, InsideFacts DEF Inserting, Inside, IInv, InsertInv
  <2>3. pend[job[t].store][r] \in {NoRows, ReportRows[r]}
    BY <2>1, <2>2 DEF WholeInv
  <2> QED
    BY <2>1, <2>3, MergedRows DEF WholeReports
<1>2. ASSUME NEW t \in Threads, Commit(t) PROVE WholeReports'
  BY <1>1, <1>2 DEF Commit, WholeReports
<1>3. ASSUME UNCHANGED disk PROVE WholeReports'
  BY <1>3 DEF WholeReports
<1> QED
  BY <1>2, <1>3, DiskChanges

(* Without failing statements the file holds whole reports only, for any    *)
(* number of stores and threads, with conflicts, busy commits and crashes.   *)
THEOREM WholeWithoutFaults ==
  ASSUME MaxFaults = 0
  PROVE  Spec => []WholeReports
<1>1. Init => WholeInv /\ WholeReports
  BY DEF Init, WholeInv, WholeReports, NoPend
<1>2. IInv /\ WholeInv /\ WholeReports /\ [Next]_vars => WholeInv' /\ WholeReports'
  BY WholeStep, WholeDisk
<1> QED
  BY <1>1, <1>2, Invariance, PTL DEF Spec

----------------------------------------------------------------------------
(* One store that has the file to itself, and no failing statement. *)
LoneStore == MaxFaults = 0 /\ \A s, o \in Stores : s = o

(* Such a store is tidy: only a write() between its first INSERT and its    *)
(* commit has a transaction, locks and uncommitted rows, all of its own run; *)
(* it writes a run that the file does not have, and it returns when the file *)
(* has it.                                                                    *)
TidyInv ==
  /\ \A s \in Stores :
       (\A t \in Threads : pc[t] = "insert" => job[t].store # s)
         => fileLock[s] = "none" /\ ~inTxn[s]
  /\ \A s \in Stores, r \in Runs :
       pend[s][r] # NoRows => \E t \in Threads : Inserting(t, s, r)

ReturnInv ==
  /\ \A t \in Threads :
       /\ pc[t] = "select" => job[t].op = "get"
       /\ pc[t] = "insert" => disk[job[t].run] = NoRows
       /\ pc[t] = "leave" /\ job[t].op = "write"
            => disk[job[t].run] = ReportRows[job[t].run]
  /\ AckedIsDurable

(* In a lone store the thread inside a call is the only one. *)
LEMMA AloneInside ==
  ASSUME LoneStore, IInv, NEW t \in Threads, pc[t] \in Inside,
         NEW u \in Threads, pc[u] \in Inside
  PROVE  u = t
  BY InsideFacts DEF IInv, LoneStore

(* No other store is in the way, and no other write() of the run. *)
LEMMA NothingIsBusy ==
  ASSUME LoneStore, IInv, ReturnInv, NEW t \in Threads
  PROVE  ~InsertConflict(t) /\ ~InsertBusy(t) /\ ~CommitBusy(t)
<1>1. ~InsertBusy(t)
  BY BusyFacts DEF InsertBusy, CanWrite, LoneStore, IInv
<1>2. ~CommitBusy(t)
  BY BusyFacts DEF CommitBusy, AllInserted, CanCommit, LoneStore, IInv
<1>3. ASSUME InsertConflict(t) PROVE FALSE
  <2> DEFINE s == job[t].store
             r == job[t].run
  <2>1. pc[t] = "insert" /\ s \in Stores /\ r \in Runs
    BY <1>3, BusyFacts DEF InsertConflict, IInv
  <2>2. disk[r] = NoRows /\ rows[t] = pend[s][r] /\ rows[t] \in Rows
    BY <2>1 DEF ReturnInv, IInv, InsertInv, TypeOK
  <2>3. rows[t]["runs"] < 1
    BY <1>3, <2>1, SqliteAssumption DEF InsertConflict, NextRowIn
  <2>4. Visible(s, r) = rows[t]
    BY <2>2, PlusNothing DEF Visible
  <2>5. Visible(s, r)["runs"] > 0
    BY <1>3 DEF InsertConflict, KeyConflict
  <2> QED
    BY <2>2, <2>3, <2>4, <2>5 DEF Rows, Tables
<1> QED
  BY <1>1, <1>2, <1>3

(* The pre-flight of a tidy store sees the file and nothing else. *)
LEMMA PreflightSeesDisk ==
  ASSUME LoneStore, IInv, TidyInv, NEW t \in Threads, pc[t] = "preflight",
         NEW r \in Runs
  PROVE  /\ Visible(job[t].store, r) = disk[r]
         /\ fileLock[job[t].store] = "none" /\ ~inTxn[job[t].store]
<1>1. job[t].store \in Stores /\ disk[r] \in Rows
  BY BusyFacts DEF IInv, TypeOK
<1>2. \A u \in Threads : pc[u] # "insert"
  BY AloneInside DEF Inside
<1>3. pend[job[t].store][r] = NoRows
  BY <1>1, <1>2 DEF TidyInv, Inserting
<1> QED
  BY <1>1, <1>2, <1>3, PlusNothing DEF Visible, TidyInv

LEMMA TidyStep ==
  ASSUME LoneStore, IInv, TidyInv, ReturnInv, [Next]_vars
  PROVE  TidyInv'
<1> TypeOK /\ CallInv /\ LockInv
  BY DEF IInv
<1>1. ASSUME UNCHANGED <<pend, inTxn, fileLock>>,
             \A u \in Threads : pc[u] = "insert" =>
               pc'[u] = "insert" /\ job'[u] = job[u]
      PROVE  TidyInv'
  BY <1>1 DEF TidyInv, Inserting
<1>2. ASSUME NEW s \in Stores, EndTxn(s) PROVE TidyInv'
  <2>1. \A o \in Stores : o = s
    BY DEF LoneStore
  <2>2. \A r \in Runs : pend'[s][r] = NoRows
    BY <1>2 DEF EndTxn, NoPend, TypeOK
  <2>3. fileLock'[s] = "none" /\ ~inTxn'[s]
    BY <1>2 DEF EndTxn, TypeOK
  <2> QED
    BY <2>1, <2>2, <2>3 DEF TidyInv
<1>3. ASSUME NEW t \in Threads, NEW tb \in Tables, InsertRow(t, tb) PROVE TidyInv'
  <2>1. pc[t] = "insert" /\ job[t].store \in Stores /\ job[t].run \in Runs
    BY <1>3, BusyFacts DEF InsertRow
  <2>2. \A s \in Stores : s = job[t].store
    BY <2>1 DEF LoneStore
  <2>3. \A s \in Stores, r \in Runs :
          ~Inserting(t, s, r) => pend'[s][r] = pend[s][r]
    BY <1>3, <2>1 DEF InsertRow, Inserting, TypeOK
  <2>4. \A u \in Threads, s \in Stores, r \in Runs :
          Inserting(u, s, r) => Inserting(u, s, r)'
    BY <1>3 DEF InsertRow, Inserting
  <2>5. pc'[t] = "insert" /\ job'[t].store = job[t].store
    BY <1>3, <2>1 DEF InsertRow
  <2> QED
    BY <2>2, <2>3, <2>4, <2>5 DEF TidyInv
<1>4. ASSUME NEW t \in Threads, Preflight(t) PROVE TidyInv'
  <2>1. job[t].store \in Stores /\ job[t].run \in Runs
    BY <1>4, BusyFacts DEF Preflight
  <2>2. fileLock[job[t].store] = "none" /\ ~inTxn[job[t].store]
    BY <1>4, <2>1, PreflightSeesDisk DEF Preflight
  <2>3. fileLock' = fileLock
    BY <1>4, <2>1, <2>2 DEF Preflight, LockAfterRead, TypeOK
  <2> QED
    BY <1>1, <1>4, <2>3 DEF Preflight, GoTo, TypeOK
<1>5. ASSUME NEW t \in Threads, NEW tb \in Tables, SelectTable(t, tb) PROVE TidyInv'
  <2>1. job[t].store \in Stores
    BY <1>5, BusyFacts DEF SelectTable
  <2>2. \A u \in Threads : pc[u] # "insert"
    BY <1>5, AloneInside DEF SelectTable, Inside
  <2>3. fileLock' = fileLock
    BY <1>5, <2>1, <2>2 DEF SelectTable, LockAfterRead, TidyInv, TypeOK
  <2> QED
    BY <1>1, <1>5, <2>2, <2>3 DEF SelectTable
<1>6. ASSUME NEW t \in Threads, NEW s \in Stores, ReadHistory(t, s) PROVE TidyInv'
  <2>1. \A u \in Threads : pc[u] # "insert"
    <3> SUFFICES ASSUME NEW u \in Threads, pc[u] = "insert" PROVE FALSE
      OBVIOUS
    <3>1. job[u].store \in Stores /\ mutex[job[u].store] # None
      BY InsideFacts DEF Inside
    <3> QED
      BY <1>6, <3>1 DEF ReadHistory, LoneStore
  <2>2. fileLock' = fileLock
    BY <1>6, <2>1 DEF ReadHistory, LockAfterRead, TidyInv, TypeOK
  <2> QED
    BY <1>1, <1>6, <2>2 DEF ReadHistory
<1>7. ASSUME NEW t \in Threads, Request(t) PROVE TidyInv'
  BY <1>1, <1>2, <1>6, <1>7
  DEF Request, Write, GetReport, Call, GoTo, WriteUnserialisable, Close, conn, TypeOK
<1>8. ASSUME NEW t \in Threads, Step(t) PROVE TidyInv'
  <2>1. CASE Acquire(t) \/ UseAfterClose(t) \/ Leave(t) \/ PreflightBusy(t) \/ SelectBusy(t)
    BY <1>1, <2>1
    DEF Acquire, UseAfterClose, Leave, PreflightBusy, SelectBusy, Raise, Done, GoTo,
        conn, TypeOK
  <2>2. CASE Commit(t)
    BY <1>2, <2>2, CommitterWrites DEF Commit
  <2> QED
    BY <1>3, <1>4, <1>5, <1>8, <2>1, <2>2, NothingIsBusy DEF Step
<1> QED
  BY <1>1, <1>2, <1>7, <1>8, NoFaultHappens DEF Next, Open, Crash, LoneStore, vars, conn

LEMMA ReportsHaveRows ==
  ASSUME NEW r \in Runs
  PROVE  ReportRows[r] \in Rows /\ ReportRows[r] # NoRows
  BY SqliteAssumption DEF NoRows, Rows, Tables

(* The commit of a lone store adds the report of its run, and only that. *)
LEMMA CommitAddsItsRun ==
  ASSUME LoneStore, IInv, TidyInv, ReturnInv, NEW t \in Threads, Commit(t)
  PROVE  /\ job[t].run \in Runs /\ disk[job[t].run] = NoRows
         /\ disk'[job[t].run] = ReportRows[job[t].run]
         /\ \A r \in Runs \ {job[t].run} : disk'[r] = disk[r]
<1> DEFINE s == job[t].store
<1>1. /\ pc[t] = "insert" /\ rows[t] = ReportRows[job[t].run]
      /\ s \in Stores /\ job[t].run \in Runs
  BY CommitterWrites DEF Commit, AllInserted
<1>2. disk[job[t].run] = NoRows /\ pend[s][job[t].run] = ReportRows[job[t].run]
  BY <1>1 DEF ReturnInv, IInv, InsertInv
<1>3. \A r \in Runs : disk'[r] = Plus(disk[r], pend[s][r]) /\ disk[r] \in Rows
  BY <1>1 DEF Commit, Merged, IInv, TypeOK
<1>4. disk'[job[t].run] = ReportRows[job[t].run]
  BY <1>1, <1>2, <1>3, PlusNothing, ReportsHaveRows
<1>5. ASSUME NEW r \in Runs \ {job[t].run} PROVE disk'[r] = disk[r]
  <2>1. pend[s][r] = NoRows
    BY <1>1, AloneInside DEF TidyInv, Inserting, Inside
  <2> QED
    BY <1>3, <2>1, PlusNothing
<1> QED
  BY <1>1, <1>2, <1>4, <1>5

(* A write() that returns has its report in the file. *)
LEMMA ReturnStep ==
  ASSUME LoneStore, IInv, WholeReports, TidyInv, ReturnInv, [Next]_vars
  PROVE  ReturnInv'
<1> TypeOK /\ CallInv
  BY DEF IInv
<1>1. ASSUME UNCHANGED <<disk, acked>>,
             \A u \in Threads :
               /\ pc'[u] = "select" => job'[u].op = "get"
               /\ pc'[u] = "insert" => pc[u] = "insert" /\ job'[u] = job[u]
               /\ pc'[u] = "leave" /\ job'[u].op = "write" =>
                    pc[u] = "leave" /\ job'[u] = job[u]
      PROVE  ReturnInv'
  BY <1>1 DEF ReturnInv, AckedIsDurable
<1>2. ASSUME NEW t \in Threads, Done(t), UNCHANGED <<disk, acked>>
      PROVE  ReturnInv'
  BY <1>1, <1>2 DEF Done, TypeOK, ReturnInv
<1>3. ASSUME NEW t \in Threads, Acquire(t) PROVE ReturnInv'
  <2>1. job[t].op \in {"write", "get"}
    BY <1>3, BusyFacts, JobFacts DEF Acquire
  <2> QED
    BY <1>1, <1>3, <2>1 DEF Acquire, GoTo, TypeOK, ReturnInv
<1>4. ASSUME NEW t \in Threads, Leave(t) PROVE ReturnInv'
  <2>1. \A r \in acked' : disk'[r] = ReportRows[r]
    BY <1>4 DEF Leave, ReturnInv, AckedIsDurable
  <2>2. \A u \in Threads : pc'[u] = "idle" \/ (pc'[u] = pc[u] /\ job'[u] = job[u])
    BY <1>4 DEF Leave, Done, TypeOK
  <2>3. disk' = disk
    BY <1>4 DEF Leave
  <2>4. \A u \in Threads :
          /\ pc'[u] = "select" => job'[u].op = "get"
          /\ pc'[u] = "insert" => disk'[job'[u].run] = NoRows
          /\ pc'[u] = "leave" /\ job'[u].op = "write"
               => disk'[job'[u].run] = ReportRows[job'[u].run]
    BY <2>2, <2>3 DEF ReturnInv
  <2> QED
    BY <2>1, <2>4 DEF ReturnInv, AckedIsDurable
<1>5. ASSUME NEW t \in Threads, Preflight(t) PROVE ReturnInv'
  <2> DEFINE r == job[t].run
  <2>1. r \in Runs /\ disk[r] \in Rows
    BY <1>5, BusyFacts DEF Preflight, TypeOK
  <2>2. Visible(job[t].store, r) = disk[r]
    BY <1>5, <2>1, PreflightSeesDisk DEF Preflight
  <2>3. disk[r] = NoRows \/ disk[r] = ReportRows[r]
    BY <2>1 DEF WholeReports
  <2>4. pc'[t] = "insert" => disk[r] = NoRows
    BY <1>5, <2>1, <2>2, <2>3, SqliteAssumption DEF Preflight, GoTo, TypeOK
  <2>5. pc'[t] = "leave" => disk[r] = ReportRows[r]
    BY <1>5, <2>1, <2>2, <2>3 DEF Preflight, GoTo, TypeOK, NoRows, Tables
  <2>6. pc'[t] # "select"
    BY <1>5 DEF Preflight, GoTo, TypeOK
  <2>7. \A u \in Threads \ {t} : pc'[u] = pc[u]
    BY <1>5 DEF Preflight, GoTo, TypeOK
  <2> QED
    BY <1>5, <2>4, <2>5, <2>6, <2>7 DEF Preflight, ReturnInv, AckedIsDurable
<1>6. ASSUME NEW t \in Threads, Commit(t) PROVE ReturnInv'
  <2>1. \A u \in Threads \ {t} : pc'[u] = pc[u] /\ pc[u] \notin Inside
    BY <1>6, AloneInside DEF Commit, AllInserted, GoTo, Inside, TypeOK
  <2>2. pc'[t] = "leave"
    BY <1>6 DEF Commit, GoTo, TypeOK
  <2>3. \A r \in acked : disk'[r] = ReportRows[r]
    BY FrozenStep, ReportsHaveRows DEF TypeOK, ReturnInv, AckedIsDurable
  <2>4. disk'[job[t].run] = ReportRows[job[t].run]
    BY <1>6, CommitAddsItsRun
  <2> QED
    BY <1>6, <2>1, <2>2, <2>3, <2>4 DEF Commit, ReturnInv, AckedIsDurable, Inside
<1>7. ASSUME NEW t \in Threads, NEW tb \in Tables, SelectTable(t, tb) PROVE ReturnInv'
  BY <1>1, <1>7 DEF SelectTable, GoTo, TypeOK, ReturnInv
<1>8. ASSUME NEW t \in Threads, Request(t) PROVE ReturnInv'
  BY <1>1, <1>8
  DEF Request, Write, GetReport, Call, GoTo, WriteUnserialisable, ReadHistory, Close,
      TypeOK, ReturnInv
<1>9. ASSUME NEW s \in Stores, Crash(s) PROVE ReturnInv'
  BY <1>1, <1>9 DEF Crash, TypeOK, ReturnInv
<1>10. ASSUME UNCHANGED <<disk, acked, pc, job>> PROVE ReturnInv'
  BY <1>1, <1>10 DEF ReturnInv
<1>11. ASSUME NEW t \in Threads, Step(t) PROVE ReturnInv'
  BY <1>2, <1>3, <1>4, <1>5, <1>6, <1>7, <1>10, <1>11, NothingIsBusy
  DEF Step, UseAfterClose, PreflightBusy, SelectBusy, InsertRow, Raise
<1> QED
  BY <1>8, <1>9, <1>10, <1>11, NoFaultHappens DEF Next, Open, LoneStore, vars

(* The three facts that the theorems about a lone store rest on. *)
LEMMA LoneInvariance ==
  ASSUME LoneStore
  PROVE  Spec => [](TidyInv /\ ReturnInv)
<1>1. Init => TidyInv /\ ReturnInv
  BY DEF Init, TidyInv, ReturnInv, AckedIsDurable, NoPend
<1>2. IInv /\ WholeReports /\ TidyInv /\ ReturnInv /\ [Next]_vars
        => TidyInv' /\ ReturnInv'
  BY TidyStep, ReturnStep
<1>3. Spec => []WholeReports
  BY WholeWithoutFaults DEF LoneStore
<1> QED
  BY <1>1, <1>2, <1>3, Invariance, PTL DEF Spec

(* With the file to itself and no failing statement, a write() that has     *)
(* returned normally has stored its report.                                   *)
THEOREM LoneStoreIsDurable ==
  ASSUME LoneStore
  PROVE  Spec => []AckedIsDurable
<1>1. ReturnInv => AckedIsDurable
  BY DEF ReturnInv
<1> QED
  BY <1>1, LoneInvariance, PTL

(* Such a store holds no lock on the file while nobody uses it. *)
THEOREM LoneStoreLetsGo ==
  ASSUME LoneStore
  PROVE  Spec => []IdleStoreHoldsNoLock
<1>1. IInv /\ TidyInv => IdleStoreHoldsNoLock
  BY InsideFacts DEF IInv, TidyInv, IdleStoreHoldsNoLock, Inside
<1> QED
  BY <1>1, LoneInvariance, Invariance, PTL

(* Such a store implements the log of whole reports: a commit persists the  *)
(* report, a return from write() acknowledges it, all else is a stutter.     *)
THEOREM LoneStoreImplementsLog ==
  ASSUME LoneStore
  PROVE  Spec => ImplementsLog
<1> DEFINE log == [r \in Runs |-> LogOf(r)]
<1>1. Init => Log!Init
  BY ReportsHaveRows DEF Init, Log!Init, LogOf, NoPend
<1>2. IInv /\ TidyInv /\ ReturnInv /\ [Next]_vars => [Log!Next]_(Log!logVars)
  <2> SUFFICES ASSUME IInv, TidyInv, ReturnInv, [Next]_vars
               PROVE  [Log!Next]_(Log!logVars)
    OBVIOUS
  <2>1. ASSUME UNCHANGED <<disk, acked>> PROVE UNCHANGED Log!logVars
    BY <2>1 DEF Log!logVars, LogOf
  <2>2. ASSUME NEW t \in Threads, Commit(t) PROVE Log!Next
    <3>1. /\ job[t].run \in Runs /\ disk[job[t].run] = NoRows
          /\ disk'[job[t].run] = ReportRows[job[t].run]
          /\ \A r \in Runs \ {job[t].run} : disk'[r] = disk[r]
      BY <2>2, CommitAddsItsRun
    <3>2. Log!Persist(job[t].run)
      BY <2>2, <3>1, ReportsHaveRows DEF Commit, Log!Persist, LogOf
    <3> QED
      BY <3>1, <3>2 DEF Log!Next
  <2>3. ASSUME NEW t \in Threads, Leave(t), job[t].op = "write" PROVE Log!Next
    <3>1. job[t].run \in Runs /\ disk[job[t].run] = ReportRows[job[t].run]
      BY <2>3, BusyFacts DEF Leave, ReturnInv, IInv
    <3>2. Log!Acknowledge(job[t].run)
      BY <2>3, <3>1, ReportsHaveRows DEF Leave, Log!Acknowledge, LogOf
    <3> QED
      BY <3>1, <3>2 DEF Log!Next
  <2>4. \/ UNCHANGED <<disk, acked>>
        \/ \E t \in Threads : Commit(t) \/ (Leave(t) /\ job[t].op = "write")
    <3>1. ASSUME NEW t \in Threads, Step(t)
          PROVE  UNCHANGED <<disk, acked>> \/ Commit(t) \/ (Leave(t) /\ job[t].op = "write")
      <4>1. ASSUME Leave(t), job[t].op # "write" PROVE UNCHANGED <<disk, acked>>
        BY <4>1 DEF Leave
      <4>2. ASSUME Acquire(t) \/ UseAfterClose(t) \/ Preflight(t)
            PROVE  UNCHANGED <<disk, acked>>
        BY <4>2 DEF Acquire, UseAfterClose, Preflight
      <4>3. ASSUME \/ PreflightBusy(t) \/ InsertConflict(t) \/ InsertBusy(t)
                   \/ CommitBusy(t) \/ SelectBusy(t)
            PROVE  UNCHANGED <<disk, acked>>
        BY <4>3
        DEF PreflightBusy, InsertConflict, InsertBusy, CommitBusy, SelectBusy, Raise
      <4>4. ASSUME NEW tb \in Tables, InsertRow(t, tb) \/ SelectTable(t, tb)
            PROVE  UNCHANGED <<disk, acked>>
        BY <4>4 DEF InsertRow, SelectTable
      <4> QED
        BY <3>1, <4>1, <4>2, <4>3, <4>4 DEF Step
    <3>2. ASSUME NEW t \in Threads, Request(t) PROVE UNCHANGED <<disk, acked>>
      BY <3>2 DEF Request, Write, GetReport, Call, WriteUnserialisable, ReadHistory, Close
    <3>3. ASSUME NEW s \in Stores, Open(s) \/ Crash(s) PROVE UNCHANGED <<disk, acked>>
      BY <3>3 DEF Open, Crash
    <3> QED
      BY <3>1, <3>2, <3>3, NoFaultHappens DEF Next, LoneStore, vars
  <2> QED
    BY <2>1, <2>2, <2>3, <2>4
<1> QED
  BY <1>1, <1>2, LoneInvariance, Invariance, PTL DEF Spec, ImplementsLog, Log!Spec
=============================================================================
