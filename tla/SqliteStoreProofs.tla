------------------------- MODULE SqliteStoreProofs -------------------------
(***************************************************************************)
(* Proofs about SqliteStore, for every set of stores, threads and runs and  *)
(* for every report, with statements failing and processes dying at will.   *)
(***************************************************************************)
EXTENDS SqliteStore, TLAPS

(* Arithmetic on rows stays within the rows. *)
LEMMA RowFacts ==
  /\ NoRows \in Rows
  /\ \A a, b \in Rows : Plus(a, b) \in Rows
  /\ NoPend \in [Runs -> Rows]
  BY DEF NoRows, Rows, Plus, NoPend

LEMMA JobFacts ==
  ASSUME NEW j \in Jobs
  PROVE  j.op \in {"write", "get"} /\ j.store \in Stores /\ j.run \in Runs
  BY DEF Jobs

(* A busy thread has a call. *)
LEMMA BusyFacts ==
  ASSUME TypeOK, CallInv, NEW t \in Threads, pc[t] # "idle"
  PROVE  job[t] \in Jobs /\ job[t].store \in Stores /\ job[t].run \in Runs
  BY JobFacts DEF TypeOK, CallInv

----------------------------------------------------------------------------
(* Every step keeps the variables within their types. *)
LEMMA TypeStep ==
  ASSUME TypeOK, CallInv, [Next]_vars
  PROVE  TypeOK'
<1> USE RowFacts, SqliteAssumption
<1>1. ASSUME NEW t \in Threads, Acquire(t) PROVE TypeOK'
  <2>1. job[t].store \in Stores
    BY <1>1, BusyFacts DEF Acquire
  <2>2. mutex' \in [Stores -> Threads \cup {None}]
    BY <1>1, <2>1 DEF Acquire, TypeOK
  <2>3. pc' \in [Threads -> {"idle", "lock"} \cup Inside]
    BY <1>1 DEF Acquire, GoTo, TypeOK, Inside
  <2>4. todo' \in [Threads -> SUBSET Tables]
    BY <1>1 DEF Acquire, TypeOK
  <2> QED
    BY <1>1, <2>2, <2>3, <2>4 DEF Acquire, TypeOK, conn, counted
<1>2. ASSUME NEW t \in Threads, UseAfterClose(t) PROVE TypeOK'
  BY <1>2 DEF UseAfterClose, Done, TypeOK, conn, counted
<1>3. ASSUME NEW t \in Threads, Leave(t) PROVE TypeOK'
  <2>1. job[t] \in Jobs /\ job[t].store \in Stores /\ job[t].run \in Runs
    BY <1>3, BusyFacts DEF Leave
  <2> QED
    BY <1>3, <2>1 DEF Leave, Unlock, Done, TypeOK, conn, counted
<1>4. ASSUME NEW t \in Threads, Preflight(t) PROVE TypeOK'
  <2>1. job[t].store \in Stores
    BY <1>4, BusyFacts DEF Preflight
  <2> QED
    BY <1>4, <2>1 DEF Preflight, LockAfterRead, GoTo, TypeOK, Inside, counted
<1>5. ASSUME NEW t \in Threads, PreflightBusy(t) PROVE TypeOK'
  <2>1. job[t].store \in Stores
    BY <1>5, BusyFacts DEF PreflightBusy
  <2> QED
    BY <1>5, <2>1 DEF PreflightBusy, Raise, Unlock, Done, TypeOK, conn
<1>6. ASSUME NEW t \in Threads, NEW tb \in Tables, InsertRow(t, tb) PROVE TypeOK'
  <2>1. job[t].store \in Stores /\ job[t].run \in Runs
    BY <1>6, BusyFacts DEF InsertRow
  <2>2. pend' \in [Stores -> [Runs -> Rows]]
    BY <1>6, <2>1 DEF InsertRow, TypeOK, Rows
  <2>3. rows' \in [Threads -> Rows]
    BY <1>6 DEF InsertRow, TypeOK, Rows
  <2> QED
    BY <1>6, <2>1, <2>2, <2>3 DEF InsertRow, LockAfterInsert, TypeOK, counted
<1>7. ASSUME NEW t \in Threads, InsertConflict(t) PROVE TypeOK'
  <2>1. job[t].store \in Stores
    BY <1>7, BusyFacts DEF InsertConflict
  <2> QED
    BY <1>7, <2>1 DEF InsertConflict, LockAfterInsert, Raise, Unlock, Done, TypeOK
<1>8. ASSUME NEW t \in Threads, InsertBusy(t) PROVE TypeOK'
  <2>1. job[t].store \in Stores
    BY <1>8, BusyFacts DEF InsertBusy
  <2> QED
    BY <1>8, <2>1 DEF InsertBusy, Raise, Unlock, Done, TypeOK
<1>9. ASSUME NEW t \in Threads, Commit(t) PROVE TypeOK'
  <2>1. job[t].store \in Stores
    BY <1>9, BusyFacts DEF Commit, AllInserted
  <2>2. disk' \in [Runs -> Rows]
    BY <1>9, <2>1 DEF Commit, Merged, TypeOK
  <2> QED
    BY <1>9, <2>1, <2>2 DEF Commit, EndTxn, GoTo, TypeOK, Inside, counted
<1>10. ASSUME NEW t \in Threads, CommitBusy(t) PROVE TypeOK'
  <2>1. job[t].store \in Stores
    BY <1>10, BusyFacts DEF CommitBusy, AllInserted
  <2> QED
    BY <1>10, <2>1 DEF CommitBusy, Raise, Unlock, Done, TypeOK
<1>11. ASSUME NEW t \in Threads, NEW tb \in Tables, SelectTable(t, tb) PROVE TypeOK'
  <2>1. job[t].store \in Stores /\ job[t].run \in Runs
    BY <1>11, BusyFacts DEF SelectTable
  <2>2. Visible(job[t].store, job[t].run)[tb] \in Nat
    BY <2>1 DEF Visible, Plus, TypeOK, Rows
  <2>3. rows' \in [Threads -> Rows]
    BY <1>11, <2>2 DEF SelectTable, TypeOK, Rows
  <2> QED
    BY <1>11, <2>1, <2>3 DEF SelectTable, LockAfterRead, GoTo, TypeOK, Inside, counted
<1>12. ASSUME NEW t \in Threads, SelectBusy(t) PROVE TypeOK'
  <2>1. job[t].store \in Stores
    BY <1>12, BusyFacts DEF SelectBusy
  <2> QED
    BY <1>12, <2>1 DEF SelectBusy, Raise, Unlock, Done, TypeOK, conn
<1>13. ASSUME NEW t \in Threads, InsertRejected(t) PROVE TypeOK'
  <2>1. job[t].store \in Stores
    BY <1>13, BusyFacts DEF InsertRejected
  <2> QED
    BY <1>13, <2>1 DEF InsertRejected, Raise, Unlock, Done, TypeOK
<1>14. ASSUME NEW t \in Threads, StorageError(t) PROVE TypeOK'
  <2>1. job[t].store \in Stores
    BY <1>14, BusyFacts DEF StorageError
  <2> QED
    BY <1>14, <2>1 DEF StorageError, EndTxn, Raise, Unlock, Done, TypeOK
<1>15. ASSUME NEW t \in Threads, CommitRejected(t) PROVE TypeOK'
  <2>1. job[t].store \in Stores
    BY <1>15, BusyFacts DEF CommitRejected, AllInserted
  <2> QED
    BY <1>15, <2>1 DEF CommitRejected, Raise, Unlock, Done, TypeOK
<1>16. ASSUME NEW t \in Threads, NEW s \in Stores, NEW r \in Runs,
              Write(t, s, r) \/ GetReport(t, s, r)
       PROVE  TypeOK'
  <2>1. PICK j \in Jobs : Call(t, j)
    BY <1>16 DEF Write, GetReport, Jobs
  <2>2. job' \in [Threads -> Jobs \cup {None}]
    BY <2>1 DEF Call, TypeOK
  <2>3. pc' \in [Threads -> {"idle", "lock"} \cup Inside]
    BY <2>1 DEF Call, GoTo, TypeOK
  <2> QED
    BY <2>1, <2>2, <2>3 DEF Call, TypeOK, conn
<1>17. ASSUME NEW t \in Threads, NEW r \in Runs, WriteUnserialisable(t, r)
       PROVE  TypeOK'
  BY <1>17 DEF WriteUnserialisable, TypeOK, conn
<1>18. ASSUME NEW t \in Threads, NEW s \in Stores, ReadHistory(t, s) PROVE TypeOK'
  BY <1>18 DEF ReadHistory, LockAfterRead, TypeOK
<1>19. ASSUME NEW t \in Threads, NEW s \in Stores, Close(t, s) PROVE TypeOK'
  BY <1>19 DEF Close, EndTxn, TypeOK
<1>20. ASSUME NEW s \in Stores, Open(s) PROVE TypeOK'
  BY <1>20 DEF Open, TypeOK, conn, counted
<1>21. ASSUME NEW s \in Stores, Crash(s) PROVE TypeOK'
  BY <1>21 DEF Crash, EndTxn, TypeOK
<1>22. ASSUME UNCHANGED vars PROVE TypeOK'
  BY <1>22 DEF vars, conn, counted, TypeOK
<1> QED
  BY <1>1, <1>2, <1>3, <1>4, <1>5, <1>6, <1>7, <1>8, <1>9, <1>10, <1>11, <1>12,
     <1>13, <1>14, <1>15, <1>16, <1>17, <1>18, <1>19, <1>20, <1>21, <1>22
  DEF Next, Step, Fault, Request

----------------------------------------------------------------------------
(* A call exists while its thread is busy: a step ends the call of a        *)
(* thread, moves a thread on, makes a call, or kills a store.                *)
LEMMA CallStep ==
  ASSUME TypeOK, CallInv, [Next]_vars
  PROVE  CallInv'
<1> USE SqliteAssumption DEF CallInv
<1>1. ASSUME NEW t \in Threads, Done(t) PROVE CallInv'
  BY <1>1 DEF Done, TypeOK
<1>2. ASSUME NEW t \in Threads, Acquire(t) PROVE CallInv'
  BY <1>2 DEF Acquire, GoTo, TypeOK
<1>3. ASSUME NEW t \in Threads, Preflight(t) PROVE CallInv'
  BY <1>3 DEF Preflight, GoTo, TypeOK
<1>4. ASSUME NEW t \in Threads, NEW tb \in Tables, InsertRow(t, tb) PROVE CallInv'
  BY <1>4 DEF InsertRow, TypeOK
<1>5. ASSUME NEW t \in Threads, Commit(t) PROVE CallInv'
  BY <1>5 DEF Commit, AllInserted, GoTo, TypeOK
<1>6. ASSUME NEW t \in Threads, NEW tb \in Tables, SelectTable(t, tb) PROVE CallInv'
  BY <1>6 DEF SelectTable, GoTo, TypeOK
<1>7. ASSUME NEW t \in Threads, NEW s \in Stores, NEW r \in Runs,
             Write(t, s, r) \/ GetReport(t, s, r)
      PROVE  CallInv'
  <2>1. /\ [op |-> "write", store |-> s, run |-> r] # None
        /\ [op |-> "get", store |-> s, run |-> r] # None
    OBVIOUS
  <2> QED
    BY <1>7, <2>1 DEF Write, GetReport, Call, GoTo, TypeOK
<1>8. ASSUME NEW s \in Stores, Crash(s) PROVE CallInv'
  BY <1>8 DEF Crash, Callers, TypeOK
<1>9. ASSUME UNCHANGED <<pc, job, rows>> PROVE CallInv'
  BY <1>9
<1>10. ASSUME NEW t \in Threads, Step(t) PROVE CallInv'
  BY <1>10, <1>1, <1>2, <1>3, <1>4, <1>5, <1>6
  DEF Step, UseAfterClose, Leave, PreflightBusy, InsertConflict, InsertBusy,
      CommitBusy, SelectBusy, Raise
<1>11. ASSUME NEW t \in Threads, Fault(t) PROVE CallInv'
  BY <1>11, <1>1 DEF Fault, InsertRejected, StorageError, CommitRejected, Raise
<1>12. ASSUME NEW t \in Threads, Request(t) PROVE CallInv'
  BY <1>12, <1>7, <1>9 DEF Request, WriteUnserialisable, ReadHistory, Close
<1> QED
  BY <1>8, <1>9, <1>10, <1>11, <1>12 DEF Next, Open, vars

(* The lock passes from thread to thread only when it is free. *)
LEMMA LockStep ==
  ASSUME TypeOK, CallInv, LockInv, [Next]_vars
  PROVE  LockInv'
<1> USE SqliteAssumption DEF LockInv
<1>1. ASSUME NEW t \in Threads, pc[t] \in Inside, Done(t), Unlock(t) PROVE LockInv'
  <2>1. job[t].store \in Stores
    BY <1>1, BusyFacts DEF Inside
  <2>2. ASSUME NEW u \in Threads \ {t}, pc[u] \in Inside
        PROVE  job[u].store \in Stores /\ job[u].store # job[t].store
    BY <1>1, <2>2, BusyFacts DEF Inside
  <2> QED
    BY <1>1, <2>1, <2>2 DEF Done, Unlock, TypeOK, Inside
<1>2. ASSUME NEW t \in Threads, Acquire(t) PROVE LockInv'
  <2>1. job[t].store \in Stores
    BY <1>2, BusyFacts DEF Acquire
  <2>2. ASSUME NEW u \in Threads \ {t}, pc[u] \in Inside
        PROVE  job[u].store \in Stores /\ job[u].store # job[t].store
    BY <1>2, <2>2, BusyFacts DEF Inside, Acquire
  <2>3. pc' = [pc EXCEPT ![t] = pc'[t]]
    BY <1>2 DEF Acquire, GoTo, TypeOK
  <2> QED
    BY <1>2, <2>1, <2>2, <2>3 DEF Acquire, TypeOK, Inside
<1>3. ASSUME NEW t \in Threads, UseAfterClose(t) PROVE LockInv'
  BY <1>3 DEF UseAfterClose, Done, TypeOK, Inside
<1>4. ASSUME NEW t \in Threads, Preflight(t) PROVE LockInv'
  BY <1>4 DEF Preflight, GoTo, TypeOK, Inside
<1>5. ASSUME NEW t \in Threads, Commit(t) PROVE LockInv'
  BY <1>5 DEF Commit, AllInserted, GoTo, TypeOK, Inside
<1>6. ASSUME NEW t \in Threads, NEW tb \in Tables, SelectTable(t, tb) PROVE LockInv'
  BY <1>6 DEF SelectTable, GoTo, TypeOK, Inside
<1>7. ASSUME NEW t \in Threads, NEW s \in Stores, NEW r \in Runs,
             Write(t, s, r) \/ GetReport(t, s, r)
      PROVE  LockInv'
  BY <1>7 DEF Write, GetReport, Call, GoTo, TypeOK, Inside
<1>8. ASSUME NEW s \in Stores, Crash(s) PROVE LockInv'
  <2>1. ASSUME NEW u \in Threads, pc[u] \in Inside, u \notin Callers(s)
        PROVE  job[u].store \in Stores /\ job[u].store # s
    BY <2>1, BusyFacts DEF Inside, Callers
  <2> QED
    BY <1>8, <2>1 DEF Crash, TypeOK, Inside
<1>9. ASSUME UNCHANGED <<pc, job, mutex>> PROVE LockInv'
  BY <1>9
<1>10. ASSUME NEW t \in Threads, Step(t) PROVE LockInv'
  BY <1>10, <1>1, <1>2, <1>3, <1>4, <1>5, <1>6, <1>9
  DEF Step, InsertRow, Leave, PreflightBusy, InsertConflict, InsertBusy,
      CommitBusy, SelectBusy, Raise, AllInserted, Inside
<1>11. ASSUME NEW t \in Threads, Fault(t) PROVE LockInv'
  BY <1>11, <1>1
  DEF Fault, InsertRejected, StorageError, CommitRejected, Raise, AllInserted, Inside
<1>12. ASSUME NEW t \in Threads, Request(t) PROVE LockInv'
  BY <1>12, <1>7, <1>9 DEF Request, WriteUnserialisable, ReadHistory, Close
<1> QED
  BY <1>8, <1>9, <1>10, <1>11, <1>12 DEF Next, Open, vars

(* A write() that has inserted every row holds the write lock of the file. *)
LEMMA CommitterWrites ==
  ASSUME IInv, NEW t \in Threads, AllInserted(t)
  PROVE  /\ job[t].store \in Stores /\ job[t].run \in Runs
         /\ Writing(job[t].store)
<1>1. job[t].store \in Stores /\ job[t].run \in Runs
  BY BusyFacts DEF IInv, AllInserted
<1>2. pend[job[t].store][job[t].run]["runs"] = 1
  BY <1>1, SqliteAssumption DEF IInv, InsertInv, AllInserted
<1>3. pend[job[t].store][job[t].run] # NoRows
  BY <1>2 DEF NoRows, Tables
<1> QED
  BY <1>1, <1>3 DEF IInv, PendInv

(* Only one store can be taking or holding the write lock of the file. *)
LEMMA WriteLockStep ==
  ASSUME IInv, [Next]_vars
  PROVE  WriteLockInv'
<1> USE SqliteAssumption DEF WriteLockInv, Writing
<1> TypeOK /\ CallInv /\ WriteLockInv
  BY DEF IInv
<1>1. ASSUME NEW s \in Stores, fileLock' = [fileLock EXCEPT ![s] = LockAfterRead(s)]
      PROVE  WriteLockInv'
  BY <1>1 DEF LockAfterRead, TypeOK
<1>2. ASSUME NEW s \in Stores, fileLock' = [fileLock EXCEPT ![s] = "none"]
      PROVE  WriteLockInv'
  BY <1>2 DEF TypeOK
<1>3. ASSUME NEW s \in Stores, CanWrite(s),
             fileLock' = [fileLock EXCEPT ![s] = LockAfterInsert(s)]
      PROVE  WriteLockInv'
  BY <1>3 DEF CanWrite, LockAfterInsert, TypeOK
<1>4. ASSUME NEW t \in Threads, AllInserted(t),
             fileLock' = [fileLock EXCEPT ![job[t].store] = "pending"]
      PROVE  WriteLockInv'
  BY <1>4, CommitterWrites DEF TypeOK
<1>5. ASSUME UNCHANGED fileLock PROVE WriteLockInv'
  BY <1>5
<1>6. ASSUME NEW t \in Threads, Step(t) PROVE WriteLockInv'
  BY <1>6, <1>1, <1>2, <1>3, <1>4, <1>5, BusyFacts
  DEF Step, Acquire, UseAfterClose, Leave, Preflight, PreflightBusy, InsertRow,
      InsertConflict, InsertBusy, Commit, CommitBusy, SelectTable, SelectBusy,
      AllInserted, EndTxn, conn
<1>7. ASSUME NEW t \in Threads, Fault(t) PROVE WriteLockInv'
  BY <1>7, <1>2, <1>4, <1>5, BusyFacts
  DEF Fault, InsertRejected, StorageError, CommitRejected, EndTxn
<1>8. ASSUME NEW t \in Threads, Request(t) PROVE WriteLockInv'
  BY <1>8, <1>1, <1>2, <1>5
  DEF Request, Write, GetReport, Call, WriteUnserialisable, ReadHistory, Close,
      EndTxn, conn
<1> QED
  BY <1>2, <1>5, <1>6, <1>7, <1>8 DEF Next, Open, Crash, EndTxn, vars, conn

(* Two threads inside calls are inside different stores. *)
LEMMA InsideFacts ==
  ASSUME TypeOK, CallInv, LockInv, NEW t \in Threads, pc[t] \in Inside
  PROVE  /\ job[t].store \in Stores /\ job[t].run \in Runs
         /\ mutex[job[t].store] # None
         /\ \A u \in Threads \ {t} :
              pc[u] \in Inside => job[u].store # job[t].store
  BY BusyFacts, SqliteAssumption DEF LockInv, Inside

(* The rows of a write() in progress are the uncommitted rows of its run. *)
LEMMA InsertStep ==
  ASSUME IInv, [Next]_vars
  PROVE  InsertInv'
<1> USE SqliteAssumption DEF InsertInv
<1> TypeOK /\ CallInv /\ LockInv /\ InsertInv /\ PendInv
  BY DEF IInv
<1>1. ASSUME NEW t \in Threads, Done(t), UNCHANGED pend PROVE InsertInv'
  BY <1>1 DEF Done, TypeOK
<1>2. ASSUME NEW t \in Threads, pc[t] \in Inside, pc'[t] # "insert",
             pend' = [pend EXCEPT ![job[t].store] = NoPend],
             \A u \in Threads \ {t} :
               pc'[u] = pc[u] /\ job'[u] = job[u] /\ rows'[u] = rows[u]
      PROVE  InsertInv'
  <2> SUFFICES ASSUME NEW u \in Threads, pc'[u] = "insert"
               PROVE  rows'[u] = pend'[job'[u].store][job'[u].run]
    OBVIOUS
  <2>1. u # t /\ job[u].store # job[t].store /\ job[u].store \in Stores
    BY <1>2, InsideFacts DEF Inside
  <2> QED
    BY <1>2, <2>1 DEF TypeOK
<1>3. ASSUME NEW t \in Threads, Preflight(t) PROVE InsertInv'
  <2> DEFINE p == pend[job[t].store][job[t].run]
             d == disk[job[t].run]
  <2>1. job[t].store \in Stores /\ job[t].run \in Runs
    BY <1>3, BusyFacts DEF Preflight
  <2>2. p \in Rows /\ d \in Rows
    BY <2>1 DEF TypeOK
  <2>3. ASSUME pc'[t] = "insert" PROVE p = NoRows
    <3>1. ~(d["runs"] + p["runs"] > 0)
      BY <1>3, <2>3 DEF Preflight, GoTo, TypeOK, Visible, Plus, Tables
    <3>2. p["runs"] # 1
      BY <2>2, <3>1 DEF Rows, Tables
    <3> QED
      BY <2>1, <3>2 DEF PendInv, PartOf
  <2>4. rows[t] = NoRows
    BY <1>3 DEF CallInv, Preflight
  <2> QED
    BY <1>3, <2>3, <2>4 DEF Preflight, GoTo, TypeOK
<1>4. ASSUME NEW t \in Threads, NEW tb \in Tables, InsertRow(t, tb) PROVE InsertInv'
  <2>1. job[t].store \in Stores /\ job[t].run \in Runs
    BY <1>4, BusyFacts DEF InsertRow
  <2>2. ASSUME NEW u \in Threads \ {t}, pc[u] = "insert"
        PROVE  job[u].store \in Stores /\ job[u].store # job[t].store
    BY <1>4, <2>2, InsideFacts DEF Inside, InsertRow
  <2>3. rows[t] = pend[job[t].store][job[t].run]
    BY <1>4 DEF InsertRow
  <2>4. rows'[t] = pend'[job[t].store][job[t].run]
    BY <1>4, <2>1, <2>3 DEF InsertRow, TypeOK
  <2>5. ASSUME NEW u \in Threads \ {t}, pc[u] = "insert"
        PROVE  rows'[u] = pend'[job[u].store][job[u].run]
    BY <1>4, <2>2, <2>5 DEF InsertRow, TypeOK
  <2> QED
    BY <1>4, <2>4, <2>5 DEF InsertRow
<1>5. ASSUME NEW s \in Stores, pend' = [pend EXCEPT ![s] = NoPend],
             \A u \in Threads : pc[u] = "insert" /\ pc'[u] = "insert" => job[u].store # s,
             \A u \in Threads : pc'[u] = "insert" =>
               pc[u] = "insert" /\ job'[u] = job[u] /\ rows'[u] = rows[u]
      PROVE  InsertInv'
  BY <1>5, BusyFacts DEF TypeOK
<1>6. ASSUME NEW t \in Threads, NEW s \in Stores, Close(t, s) PROVE InsertInv'
  BY <1>6, <1>5, InsideFacts DEF Close, EndTxn, Inside
<1>7. ASSUME NEW s \in Stores, Crash(s) PROVE InsertInv'
  BY <1>7, <1>5 DEF Crash, EndTxn, Callers
<1>8. ASSUME UNCHANGED pend,
             \A u \in Threads : pc'[u] = "insert" =>
               pc[u] = "insert" /\ job'[u] = job[u] /\ rows'[u] = rows[u]
      PROVE  InsertInv'
  BY <1>8
<1>9. ASSUME NEW t \in Threads, Commit(t) PROVE InsertInv'
  BY <1>9, <1>2 DEF Commit, AllInserted, EndTxn, GoTo, TypeOK, Inside
<1>10. ASSUME NEW t \in Threads, StorageError(t) PROVE InsertInv'
  BY <1>10, <1>2 DEF StorageError, EndTxn, Raise, Done, TypeOK, Inside
<1>11. ASSUME NEW t \in Threads, Acquire(t) PROVE InsertInv'
  BY <1>11, <1>8 DEF Acquire, GoTo, TypeOK, conn
<1>12. ASSUME NEW t \in Threads, NEW tb \in Tables, SelectTable(t, tb)
       PROVE  InsertInv'
  BY <1>12, <1>8 DEF SelectTable, GoTo, TypeOK
<1>13. ASSUME NEW t \in Threads, Request(t) PROVE InsertInv'
  BY <1>13, <1>6, <1>8
  DEF Request, Write, GetReport, Call, GoTo, WriteUnserialisable, ReadHistory, conn, TypeOK
<1>14. ASSUME NEW t \in Threads, Step(t) PROVE InsertInv'
  BY <1>14, <1>1, <1>3, <1>4, <1>9, <1>11, <1>12
  DEF Step, UseAfterClose, Leave, PreflightBusy, InsertConflict, InsertBusy,
      CommitBusy, SelectBusy, Raise, conn
<1>15. ASSUME NEW t \in Threads, Fault(t) PROVE InsertInv'
  BY <1>15, <1>1, <1>10 DEF Fault, InsertRejected, CommitRejected, Raise
<1> QED
  BY <1>7, <1>8, <1>13, <1>14, <1>15 DEF Next, Open, vars, conn

----------------------------------------------------------------------------
(* Rows in the transaction and rows in the file. *)

LEMMA EmptyFacts ==
  ASSUME NEW r \in Runs
  PROVE  PartOf(NoRows, r)
  BY SqliteAssumption DEF PartOf, NoRows, Rows

(* Adding nothing changes nothing. *)
LEMMA PlusNothing ==
  ASSUME NEW a \in Rows
  PROVE  Plus(a, NoRows) = a /\ Plus(NoRows, a) = a
  BY DEF Rows, Plus, NoRows

(* A transaction that ends leaves the uncommitted rows of the other stores, *)
(* and whichever lock allowed them.                                           *)
LEMMA EndTxnKeepsPend ==
  ASSUME IInv, NEW s \in Stores, EndTxn(s),
         \A o \in Stores \ {s}, r \in Runs :
           pend[o][r] # NoRows => disk'[r] = NoRows
  PROVE  PendInv'
<1>1. TypeOK /\ PendInv
  BY DEF IInv
<1>2. \A r \in Runs : pend'[s][r] = NoRows
  BY <1>1 DEF EndTxn, NoPend, TypeOK
<1>3. ASSUME NEW o \in Stores \ {s}
      PROVE  pend'[o] = pend[o] /\ fileLock'[o] = fileLock[o]
  BY <1>1 DEF EndTxn, TypeOK
<1> QED
  BY <1>1, <1>2, <1>3, EmptyFacts DEF PendInv, PartOf, Writing

(* Uncommitted rows stay part of a report of which the file has nothing. *)
LEMMA PendStep ==
  ASSUME IInv, [Next]_vars
  PROVE  PendInv'
<1> TypeOK /\ CallInv /\ InsertInv /\ PendInv /\ DiskInv /\ WriteLockInv
  BY DEF IInv
<1>1. ASSUME UNCHANGED <<disk, pend>>,
             \A s \in Stores : Writing(s) => Writing(s)'
      PROVE  PendInv'
  BY <1>1 DEF PendInv, PartOf
<1>2. ASSUME NEW s \in Stores, UNCHANGED <<disk, pend>>,
             fileLock' = [fileLock EXCEPT ![s] = LockAfterRead(s)]
      PROVE  PendInv'
  BY <1>1, <1>2 DEF LockAfterRead, Writing, TypeOK
<1>3. ASSUME NEW s \in Stores, UNCHANGED <<disk, pend>>,
             fileLock' = [fileLock EXCEPT ![s] = LockAfterInsert(s)]
      PROVE  PendInv'
  BY <1>1, <1>3 DEF LockAfterInsert, Writing, TypeOK
<1>4. ASSUME NEW s \in Stores, UNCHANGED <<disk, pend>>,
             fileLock' = [fileLock EXCEPT ![s] = "pending"]
      PROVE  PendInv'
  BY <1>1, <1>4 DEF Writing, TypeOK
<1>5. ASSUME NEW s \in Stores, EndTxn(s), UNCHANGED disk PROVE PendInv'
  BY <1>5, EndTxnKeepsPend DEF PendInv
<1>6. ASSUME NEW t \in Threads, NEW tb \in Tables, InsertRow(t, tb) PROVE PendInv'
  <2> DEFINE s == job[t].store
             r == job[t].run
  <2>1. s \in Stores /\ r \in Runs
    BY <1>6, BusyFacts DEF InsertRow
  <2>2. /\ \A x \in Stores, y \in Runs :
             pend'[x][y] = IF x = s /\ y = r THEN [pend[s][r] EXCEPT ![tb] = @ + 1]
                                             ELSE pend[x][y]
        /\ disk' = disk
    BY <1>6, <2>1 DEF InsertRow, TypeOK
  <2>3. \A x \in Stores : (Writing(x) \/ x = s) => Writing(x)'
    BY <1>6, <2>1 DEF InsertRow, LockAfterInsert, Writing, TypeOK
  <2>4. pend[s][r] \in Rows /\ disk[r] \in Rows /\ ReportRows[r] \in Rows
    BY <2>1, SqliteAssumption DEF TypeOK
  <2>5. rows[t] = pend[s][r]
    BY <1>6 DEF InsertRow, InsertInv
  <2>6. pend[s][r][tb] < ReportRows[r][tb]
    BY <1>6, <2>5 DEF InsertRow, NextRowIn
  <2>7. ASSUME disk[r] = NoRows, pend'[s][r]["runs"] = 1,
               \A c \in Tables : pend'[s][r][c] <= ReportRows[r][c],
               \A c \in Tables : pend'[s][r][c] > 0 =>
                 \A e \in Before[c] : pend'[s][r][e] = ReportRows[r][e]
        PROVE  PendInv'
    <3> SUFFICES ASSUME NEW x \in Stores, NEW y \in Runs
                 PROVE  /\ PartOf(pend'[x][y], y)
                        /\ pend'[x][y] # NoRows => disk'[y] = NoRows /\ Writing(x)'
      BY DEF PendInv, PartOf
    <3>1. CASE x = s /\ y = r
      BY <2>2, <2>3, <2>7, <3>1 DEF PartOf
    <3>2. CASE ~(x = s /\ y = r)
      BY <2>2, <2>3, <3>2 DEF PendInv, PartOf
    <3> QED
      BY <3>1, <3>2
  <2>8. CASE tb = "runs"
    <3>1. ~(disk[r]["runs"] + pend[s][r]["runs"] > 0)
      BY <1>6, <2>8 DEF InsertRow, KeyConflict, Visible, Plus, Tables
    <3>2. disk[r]["runs"] = 0 /\ pend[s][r]["runs"] = 0
      BY <2>4, <3>1 DEF Rows, Tables
    <3>3. disk[r] = NoRows /\ pend[s][r] = NoRows
      BY <2>1, <3>2 DEF DiskInv, PendInv, PartOf
    <3>4. pend'[s][r]["runs"] = 1
      BY <2>1, <2>2, <2>4, <2>8, <3>2 DEF Rows, Tables
    <3>5. \A c \in Tables : pend'[s][r][c] <= ReportRows[r][c]
      BY <2>1, <2>2, <2>4, <2>6 DEF Rows, PendInv, PartOf
    <3>6. pend'[s][r] = [NoRows EXCEPT !["runs"] = 1]
      BY <2>1, <2>2, <2>4, <2>8, <3>3 DEF NoRows, Rows, Tables
    <3>7. \A c \in Tables : pend'[s][r][c] > 0 => Before[c] = {}
      BY <3>6 DEF NoRows, Tables, Before
    <3> QED
      BY <2>7, <3>3, <3>4, <3>5, <3>7
  <2>9. CASE tb # "runs"
    <3>1. "runs" \in Before[tb]
      BY <2>9 DEF Before, Tables
    <3>2. pend[s][r]["runs"] = 1
      BY <1>6, <2>1, <2>5, <3>1, SqliteAssumption DEF InsertRow, NextRowIn
    <3>3. disk[r] = NoRows
      BY <2>1, <3>2 DEF PendInv, NoRows, Tables
    <3>4. pend'[s][r]["runs"] = 1
      BY <2>1, <2>2, <2>4, <2>9, <3>2 DEF Rows, Tables
    <3>5. \A c \in Tables : pend'[s][r][c] <= ReportRows[r][c]
      BY <2>1, <2>2, <2>4, <2>6 DEF Rows, PendInv, PartOf
    <3>6. \A c \in Tables : pend'[s][r][c] > 0 =>
            \A e \in Before[c] : pend'[s][r][e] = ReportRows[r][e]
      <4> SUFFICES ASSUME NEW c \in Tables, pend'[s][r][c] > 0, NEW e \in Before[c]
                   PROVE  pend'[s][r][e] = ReportRows[r][e]
        OBVIOUS
      <4>1. e \in Tables /\ (c = tb \/ pend[s][r][c] > 0)
        BY <2>1, <2>2, <2>4 DEF Rows, Before, Tables
      <4>2. pend[s][r][e] = ReportRows[r][e]
        BY <1>6, <2>1, <2>5, <4>1 DEF InsertRow, NextRowIn, PendInv, PartOf
      <4>3. e # tb
        BY <2>1, <2>4, <2>6, <4>1, <4>2 DEF Rows
      <4> QED
        BY <2>1, <2>2, <2>4, <4>1, <4>2, <4>3 DEF Rows
    <3> QED
      BY <2>7, <3>3, <3>4, <3>5, <3>6
  <2> QED
    BY <2>8, <2>9
<1>7. ASSUME NEW t \in Threads, Commit(t) PROVE PendInv'
  <2>1. job[t].store \in Stores /\ Writing(job[t].store)
    BY <1>7, CommitterWrites DEF Commit
  <2>2. \A o \in Stores \ {job[t].store}, r \in Runs : pend[o][r] = NoRows
    BY <2>1 DEF PendInv, WriteLockInv
  <2> QED
    BY <1>7, <2>1, <2>2, EndTxnKeepsPend DEF Commit
<1>8. ASSUME NEW t \in Threads, Step(t) PROVE PendInv'
  BY <1>8, <1>1, <1>2, <1>3, <1>4, <1>6, <1>7, BusyFacts
  DEF Step, Acquire, UseAfterClose, Leave, Preflight, PreflightBusy,
      InsertConflict, InsertBusy, CommitBusy, SelectTable, SelectBusy, Raise,
      AllInserted, conn, Writing
<1>9. ASSUME NEW t \in Threads, Fault(t) PROVE PendInv'
  BY <1>9, <1>1, <1>4, <1>5, BusyFacts
  DEF Fault, InsertRejected, StorageError, CommitRejected, AllInserted, Raise, Writing
<1>10. ASSUME NEW t \in Threads, Request(t) PROVE PendInv'
  BY <1>10, <1>1, <1>2, <1>5
  DEF Request, Write, GetReport, Call, WriteUnserialisable, ReadHistory, Close,
      conn, Writing
<1> QED
  BY <1>1, <1>5, <1>8, <1>9, <1>10 DEF Next, Open, Crash, vars, conn, Writing

(* What a commit does to the rows of one run: it adds the run that had none, *)
(* or leaves it as it was.                                                    *)
LEMMA MergedRows ==
  ASSUME IInv, NEW s \in Stores, NEW r \in Runs
  PROVE  \/ Merged(s)[r] = disk[r]
         \/ disk[r] = NoRows /\ Merged(s)[r] = pend[s][r]
<1>1. disk[r] \in Rows /\ pend[s][r] \in Rows
  BY DEF IInv, TypeOK
<1>2. Merged(s)[r] = Plus(disk[r], pend[s][r])
  BY DEF Merged
<1>3. pend[s][r] = NoRows \/ disk[r] = NoRows
  BY DEF IInv, PendInv
<1> QED
  BY <1>1, <1>2, <1>3, PlusNothing

(* Only a commit changes the file. *)
LEMMA DiskChanges ==
  ASSUME [Next]_vars
  PROVE  \/ UNCHANGED disk
         \/ \E t \in Threads : Commit(t)
<1>1. ASSUME NEW t \in Threads, Step(t)
      PROVE  UNCHANGED disk \/ Commit(t)
  BY <1>1 DEF Step, Acquire, UseAfterClose, Leave, Preflight, PreflightBusy,
     InsertRow, InsertConflict, InsertBusy, CommitBusy, SelectTable, SelectBusy, Raise
<1>2. ASSUME NEW t \in Threads, Fault(t)
      PROVE  UNCHANGED disk
  BY <1>2 DEF Fault, InsertRejected, StorageError, CommitRejected, Raise
<1>3. ASSUME NEW t \in Threads, Request(t)
      PROVE  UNCHANGED disk
  BY <1>3 DEF Request, Write, GetReport, Call, WriteUnserialisable, ReadHistory, Close
<1>4. ASSUME NEW s \in Stores, Open(s) \/ Crash(s)
      PROVE  UNCHANGED disk
  BY <1>4 DEF Open, Crash
<1> QED
  BY <1>1, <1>2, <1>3, <1>4 DEF Next, vars

(* The file holds parts of reports, a run row with every one of them. *)
LEMMA DiskStep ==
  ASSUME IInv, [Next]_vars
  PROVE  DiskInv'
<1>1. ASSUME NEW t \in Threads, Commit(t) PROVE DiskInv'
  <2>1. job[t].store \in Stores
    BY <1>1, CommitterWrites DEF Commit
  <2>2. ASSUME NEW r \in Runs PROVE PartOf(Merged(job[t].store)[r], r)
    BY <2>1, MergedRows DEF IInv, DiskInv, PendInv
  <2> QED
    BY <1>1, <2>2 DEF Commit, DiskInv, PartOf
<1>2. ASSUME UNCHANGED disk PROVE DiskInv'
  BY <1>2 DEF IInv, DiskInv, PartOf
<1> QED
  BY <1>1, <1>2, DiskChanges

----------------------------------------------------------------------------
(* IInv is an inductive invariant: whatever fails, and whoever calls. *)
THEOREM Invariance == Spec => []IInv
<1>1. Init => IInv
  <2> SUFFICES ASSUME Init PROVE IInv
    OBVIOUS
  <2>1. TypeOK
    BY RowFacts, SqliteAssumption DEF Init, TypeOK
  <2>2. CallInv /\ LockInv /\ InsertInv /\ WriteLockInv
    BY DEF Init, CallInv, LockInv, Inside, InsertInv, WriteLockInv, Writing
  <2>3. PendInv /\ DiskInv
    BY EmptyFacts DEF Init, PendInv, DiskInv, NoPend
  <2> QED
    BY <2>1, <2>2, <2>3 DEF IInv
<1>2. IInv /\ [Next]_vars => IInv'
  BY TypeStep, CallStep, LockStep, InsertStep, PendStep, DiskStep, WriteLockStep
  DEF IInv
<1> QED
  BY <1>1, <1>2, PTL DEF Spec

(* The variables of the store keep their types. *)
THEOREM TypeCorrect == Spec => []TypeOK
<1>1. IInv => TypeOK
  BY DEF IInv
<1> QED
  BY <1>1, Invariance, PTL

(* What a connection sees of a run is part of its report. *)
LEMMA VisiblePart ==
  ASSUME IInv, NEW s \in Stores, NEW r \in Runs
  PROVE  PartOf(Visible(s, r), r) /\ Visible(s, r) \in Rows
<1>1. Visible(s, r) = Merged(s)[r]
  BY DEF Visible, Merged
<1>2. /\ PartOf(disk[r], r) /\ disk[r] \in Rows
      /\ PartOf(pend[s][r], r) /\ pend[s][r] \in Rows
  BY DEF IInv, DiskInv, PendInv, TypeOK
<1>3. CASE Merged(s)[r] = disk[r]
  BY <1>1, <1>2, <1>3
<1>4. CASE Merged(s)[r] = pend[s][r]
  BY <1>1, <1>2, <1>4
<1> QED
  BY <1>3, <1>4, MergedRows

(* write() never stores a row of a report twice: the lock, the pre-flight   *)
(* SELECT and the primary key of monitoring_runs suffice, for any number of *)
(* stores, threads, retries and failures.                                     *)
THEOREM NoDuplicates == Spec => []NoDuplicateRows
<1>1. IInv => NoDuplicateRows
  BY VisiblePart DEF NoDuplicateRows, PartOf
<1> QED
  BY <1>1, Invariance, PTL

(* No metric, error or alert row is visible without its row of              *)
(* monitoring_runs.                                                           *)
THEOREM ChildRowsHaveTheirRun == Spec => []RowsHaveTheirRun
<1>1. IInv => RowsHaveTheirRun
  BY VisiblePart DEF RowsHaveTheirRun, PartOf, NoRows
<1> QED
  BY <1>1, Invariance, PTL

(* What is stored of a torn report is an initial part of it, in the order   *)
(* in which write() inserts, for any number of stores, threads, retries and  *)
(* failures.                                                                  *)
THEOREM TornAtTheEnd == Spec => []TornReportsArePrefixes
<1>1. IInv => TornReportsArePrefixes
  BY VisiblePart DEF TornReportsArePrefixes, PartOf
<1> QED
  BY <1>1, Invariance, PTL

(* At any time one store at most has uncommitted rows. *)
THEOREM OneWriter == Spec => []OnePendingWriter
<1>1. IInv => OnePendingWriter
  <2> SUFFICES ASSUME IInv, NEW s \in Stores, pend[s] # NoPend
               PROVE  Writing(s) /\ \A o \in Stores \ {s} :
                        pend[o] = NoPend /\ ~Writing(o)
    BY DEF OnePendingWriter
  <2>1. ASSUME NEW o \in Stores, pend[o] # NoPend PROVE Writing(o)
    <3>1. \E r \in Runs : pend[o][r] # NoRows
      BY <2>1 DEF NoPend, IInv, TypeOK
    <3> QED
      BY <3>1 DEF IInv, PendInv
  <2> QED
    BY <2>1 DEF IInv, WriteLockInv
<1> QED
  BY <1>1, Invariance, PTL

(* Nothing changes the committed rows of a run. *)
LEMMA FrozenStep ==
  ASSUME IInv, [Next]_vars, NEW r \in Runs, disk[r] # NoRows
  PROVE  disk'[r] = disk[r]
<1>1. ASSUME NEW t \in Threads, Commit(t) PROVE disk'[r] = disk[r]
  BY <1>1, CommitterWrites, MergedRows DEF Commit
<1> QED
  BY <1>1, DiskChanges

(* The committed rows of a run never change: neither a retry nor another    *)
(* store's commit adds to them or takes from them.                            *)
THEOREM CommittedIsFrozen == Spec => FrozenOnceCommitted
<1>1. IInv /\ [Next]_vars => [\A r \in Runs : disk[r] # NoRows => disk'[r] = disk[r]]_vars
  BY FrozenStep
<1> QED
  BY <1>1, Invariance, PTL DEF Spec, FrozenOnceCommitted

----------------------------------------------------------------------------
(* get_report() between its four SELECTs. *)

(* Under the lock of its store a reader sees the transaction of that store  *)
(* stand still, unless its process dies.                                      *)
LEMMA PendStands ==
  ASSUME IInv, [Next]_vars, NEW t \in Threads, pc[t] \in {"select", "leave"}
  PROVE  \/ pend'[job[t].store] = pend[job[t].store]
         \/ Crash(job[t].store)
<1> TypeOK /\ CallInv /\ LockInv
  BY DEF IInv
<1> DEFINE s == job[t].store
<1>1. /\ s \in Stores /\ mutex[s] # None
      /\ \A u \in Threads \ {t} : pc[u] \in Inside => job[u].store # s
  BY InsideFacts DEF Inside
<1>2. ASSUME NEW u \in Threads, pc[u] = "insert"
      PROVE  job[u].store \in Stores /\ job[u].store # s
  BY <1>1, <1>2, BusyFacts DEF Inside
<1>3. ASSUME NEW u \in Threads, Step(u) PROVE pend'[s] = pend[s]
  <2>1. CASE \E tb \in Tables : InsertRow(u, tb)
    BY <1>1, <1>2, <2>1 DEF InsertRow, TypeOK
  <2>2. CASE Commit(u)
    BY <1>1, <1>2, <2>2 DEF Commit, AllInserted, EndTxn, TypeOK
  <2> QED
    BY <1>3, <2>1, <2>2
    DEF Step, Acquire, UseAfterClose, Leave, Preflight, PreflightBusy,
        InsertConflict, InsertBusy, CommitBusy, SelectTable, SelectBusy, conn
<1>4. ASSUME NEW u \in Threads, Fault(u) PROVE pend'[s] = pend[s]
  BY <1>1, <1>2, <1>4
  DEF Fault, InsertRejected, StorageError, CommitRejected, EndTxn, TypeOK
<1>5. ASSUME NEW u \in Threads, Request(u) PROVE pend'[s] = pend[s]
  BY <1>1, <1>5
  DEF Request, Write, GetReport, Call, WriteUnserialisable, ReadHistory, Close,
      EndTxn, conn, TypeOK
<1>6. ASSUME NEW o \in Stores \ {s}, Crash(o) PROVE pend'[s] = pend[s]
  BY <1>1, <1>6 DEF Crash, EndTxn, TypeOK
<1> QED
  BY <1>1, <1>3, <1>4, <1>5, <1>6 DEF Next, Open, vars, conn

(* A run row that a reader sees keeps the whole report from changing under  *)
(* it: a committed run is frozen, and one in the reader's own transaction   *)
(* keeps the other stores from committing.                                    *)
LEMMA ViewStands ==
  ASSUME IInv, [Next]_vars, NEW t \in Threads, pc[t] \in {"select", "leave"},
         Visible(job[t].store, job[t].run)["runs"] = 1, ~Crash(job[t].store)
  PROVE  /\ disk'[job[t].run] = disk[job[t].run]
         /\ pend'[job[t].store] = pend[job[t].store]
<1> TypeOK /\ CallInv /\ LockInv /\ PendInv /\ WriteLockInv
  BY DEF IInv
<1> DEFINE s == job[t].store
           r == job[t].run
<1>1. s \in Stores /\ r \in Runs
  BY InsideFacts DEF Inside
<1>2. pend'[s] = pend[s]
  BY PendStands
<1>3. CASE disk[r] # NoRows
  BY <1>1, <1>2, <1>3, FrozenStep
<1>4. CASE disk[r] = NoRows
  <2>1. pend[s][r]["runs"] # 0
    BY <1>1, <1>4 DEF Visible, Plus, NoRows, Tables, TypeOK, Rows
  <2>2. Writing(s)
    BY <1>1, <2>1 DEF PendInv, NoRows, Tables
  <2>3. ASSUME NEW u \in Threads, Commit(u) PROVE FALSE
    <3>1. job[u].store \in Stores /\ Writing(job[u].store) /\ pc[u] = "insert"
      BY <2>3, CommitterWrites DEF Commit, AllInserted
    <3>2. job[u].store # s
      BY <3>1, InsideFacts DEF Inside
    <3> QED
      BY <1>1, <2>2, <3>1, <3>2 DEF WriteLockInv
  <2> QED
    BY <1>2, <2>3, DiskChanges
<1> QED
  BY <1>3, <1>4

(* What a reader has collected stays what its connection sees. *)
LEMMA ReadStep ==
  ASSUME IInv, ReadInv, [Next]_vars
  PROVE  ReadInv'
<1> TypeOK /\ CallInv /\ LockInv
  BY DEF IInv
<1> DEFINE Reads(t) == pc[t] \in {"select", "leave"} /\ job[t].op = "get"
           Seen(t)  == Visible(job[t].store, job[t].run)
           Good(t)  ==
             /\ "runs" \in todo[t] => todo[t] = Tables /\ rows[t] = NoRows
             /\ rows[t]["runs"] = 1 =>
                  \A tb \in Tables \ todo[t] : rows[t][tb] = Seen(t)[tb]
<1> SUFFICES ASSUME NEW t \in Threads, Reads(t)' PROVE Good(t)'
  BY DEF ReadInv
<1>1. CASE \E tb \in Tables : SelectTable(t, tb)
  <2> PICK tb \in Tables : SelectTable(t, tb)
    BY <1>1
  <2>1. /\ Reads(t) /\ tb \in todo[t] /\ Before[tb] \cap todo[t] = {}
        /\ job'[t] = job[t] /\ todo'[t] = todo[t] \ {tb}
        /\ rows'[t] = [rows[t] EXCEPT ![tb] = Seen(t)[tb]]
    BY DEF SelectTable, TypeOK
  <2>2. Good(t)
    BY <2>1 DEF ReadInv
  <2>3. Seen(t)' = Seen(t)
    BY DEF SelectTable, Visible, Plus, Tables
  <2>4. rows[t] \in Rows /\ todo[t] \subseteq Tables
    BY DEF TypeOK
  <2>5. CASE tb = "runs"
    BY <2>1, <2>2, <2>3, <2>4, <2>5 DEF Rows
  <2>6. CASE tb # "runs"
    <3>1. "runs" \in Before[tb]
      BY <2>6 DEF Before, Tables
    <3>2. "runs" \notin todo'[t] /\ rows'[t]["runs"] = rows[t]["runs"]
      BY <2>1, <2>4, <2>6, <3>1 DEF Rows, Tables
    <3> QED
      BY <2>1, <2>2, <2>3, <2>4, <3>2 DEF Rows
  <2> QED
    BY <2>5, <2>6
<1>2. CASE Acquire(t)
  <2>1. todo'[t] = Tables /\ rows'[t] = NoRows
    BY <1>2 DEF Acquire, GoTo, TypeOK, CallInv
  <2> QED
    BY <2>1 DEF NoRows, Tables
<1>3. CASE Reads(t) /\ job'[t] = job[t] /\ rows'[t] = rows[t] /\ todo'[t] = todo[t]
  <2>1. Good(t)
    BY <1>3 DEF ReadInv
  <2>2. ~Crash(job[t].store)
    BY <1>3 DEF Crash, Callers, TypeOK
  <2>3. CASE rows[t]["runs"] = 1
    <3>1. Seen(t)["runs"] = 1
      BY <2>1, <2>3, <1>3 DEF Tables, NoRows
    <3>2. Seen(t)' = Seen(t)
      BY <1>3, <2>2, <3>1, ViewStands DEF Visible, Plus
    <3> QED
      BY <1>3, <2>1, <3>2
  <2>4. CASE rows[t]["runs"] # 1
    BY <1>3, <2>1, <2>4
  <2> QED
    BY <2>3, <2>4
<1> DEFINE Stays == /\ Reads(t)
                    /\ job'[t] = job[t] /\ rows'[t] = rows[t] /\ todo'[t] = todo[t]
<1>4. ASSUME NEW u \in Threads, Done(u) PROVE Stays
  BY <1>4 DEF Done, TypeOK
<1>5. ASSUME NEW u \in Threads, Step(u) PROVE Stays \/ Acquire(t)
                                              \/ \E tb \in Tables : SelectTable(t, tb)
  <2>1. CASE u = t
    BY <1>5, <2>1, <1>4
    DEF Step, UseAfterClose, Leave, Preflight, PreflightBusy, InsertRow,
        InsertConflict, InsertBusy, Commit, AllInserted, CommitBusy, SelectBusy,
        Raise, GoTo, CallInv, TypeOK
  <2>2. CASE u # t
    <3>1. CASE \E tb \in Tables : SelectTable(u, tb)
      BY <2>2, <3>1 DEF SelectTable, GoTo, TypeOK
    <3>2. CASE Acquire(u)
      BY <2>2, <3>2 DEF Acquire, GoTo, TypeOK
    <3>3. CASE Preflight(u) \/ Commit(u)
      BY <2>2, <3>3 DEF Preflight, Commit, GoTo, TypeOK
    <3>4. CASE \E tb \in Tables : InsertRow(u, tb)
      BY <2>2, <3>4 DEF InsertRow, TypeOK
    <3> QED
      BY <1>4, <1>5, <3>1, <3>2, <3>3, <3>4
      DEF Step, UseAfterClose, Leave, PreflightBusy, InsertConflict, InsertBusy,
          CommitBusy, SelectBusy, Raise
  <2> QED
    BY <2>1, <2>2
<1>6. ASSUME NEW u \in Threads, Fault(u) PROVE Stays
  BY <1>4, <1>6 DEF Fault, InsertRejected, StorageError, CommitRejected, Raise
<1>7. ASSUME NEW u \in Threads, Request(u) PROVE Stays
  BY <1>7
  DEF Request, Write, GetReport, Call, GoTo, WriteUnserialisable, ReadHistory,
      Close, TypeOK
<1>8. ASSUME NEW s \in Stores, Open(s) \/ Crash(s) PROVE Stays
  BY <1>8 DEF Open, Crash, TypeOK
<1>9. ASSUME UNCHANGED vars PROVE Stays
  BY <1>9 DEF vars
<1> QED
  BY <1>1, <1>2, <1>3, <1>5, <1>6, <1>7, <1>8, <1>9 DEF Next

(* The inductive invariant of the readers. *)
THEOREM ReadInvariance == Spec => []ReadInv
<1>1. Init => ReadInv
  BY DEF Init, ReadInv
<1>2. IInv /\ ReadInv /\ [Next]_vars => ReadInv'
  BY ReadStep
<1> QED
  BY <1>1, <1>2, Invariance, PTL DEF Spec

(* The four SELECTs of get_report() see one state of the database. *)
THEOREM OneSnapshot == Spec => []ReadsOneSnapshot
<1>1. ReadInv => ReadsOneSnapshot
  BY DEF ReadInv, ReadsOneSnapshot
<1> QED
  BY <1>1, ReadInvariance, PTL
============================================================================
