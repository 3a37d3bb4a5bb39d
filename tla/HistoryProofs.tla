---------------------------- MODULE HistoryProofs ----------------------------
(***************************************************************************)
(* Theorems about History: what is in the two stores, and that both give the *)
(* reports back.                                                             *)
(***************************************************************************)
EXTENDS History, ListTheorems

(* The row of a report in the table of the runs. *)
HeadRow(r) ==
  [run |-> r.run, model |-> r.model, version |-> r.version, at |-> r.at,
   start |-> r.start, counts |-> r.counts, plan |-> r.plan]

(* The rows of the tables that have the run's id are those of its report, in  *)
(* the report's order; without a row among the runs there are none.  Every    *)
(* row is one of some report.                                                  *)
RowsOf(r, rows, written) == OfRun(rows, r.run) = IF Persisted(r.run) THEN written ELSE <<>>

FileInv ==
  /\ IsList(tables.runs) /\ IsList(tables.results)
  /\ IsList(tables.errors) /\ IsList(tables.alerts)
  /\ \A row \in ToSet(tables.runs) : \E r \in Reports : row = HeadRow(r)
  /\ \A row \in ToSet(tables.results) : \E r \in Reports : row \in ToSet(TableRows(r))
  /\ \A r \in Reports : /\ RowsOf(r, tables.results, TableRows(r))
                        /\ RowsOf(r, tables.errors, Stamped(r.run, r.errors))
                        /\ RowsOf(r, tables.alerts, Stamped(r.run, r.alerts))

----------------------------------------------------------------------------
(* Lists of rows. *)

LEMMA ListIs == ASSUME NEW S, NEW q \in Seq(S) PROVE IsList(q)
<1>1. q \in [1..Len(q) -> ToSet(q)] /\ Len(q) \in Nat
  BY DEF ToSet
<1> QED
  BY <1>1 DEF IsList

LEMMA FunctionIsList ==
  ASSUME NEW n \in Nat, NEW f, f = [k \in 1..n |-> f[k]]
  PROVE  IsList(f) /\ Len(f) = n /\ DOMAIN f = 1..n
<1>1. f \in [1..n -> ToSet(f)]
  BY DEF ToSet
<1> QED
  BY <1>1 DEF IsList

LEMMA ListConcat ==
  ASSUME NEW q, IsList(q), NEW s, IsList(s)
  PROVE  /\ \E S : q \in Seq(S) /\ s \in Seq(S)
         /\ IsList(q \o s) /\ ToSet(q \o s) = ToSet(q) \cup ToSet(s)
<1> DEFINE S == ToSet(q) \cup ToSet(s)
<1>1. q \in Seq(S) /\ s \in Seq(S)
  <2>1. \A T, U, x : x \in Seq(T) => x \in Seq(T \cup U) /\ x \in Seq(U \cup T)
    OBVIOUS
  <2> QED
    BY <2>1 DEF IsList
<1>2. ToSet(q \o s) = ToSet(q) \cup ToSet(s)
  <2>1. /\ Len(q) \in Nat /\ Len(s) \in Nat /\ DOMAIN q = 1..Len(q) /\ DOMAIN s = 1..Len(s)
        /\ DOMAIN (q \o s) = 1..(Len(q) + Len(s))
        /\ \A i \in DOMAIN q : i \in DOMAIN (q \o s) /\ (q \o s)[i] = q[i]
        /\ \A i \in DOMAIN s : /\ Len(q) + i \in DOMAIN (q \o s)
                               /\ (q \o s)[Len(q) + i] = s[i]
    BY <1>1
  <2>2. \A i \in DOMAIN (q \o s) :
          i \in DOMAIN q \/ (i - Len(q) \in DOMAIN s /\ Len(q) + (i - Len(q)) = i)
    BY <2>1
  <2> DEFINE c == q \o s
  <2> HIDE DEF c, S
  <2> QED
    BY <2>1, <2>2 DEF ToSet, c
<1>3. q \o s \in Seq(S)
  BY <1>1
<1> HIDE DEF S
<1> QED
  BY <1>1, <1>2, <1>3, ListIs

OnlyOf(rows, run) == IsList(rows) /\ \A i \in DOMAIN rows : rows[i].run = run

LEMMA RowsTogether ==
  ASSUME NEW q, IsList(q), NEW s, IsList(s), NEW run,
         \A i \in DOMAIN q : q[i].run = run, \A i \in DOMAIN s : s[i].run = run
  PROVE  IsList(q \o s) /\ \A i \in DOMAIN (q \o s) : (q \o s)[i].run = run
<1>1. IsList(q \o s) /\ ToSet(q \o s) = ToSet(q) \cup ToSet(s)
  BY ListConcat
<1>2. \A row \in ToSet(q) \cup ToSet(s) : row.run = run
  BY DEF ToSet
<1> DEFINE c == q \o s
<1> HIDE DEF c
<1>3. \A i \in DOMAIN c : c[i] \in ToSet(c)
  BY DEF ToSet
<1> QED
  BY <1>1, <1>2, <1>3 DEF c

LEMMA OfRunConcat ==
  ASSUME NEW q, IsList(q), NEW s, IsList(s), NEW run
  PROVE  OfRun(q \o s, run) = OfRun(q, run) \o OfRun(s, run)
<1> DEFINE c == q \o s
           P == {i \in DOMAIN q : q[i].run = run}
           Q == {i \in DOMAIN s : s[i].run = run}
           R == {i \in DOMAIN c : c[i].run = run}
<1>1. PICK S : q \in Seq(S) /\ s \in Seq(S)
  BY ListConcat
<1>2. /\ \A i \in DOMAIN q : i \in DOMAIN c /\ c[i] = q[i]
      /\ \A i \in DOMAIN s : Len(q) + i \in DOMAIN c /\ c[Len(q) + i] = s[i]
  BY <1>1
<1>3. c = q \o s
  OBVIOUS
<1>4. /\ OfRun(q, run) = Picked(q, P) /\ OfRun(s, run) = Picked(s, Q)
      /\ OfRun(c, run) = Picked(c, R)
  BY DEF OfRun
<1> HIDE DEF c
<1>5. Follows(q, P, s, Q, c, R)
  BY <1>2, <1>3 DEF Follows
<1> HIDE DEF P, Q, R
<1>6. Picked(c, R) = Picked(q, P) \o Picked(s, Q)
  BY <1>1, <1>5, PickedConcat
<1> QED
  BY <1>3, <1>4, <1>6

LEMMA OfRunAll ==
  ASSUME NEW q, IsList(q), NEW run, \A i \in DOMAIN q : q[i].run = run
  PROVE  OfRun(q, run) = q
<1>1. {i \in DOMAIN q : q[i].run = run} = DOMAIN q
  OBVIOUS
<1> QED
  BY <1>1, PickedAll DEF OfRun, IsList

LEMMA OfRunNone ==
  ASSUME NEW q, NEW run, \A i \in DOMAIN q : q[i].run # run
  PROVE  OfRun(q, run) = <<>>
<1>1. {i \in DOMAIN q : q[i].run = run} = {}
  OBVIOUS
<1> QED
  BY <1>1, PickedNone DEF OfRun

----------------------------------------------------------------------------
(* The rows of one report. *)

(* The rows of its results, and those of its profile, as the table has them. *)
MetricRows(r)  == [i \in DOMAIN r.results |-> AsStored(ToRow(r, r.results[i]))]
ProfileRows(r) == [i \in DOMAIN ProfileToRows(r) |-> AsStored(ProfileToRows(r)[i])]

LEMMA RowsOfReport ==
  ASSUME NEW r \in Reports
  PROVE  /\ IsList(MetricRows(r)) /\ IsList(ProfileRows(r))
         /\ TableRows(r) = MetricRows(r) \o ProfileRows(r)
         /\ \A i \in DOMAIN MetricRows(r) :
              MetricRows(r)[i].run = r.run /\ MetricRows(r)[i].type # "profile"
         /\ \A i \in DOMAIN ProfileRows(r) :
              ProfileRows(r)[i].run = r.run /\ ProfileRows(r)[i].type = "profile"
<1> DEFINE A == [i \in DOMAIN r.results |-> ToRow(r, r.results[i])]
           B == ProfileToRows(r)
           a == MetricRows(r)
           b == ProfileRows(r)
<1>1. /\ IsList(r.results)
      /\ \A x \in ToSet(r.results) : x.spec \in ToSet(r.plan.specs)
      /\ \A i \in DOMAIN r.plan.specs : r.plan.specs[i].type # "profile"
      /\ (r.profile # None => IsList(r.profile))
  BY HistoryAssumption DEF HistoryAssumption, IsReport
<1>2. PICK m \in Nat : DOMAIN r.results = 1..m
  BY <1>1 DEF IsList
<1>3. PICK n \in Nat : DOMAIN B = 1..n /\ B = [i \in 1..n |-> B[i]]
  <2>1. CASE r.profile = None
    BY <2>1 DEF ProfileToRows
  <2>2. CASE r.profile # None
    BY <1>1, <2>2 DEF ProfileToRows, IsList
  <2> QED
    BY <2>1, <2>2
<1>4. /\ \A i \in DOMAIN r.results : A[i].run = r.run /\ A[i].type # "profile"
      /\ \A i \in DOMAIN r.results : a[i].run = r.run /\ a[i].type # "profile"
  BY <1>1 DEF MetricRows, AsStored, ToRow, Row, ToSet
<1>5. \A i \in DOMAIN B : /\ B[i].run = r.run /\ B[i].type = "profile"
                          /\ b[i].run = r.run /\ b[i].type = "profile"
  <2> SUFFICES ASSUME NEW i \in DOMAIN B
               PROVE  /\ B[i].run = r.run /\ B[i].type = "profile"
                      /\ b[i].run = r.run /\ b[i].type = "profile"
    OBVIOUS
  <2>1. PICK v, f, metric : B[i] = Row(r, metric, f, v, None, None, "profile")
    BY DEF ProfileToRows
  <2>2. b[i] = AsStored(B[i])
    BY DEF ProfileRows
  <2> HIDE DEF B, b
  <2> QED
    BY <2>1, <2>2 DEF AsStored, Row
<1>6. IsList(A) /\ Len(A) = m /\ IsList(a) /\ Len(a) = m /\ DOMAIN a = 1..m /\ DOMAIN A = 1..m
  BY <1>2, FunctionIsList DEF MetricRows
<1>7. IsList(B) /\ Len(B) = n /\ IsList(b) /\ Len(b) = n /\ DOMAIN b = 1..n
  BY <1>3, FunctionIsList DEF ProfileRows
<1>8. /\ \A i \in 1..m : a[i] = AsStored(A[i])
      /\ \A i \in 1..n : b[i] = AsStored(B[i])
  BY <1>2, <1>3 DEF MetricRows, ProfileRows
<1>9. /\ ResultRows(r) = A \o B
      /\ TableRows(r) = [i \in DOMAIN ResultRows(r) |-> AsStored(ResultRows(r)[i])]
  BY DEF ResultRows, TableRows, AsStored
<1> HIDE DEF A, B, a, b
<1>10. TableRows(r) = a \o b
  <2> DEFINE c == A \o B
             d == a \o b
  <2>1. PICK S : A \in Seq(S) /\ B \in Seq(S)
    BY <1>6, <1>7, ListConcat
  <2>2. PICK T : a \in Seq(T) /\ b \in Seq(T)
    BY <1>6, <1>7, ListConcat
  <2>3. /\ DOMAIN c = 1..(m + n) /\ \A i \in 1..m : c[i] = A[i]
        /\ \A i \in 1..n : c[m + i] = B[i]
    BY <1>6, <1>7, <2>1
  <2>4. d \in Seq(T) /\ Len(d) = m + n
    BY <1>6, <1>7, <2>2
  <2>5. /\ d = [i \in 1..(m + n) |-> d[i]] /\ \A i \in 1..m : d[i] = a[i]
        /\ \A i \in 1..n : d[m + i] = b[i]
    <3>1. \A i \in 1..m : d[i] = a[i]
      BY <1>6, <1>7, <2>2
    <3>2. \A i \in 1..n : d[m + i] = b[i]
      BY <1>6, <1>7, <2>2
    <3> HIDE DEF d
    <3>3. d = [i \in 1..(m + n) |-> d[i]]
      BY <2>4
    <3> QED
      BY <3>1, <3>2, <3>3
  <2>6. \A i \in 1..(m + n) : i \in 1..m \/ (i - m \in 1..n /\ m + (i - m) = i)
    OBVIOUS
  <2> HIDE DEF c, d
  <2>7. \A i \in 1..(m + n) : d[i] = AsStored(c[i])
    <3>1. \A i \in 1..n : d[m + i] = AsStored(c[m + i])
      BY <1>8, <2>3, <2>5
    <3>2. \A i \in 1..m : d[i] = AsStored(c[i])
      BY <1>8, <2>3, <2>5
    <3> QED
      BY <2>6, <3>1, <3>2
  <2>8. TableRows(r) = [i \in 1..(m + n) |-> AsStored(c[i])]
    BY <1>9, <2>3 DEF c
  <2>9. TableRows(r) = d
    BY <2>5, <2>7, <2>8
  <2> QED
    BY <2>9 DEF d
<1> QED
  BY <1>2, <1>3, <1>4, <1>5, <1>6, <1>7, <1>10 DEF a, b

LEMMA StampedRows ==
  ASSUME NEW items, IsList(items), NEW run
  PROVE  /\ IsList(Stamped(run, items)) /\ DOMAIN Stamped(run, items) = DOMAIN items
         /\ \A i \in DOMAIN items : /\ Stamped(run, items)[i].run = run
                                    /\ Stamped(run, items)[i].item = items[i]
<1>1. PICK n \in Nat : DOMAIN items = 1..n
  BY DEF IsList
<1> QED
  BY <1>1, FunctionIsList DEF Stamped

----------------------------------------------------------------------------
(* The file. *)

LEMMA ReportsHaveRuns ==
  ASSUME NEW r \in Reports, NEW o \in Reports, r.run = o.run
  PROVE  r = o
  BY HistoryAssumption DEF HistoryAssumption

(* A write appends the rows of its report, all with its run's id. *)
LEMMA RowsAppended ==
  ASSUME NEW o \in Reports, NEW rows, IsList(rows), NEW new, IsList(new),
         \A i \in DOMAIN new : new[i].run = o.run,
         NEW r \in Reports
  PROVE  /\ IsList(rows \o new)
         /\ r = o => OfRun(rows \o new, r.run) = OfRun(rows, r.run) \o new
         /\ r # o => OfRun(rows \o new, r.run) = OfRun(rows, r.run)
<1>1. OfRun(rows \o new, r.run) = OfRun(rows, r.run) \o OfRun(new, r.run)
  BY OfRunConcat
<1>2. r = o => OfRun(new, r.run) = new
  BY OfRunAll
<1>3. r # o => OfRun(new, r.run) = <<>>
  BY OfRunNone, ReportsHaveRuns
<1>4. OfRun(rows, r.run) \o <<>> = OfRun(rows, r.run)
  <2>1. OfRun(rows, r.run) \in Seq(ToSet(rows))
    BY PickFacts DEF OfRun, IsList
  <2> QED
    BY <2>1
<1> QED
  BY <1>1, <1>2, <1>3, <1>4, ListConcat

LEMMA AppendIs ==
  ASSUME NEW q, IsList(q), NEW x
  PROVE  /\ IsList(Append(q, x)) /\ ToSet(Append(q, x)) = ToSet(q) \cup {x}
<1>1. IsList(<<x>>) /\ ToSet(<<x>>) = {x}
  BY DEF IsList, ToSet
<1>2. Append(q, x) = q \o <<x>>
  BY DEF IsList
<1> QED
  BY <1>1, <1>2, ListConcat

LEMMA FileWritten ==
  ASSUME FileInv, NEW o \in Reports, SqliteWrite(o), ~Persisted(o.run)
  PROVE  FileInv'
<1> DEFINE head == HeadRow(o)
<1>1. /\ tables'.runs = Append(tables.runs, head)
      /\ tables'.results = tables.results \o TableRows(o)
      /\ tables'.errors = tables.errors \o Stamped(o.run, o.errors)
      /\ tables'.alerts = tables.alerts \o Stamped(o.run, o.alerts)
  <2>1. tables' = [runs    |-> Append(tables.runs, head),
                   results |-> tables.results \o TableRows(o),
                   errors  |-> tables.errors \o Stamped(o.run, o.errors),
                   alerts  |-> tables.alerts \o Stamped(o.run, o.alerts)]
    BY Zenon DEF SqliteWrite, HeadRow
  <2> HIDE DEF head
  <2> QED
    BY <2>1
<1>2. IsList(tables'.runs) /\ ToSet(tables'.runs) = ToSet(tables.runs) \cup {head}
  <2> HIDE DEF head
  <2> QED
    BY <1>1, AppendIs DEF FileInv
<1>3. head.run = o.run
  BY DEF HeadRow
<1> HIDE DEF head
<1>4. \A r \in Reports : Persisted(r.run)' <=> (r = o \/ Persisted(r.run))
  <2>1. \A run : Persisted(run) <=> \E row \in ToSet(tables.runs) : row.run = run
    BY DEF Persisted, ToSet
  <2>2. \A run : Persisted(run)' <=> \E row \in ToSet(tables'.runs) : row.run = run
    BY DEF Persisted, ToSet
  <2> QED
    BY <1>2, <1>3, <2>1, <2>2, ReportsHaveRuns
<1>5. ASSUME NEW rows, NEW new, IsList(rows), OnlyOf(new, o.run),
             NEW r \in Reports, NEW written, r = o => written = new,
             RowsOf(r, rows, written)
      PROVE  OfRun(rows \o new, r.run) = IF Persisted(r.run)' THEN written ELSE <<>>
  <2>1. CASE r = o
    <3>1. OfRun(rows, r.run) = <<>>
      BY <1>5, <2>1 DEF RowsOf
    <3>2. <<>> \o new = new
      BY <1>5 DEF IsList, OnlyOf
    <3>3. OfRun(rows \o new, r.run) = OfRun(rows, r.run) \o new
      BY <1>5, <2>1, RowsAppended DEF OnlyOf
    <3>4. written = new /\ Persisted(r.run)'
      BY <1>4, <1>5, <2>1
    <3> QED
      BY <1>5, <3>1, <3>2, <3>3, <3>4
  <2>2. CASE r # o
    <3>1. OfRun(rows \o new, r.run) = OfRun(rows, r.run)
      BY <1>5, <2>2, RowsAppended DEF OnlyOf
    <3>2. Persisted(r.run)' <=> Persisted(r.run)
      BY <1>4, <2>2
    <3> QED
      BY <1>5, <3>1, <3>2 DEF RowsOf
  <2> QED
    BY <2>1, <2>2
<1>6. OnlyOf(TableRows(o), o.run)
  <2>1. /\ IsList(MetricRows(o)) /\ IsList(ProfileRows(o))
        /\ TableRows(o) = MetricRows(o) \o ProfileRows(o)
        /\ \A i \in DOMAIN MetricRows(o) : MetricRows(o)[i].run = o.run
        /\ \A i \in DOMAIN ProfileRows(o) : ProfileRows(o)[i].run = o.run
    BY RowsOfReport
  <2>2. OnlyOf(MetricRows(o) \o ProfileRows(o), o.run)
    BY <2>1, RowsTogether DEF OnlyOf
  <2> QED
    BY <2>1, <2>2
<1>7. OnlyOf(Stamped(o.run, o.errors), o.run) /\ OnlyOf(Stamped(o.run, o.alerts), o.run)
  BY HistoryAssumption, StampedRows DEF HistoryAssumption, IsReport, OnlyOf
<1>8. IsList(tables'.results) /\ IsList(tables'.errors) /\ IsList(tables'.alerts)
  BY <1>1, <1>6, <1>7, ListConcat DEF FileInv, OnlyOf
<1>9. \A row \in ToSet(tables'.runs) : \E r \in Reports : row = HeadRow(r)
  BY <1>2 DEF FileInv, head
<1>10. \A row \in ToSet(tables'.results) : \E r \in Reports : row \in ToSet(TableRows(r))
  <2>1. ToSet(tables'.results) = ToSet(tables.results) \cup ToSet(TableRows(o))
    BY <1>1, <1>6, ListConcat DEF FileInv, OnlyOf
  <2> QED
    BY <2>1 DEF FileInv
<1>11. ASSUME NEW r \in Reports
       PROVE  /\ RowsOf(r, tables.results, TableRows(r))'
              /\ RowsOf(r, tables.errors, Stamped(r.run, r.errors))'
              /\ RowsOf(r, tables.alerts, Stamped(r.run, r.alerts))'
  <2>1. OfRun(tables'.results, r.run) = IF Persisted(r.run)' THEN TableRows(r) ELSE <<>>
    BY <1>1, <1>5, <1>6 DEF FileInv
  <2>2. OfRun(tables'.errors, r.run)
          = IF Persisted(r.run)' THEN Stamped(r.run, r.errors) ELSE <<>>
    BY <1>1, <1>5, <1>7 DEF FileInv
  <2>3. OfRun(tables'.alerts, r.run)
          = IF Persisted(r.run)' THEN Stamped(r.run, r.alerts) ELSE <<>>
    BY <1>1, <1>5, <1>7 DEF FileInv
  <2> QED
    BY <2>1, <2>2, <2>3 DEF RowsOf
<1> QED
  BY <1>2, <1>8, <1>9, <1>10, <1>11 DEF FileInv

LEMMA FileStep ==
  ASSUME FileInv, [Next]_vars
  PROVE  FileInv'
<1>1. CASE tables' = tables
  BY <1>1 DEF FileInv, RowsOf, Persisted
<1>2. ASSUME NEW o \in Reports, SqliteWrite(o), Persisted(o.run) PROVE tables' = tables
  BY <1>2 DEF SqliteWrite
<1>3. CASE \E o \in Reports : MemoryWrite(o)
  BY <1>1, <1>3 DEF MemoryWrite
<1>4. CASE \E o \in Reports : SqliteWrite(o)
  BY <1>1, <1>2, <1>4, FileWritten
<1> QED
  BY <1>1, <1>3, <1>4 DEF Next, vars

(* Whatever is written, and in whatever order: the file has the rows of every *)
(* report that it was given, whole and in order, and no others.                *)
THEOREM FileInvariance == Spec => []FileInv
<1>1. Init => FileInv
  <2> SUFFICES ASSUME Init PROVE FileInv
    OBVIOUS
  <2>1. /\ tables.runs = <<>> /\ tables.results = <<>>
        /\ tables.errors = <<>> /\ tables.alerts = <<>>
    BY DEF Init, NoRows
  <2>2. IsList(<<>>) /\ ToSet(<<>>) = {}
    BY DEF IsList, ToSet
  <2>3. \A run : OfRun(<<>>, run) = <<>> /\ ~Persisted(run)
    BY <2>1, OfRunNone DEF Persisted
  <2> QED
    BY <2>1, <2>2, <2>3 DEF FileInv, RowsOf
<1>2. FileInv /\ [Next]_vars => FileInv'
  BY FileStep
<1> QED
  BY <1>1, <1>2, PTL DEF Spec

----------------------------------------------------------------------------
(* InMemoryStore keeps the last reports, as many as it may. *)

THEOREM TypeInvariance == Spec => []TypeOK
<1>1. Init => TypeOK
  BY HistoryAssumption DEF HistoryAssumption, Init, NoRows, TypeOK
<1>2. FileInv' /\ TypeOK /\ [Next]_vars => TypeOK'
  <2> SUFFICES ASSUME FileInv', TypeOK, [Next]_vars PROVE TypeOK'
    OBVIOUS
  <2>1. writes' \in 0..MaxWrites
    <3>1. MaxWrites \in Nat
      BY HistoryAssumption DEF HistoryAssumption
    <3>2. writes' = writes \/ (writes < MaxWrites /\ writes' = writes + 1)
      BY DEF Next, MemoryWrite, SqliteWrite, vars
    <3> QED
      BY <3>1, <3>2 DEF TypeOK
  <2>2. reports' \in Seq(Reports) /\ (MaxLen # None => Len(reports') <= MaxLen)
    <3>1. CASE reports' = reports
      BY <3>1 DEF TypeOK
    <3>2. ASSUME NEW r \in Reports, MemoryWrite(r)
          PROVE  reports' \in Seq(Reports) /\ (MaxLen # None => Len(reports') <= MaxLen)
      <4>1. reports \in Seq(Reports) /\ (MaxLen # None => MaxLen \in Nat /\ Len(reports) <= MaxLen)
        BY HistoryAssumption DEF HistoryAssumption, TypeOK
      <4>2. /\ Append(reports, r) \in Seq(Reports) /\ Len(Append(reports, r)) = Len(reports) + 1
            /\ Tail(Append(reports, r)) \in Seq(Reports)
            /\ Len(Tail(Append(reports, r))) = Len(reports) /\ Len(reports) \in Nat
        BY <4>1
      <4>3. reports' = IF MaxLen = None \/ Len(reports) < MaxLen
                       THEN Append(reports, r) ELSE Tail(Append(reports, r))
        BY <3>2 DEF MemoryWrite
      <4> QED
        BY <4>1, <4>2, <4>3
    <3> QED
      BY <3>1, <3>2 DEF Next, SqliteWrite, vars
  <2>3. \A i \in DOMAIN tables'.runs : tables'.runs[i].run \in {r.run : r \in Reports}
    <3>1. \A i \in DOMAIN tables'.runs : tables'.runs[i] \in ToSet(tables'.runs)
      BY DEF ToSet
    <3> QED
      BY <3>1 DEF FileInv, HeadRow
  <2> QED
    BY <2>1, <2>2, <2>3 DEF TypeOK
<1> QED
  BY <1>1, <1>2, FileInvariance, PTL DEF Spec

----------------------------------------------------------------------------
(* What get_report() makes of the rows. *)

LEMMA HeadOfRun ==
  ASSUME FileInv, NEW r \in Reports, Persisted(r.run)
  PROVE  RunRow(r.run) = HeadRow(r)
<1>1. \E row \in ToSet(tables.runs) : row.run = r.run
  BY DEF Persisted, ToSet
<1>2. RunRow(r.run) \in ToSet(tables.runs) /\ RunRow(r.run).run = r.run
  BY <1>1 DEF RunRow
<1>3. PICK o \in Reports : RunRow(r.run) = HeadRow(o)
  BY <1>2 DEF FileInv
<1>4. o.run = r.run
  BY <1>2, <1>3 DEF HeadRow
<1> QED
  BY <1>3, <1>4, ReportsHaveRuns

LEMMA KindsOfRows ==
  ASSUME NEW r \in Reports
  PROVE  LET rows == TableRows(r)
         IN /\ Picked(rows, {i \in DOMAIN rows : rows[i].type # "profile"}) = MetricRows(r)
            /\ Picked(rows, {i \in DOMAIN rows : rows[i].type = "profile"}) = ProfileRows(r)
<1> DEFINE a == MetricRows(r)
           b == ProfileRows(r)
           c == TableRows(r)
           A == DOMAIN a
           B == DOMAIN b
           O == {}
           R == {i \in DOMAIN c : c[i].type # "profile"}
           T == {i \in DOMAIN c : c[i].type = "profile"}
<1>1. /\ IsList(a) /\ IsList(b) /\ c = a \o b
      /\ \A i \in DOMAIN a : a[i].type # "profile"
      /\ \A i \in DOMAIN b : b[i].type = "profile"
  BY RowsOfReport
<1> HIDE DEF a, b, c
<1>2. PICK S : a \in Seq(S) /\ b \in Seq(S)
  BY <1>1, ListConcat
<1>3. /\ \A i \in DOMAIN a : i \in DOMAIN c /\ c[i] = a[i]
      /\ \A i \in DOMAIN b : Len(a) + i \in DOMAIN c /\ c[Len(a) + i] = b[i]
  BY <1>1, <1>2
<1>4. Follows(a, A, b, O, c, R) /\ Follows(a, O, b, B, c, T)
  BY <1>1, <1>3 DEF Follows
<1>5. /\ Picked(a, A) = a /\ Picked(b, B) = b
      /\ Picked(a, O) = <<>> /\ Picked(b, O) = <<>>
  BY <1>2, PickedAll, PickedNone
<1> HIDE DEF R, T, A, B, O
<1>6. Picked(c, R) = Picked(a, A) \o Picked(b, O)
  BY <1>2, <1>4, PickedConcat
<1>7. Picked(c, T) = Picked(a, O) \o Picked(b, B)
  BY <1>2, <1>4, PickedConcat
<1>8. a \o <<>> = a /\ <<>> \o b = b
  BY <1>2
<1>9. Picked(c, R) = a /\ Picked(c, T) = b
  BY <1>6, <1>7, <1>5, <1>8
<1> QED
  BY <1>9 DEF a, b, c, R, T

LEMMA LookUpFinds ==
  ASSUME NEW r \in Reports, KeysAreUnique(r.plan), NEW x \in ToSet(r.results)
  PROVE  LookUp(r.plan, x.spec.name, x.spec.feature) = x.spec
<1> DEFINE specs == r.plan.specs
           hits  == {i \in DOMAIN specs : specs[i].name = x.spec.name
                                            /\ specs[i].feature = x.spec.feature}
<1>1. IsList(specs) /\ x.spec \in ToSet(specs)
  BY HistoryAssumption DEF HistoryAssumption, IsReport
<1>2. PICK k \in DOMAIN specs : specs[k] = x.spec
  BY <1>1 DEF ToSet
<1>3. k \in Nat
  BY <1>1 DEF IsList
<1>4. hits = {k}
  <2>1. k \in hits
    BY <1>2
  <2>2. ASSUME NEW i \in hits PROVE i = k
    BY <1>2, <2>2 DEF KeysAreUnique
  <2> QED
    BY <2>1, <2>2
<1>5. LookUp(r.plan, x.spec.name, x.spec.feature) = specs[Max(hits)]
  BY <1>4 DEF LookUp
<1> HIDE DEF hits
<1>6. Max(hits) = k
  BY <1>3, <1>4 DEF Max
<1> QED
  BY <1>2, <1>5, <1>6

LEMMA RestoredIs ==
  ASSUME NEW r \in Reports
  PROVE  Restored(r) =
           [run |-> r.run, model |-> r.model, version |-> r.version, at |-> r.at,
            start |-> Parse(r.start), counts |-> r.counts, plan |-> r.plan,
            results |-> [i \in DOMAIN r.results |-> AsStored(r.results[i])],
            errors |-> r.errors, alerts |-> r.alerts,
            profile |-> IF r.profile \in {None, <<>>} THEN None
                        ELSE [i \in DOMAIN r.profile |->
                                AsStored(r.profile[i])]]
<1> DEFINE start   == Parse(r.start)
           results == [i \in DOMAIN r.results |-> AsStored(r.results[i])]
           profile == IF r.profile \in {None, <<>>} THEN None
                      ELSE [i \in DOMAIN r.profile |->
                              AsStored(r.profile[i])]
<1>1. r = [run |-> r.run, model |-> r.model, version |-> r.version, at |-> r.at,
           start |-> r.start, counts |-> r.counts, plan |-> r.plan, results |-> r.results,
           errors |-> r.errors, alerts |-> r.alerts, profile |-> r.profile]
  BY HistoryAssumption DEF HistoryAssumption, IsReport
<1>2. Restored(r) = [r EXCEPT !.start = start, !.results = results, !.profile = profile]
  BY DEF Restored
<1> HIDE DEF start, results, profile
<1>3. Restored(r) =
        [run |-> r.run, model |-> r.model, version |-> r.version, at |-> r.at,
         start |-> start, counts |-> r.counts, plan |-> r.plan, results |-> results,
         errors |-> r.errors, alerts |-> r.alerts, profile |-> profile]
  BY <1>1, <1>2
<1> QED
  BY <1>3 DEF start, results, profile

LEMMA ResultsComeBack ==
  ASSUME NEW r \in Reports, KeysAreUnique(r.plan)
  PROVE  [i \in DOMAIN MetricRows(r) |-> ReconstructResult(MetricRows(r)[i], r.plan)]
           = Restored(r).results
<1>1. \A i \in DOMAIN r.results : LET x == r.results[i] IN
        x = [spec |-> x.spec, value |-> x.value, status |-> x.status, effect |-> x.effect]
  BY HistoryAssumption DEF HistoryAssumption, IsReport, ToSet
<1>2. ASSUME NEW i \in DOMAIN r.results
      PROVE  ReconstructResult(MetricRows(r)[i], r.plan)
               = AsStored(r.results[i])
  <2> DEFINE x   == r.results[i]
             row == MetricRows(r)[i]
  <2>1. /\ row.metric = x.spec.name /\ row.feature = x.spec.feature
        /\ row.value = Numeric(x.value) /\ row.status = x.status /\ row.effect = x.effect
    BY DEF MetricRows, AsStored, ToRow, Row
  <2>2. LookUp(r.plan, x.spec.name, x.spec.feature) = x.spec
    BY LookUpFinds DEF ToSet
  <2>3. x = [spec |-> x.spec, value |-> x.value, status |-> x.status, effect |-> x.effect]
    BY <1>1
  <2> HIDE DEF x, row
  <2>4. ReconstructResult(row, r.plan) = AsStored(x)
    BY <2>1, <2>2, <2>3 DEF ReconstructResult, AsStored
  <2> QED
    BY <2>4 DEF x, row
<1>3. Restored(r).results = [i \in DOMAIN r.results |-> AsStored(r.results[i])]
  BY RestoredIs
<1>4. DOMAIN MetricRows(r) = DOMAIN r.results
  BY DEF MetricRows
<1> QED
  BY <1>2, <1>3, <1>4

LEMMA ProfileComesBack ==
  ASSUME NEW r \in Reports
  PROVE  LET rows == ProfileRows(r)
         IN (IF rows = <<>> THEN None
             ELSE [i \in DOMAIN rows |->
                     [col |-> rows[i].feature, stat |-> rows[i].metric,
                      value |-> rows[i].value]])
              = Restored(r).profile
<1> DEFINE rows == ProfileRows(r)
           cells == [i \in DOMAIN rows |-> [col |-> rows[i].feature, stat |-> rows[i].metric,
                                           value |-> rows[i].value]]
<1>1. Restored(r).profile =
        IF r.profile \in {None, <<>>} THEN None
        ELSE [i \in DOMAIN r.profile |-> AsStored(r.profile[i])]
  BY RestoredIs
<1>2. CASE r.profile \in {None, <<>>}
  <2>1. rows = <<>>
    BY <1>2 DEF ProfileRows, ProfileToRows
  <2> QED
    BY <1>1, <1>2, <2>1
<1>3. CASE r.profile \notin {None, <<>>}
  <2>1. /\ IsList(r.profile)
        /\ \A i \in DOMAIN r.profile : LET c == r.profile[i] IN
             c = [col |-> c.col, stat |-> c.stat, value |-> c.value]
    BY <1>3, HistoryAssumption DEF HistoryAssumption, IsReport, ToSet
  <2>2. DOMAIN rows = DOMAIN r.profile /\ rows # <<>>
    <3>1. DOMAIN rows = DOMAIN r.profile
      BY <1>3 DEF ProfileRows, ProfileToRows
    <3>2. 1 \in DOMAIN r.profile
      BY <1>3, <2>1 DEF IsList
    <3> QED
      BY <3>1, <3>2
  <2>3. ASSUME NEW i \in DOMAIN r.profile
        PROVE  cells[i] = AsStored(r.profile[i])
    <3> DEFINE c   == r.profile[i]
               row == rows[i]
    <3>1. row.feature = c.col /\ row.metric = c.stat /\ row.value = Numeric(c.value)
      BY <1>3 DEF ProfileRows, ProfileToRows, AsStored, Row
    <3>2. c = [col |-> c.col, stat |-> c.stat, value |-> c.value]
      BY <2>1
    <3>3. cells[i] = [col |-> row.feature, stat |-> row.metric, value |-> row.value]
      BY <2>2
    <3> HIDE DEF c, row, cells
    <3>4. cells[i] = AsStored(c)
      BY <3>1, <3>2, <3>3 DEF AsStored
    <3> QED
      BY <3>4 DEF c
  <2> QED
    BY <1>1, <1>3, <2>2, <2>3
<1> QED
  BY <1>2, <1>3

LEMMA ItemsComeBack ==
  ASSUME NEW items, IsList(items), NEW run
  PROVE  [i \in DOMAIN Stamped(run, items) |-> Stamped(run, items)[i].item] = items
<1>1. items = [i \in DOMAIN items |-> items[i]]
  BY DEF IsList
<1> QED
  BY <1>1, StampedRows

(* get_report() gives every report back that was stored, whole, up to what    *)
(* the file cannot hold.                                                      *)
THEOREM StoredReportsComeBack == Spec => []ReportsComeBack
<1>1. FileInv => ReportsComeBack
  <2> SUFFICES ASSUME FileInv, NEW r \in Reports, Persisted(r.run), KeysAreUnique(r.plan)
               PROVE  GetReport(r.run) = Restored(r)
    BY DEF ReportsComeBack
  <2> DEFINE regular == MetricRows(r)
             profile == ProfileRows(r)
             errors  == Stamped(r.run, r.errors)
             alerts  == Stamped(r.run, r.alerts)
             results == [i \in DOMAIN regular |-> ReconstructResult(regular[i], r.plan)]
             cells   == IF profile = <<>> THEN None
                        ELSE [i \in DOMAIN profile |->
                                [col |-> profile[i].feature, stat |-> profile[i].metric,
                                 value |-> profile[i].value]]
  <2>1. /\ OfRun(tables.results, r.run) = TableRows(r)
        /\ OfRun(tables.errors, r.run) = errors /\ OfRun(tables.alerts, r.run) = alerts
    BY DEF FileInv, RowsOf
  <2>2. RunRow(r.run) = HeadRow(r)
    BY HeadOfRun
  <2>3. LET rows == TableRows(r)
        IN /\ Picked(rows, {i \in DOMAIN rows : rows[i].type # "profile"}) = regular
           /\ Picked(rows, {i \in DOMAIN rows : rows[i].type = "profile"}) = profile
    BY KindsOfRows
  <2> HIDE DEF errors, alerts, regular, profile
  <2>4. GetReport(r.run) =
          [run |-> r.run, model |-> r.model, version |-> r.version, at |-> r.at,
           start |-> Parse(r.start), counts |-> r.counts, plan |-> r.plan,
           results |-> results, errors |-> [i \in DOMAIN errors |-> errors[i].item],
           alerts |-> [i \in DOMAIN alerts |-> alerts[i].item], profile |-> cells]
    BY <2>1, <2>2, <2>3 DEF GetReport, HeadRow
  <2>5. IsList(r.errors) /\ IsList(r.alerts)
    BY HistoryAssumption DEF HistoryAssumption, IsReport
  <2>6. /\ [i \in DOMAIN errors |-> errors[i].item] = r.errors
        /\ [i \in DOMAIN alerts |-> alerts[i].item] = r.alerts
    BY <2>5, ItemsComeBack DEF errors, alerts
  <2>7. results = Restored(r).results
    BY ResultsComeBack DEF regular
  <2>8. cells = Restored(r).profile
    BY ProfileComesBack DEF profile
  <2>9. Restored(r) =
          [run |-> r.run, model |-> r.model, version |-> r.version, at |-> r.at,
           start |-> Parse(r.start), counts |-> r.counts, plan |-> r.plan,
           results |-> Restored(r).results, errors |-> r.errors, alerts |-> r.alerts,
           profile |-> Restored(r).profile]
    BY RestoredIs
  <2> HIDE DEF results, cells
  <2> QED
    BY <2>4, <2>6, <2>7, <2>8, <2>9
<1> QED
  BY <1>1, FileInvariance, PTL

----------------------------------------------------------------------------
(* What the two stores make of one report. *)

LEMMA RowsAre ==
  ASSUME NEW r \in Reports
  PROVE  /\ IsList(ResultRows(r))
         /\ \A i \in DOMAIN ResultRows(r) : \E m, f, v, s, e, t :
              ResultRows(r)[i] = Row(r, m, f, v, s, e, t)
<1> DEFINE A == [i \in DOMAIN r.results |-> ToRow(r, r.results[i])]
           B == ProfileToRows(r)
           Good(x) == \E m, f, v, s, e, t : x = Row(r, m, f, v, s, e, t)
<1>1. IsList(r.results) /\ (r.profile # None => IsList(r.profile))
  BY HistoryAssumption DEF HistoryAssumption, IsReport
<1>2. IsList(A)
  <2>1. PICK m \in Nat : DOMAIN r.results = 1..m
    BY <1>1 DEF IsList
  <2> QED
    BY <2>1, FunctionIsList
<1>3. IsList(B)
  <2>1. PICK n \in Nat : DOMAIN B = 1..n /\ B = [i \in 1..n |-> B[i]]
    <3>1. CASE r.profile = None
      BY <3>1 DEF ProfileToRows
    <3>2. CASE r.profile # None
      BY <1>1, <3>2 DEF ProfileToRows, IsList
    <3> QED
      BY <3>1, <3>2
  <2> HIDE DEF B
  <2> QED
    BY <2>1, FunctionIsList
<1>4. \A i \in DOMAIN A : Good(A[i])
  BY DEF ToRow
<1>5. \A i \in DOMAIN B : Good(B[i])
  BY DEF ProfileToRows
<1>6. ResultRows(r) = A \o B
  BY DEF ResultRows
<1> HIDE DEF A, B, Good
<1>7. IsList(A \o B) /\ ToSet(A \o B) = ToSet(A) \cup ToSet(B)
  BY <1>2, <1>3, ListConcat
<1>8. \A x \in ToSet(A \o B) : Good(x)
  BY <1>4, <1>5, <1>7 DEF ToSet
<1>9. \A i \in DOMAIN ResultRows(r) : Good(ResultRows(r)[i])
  BY <1>6, <1>8 DEF ToSet
<1> QED
  BY <1>6, <1>7, <1>9 DEF Good

(* A row of memory, and the row of the file that read_history() joins with    *)
(* that of its run.                                                            *)
LEMMA RowsAgree ==
  ASSUME FileInv, NEW r \in Reports, Persisted(r.run), NEW q,
         NEW m, NEW f, NEW v, NEW s, NEW e, NEW t
  PROVE  LET x    == Row(r, m, f, v, s, e, t)
             meta == IF q.metadata THEN ExtractPlanMeta(r.plan, r.counts) ELSE None
         IN /\ SqlRowToDict(AsStored(x), q.metadata) = AsStored([x EXCEPT !.meta = meta])
            /\ ForMetric([x EXCEPT !.meta = meta], q) <=> ForMetric(AsStored(x), q)
            /\ ForModel(AsStored(x), q) <=> ForModel(r, q)
<1> DEFINE x == Row(r, m, f, v, s, e, t)
           plan == ExtractPlanMeta(r.plan, r.counts)
           meta == IF q.metadata THEN plan ELSE None
           n == Numeric(v)
<1>1. AsStored(x) = [run |-> r.run, model |-> r.model, version |-> r.version, metric |-> m,
                     feature |-> f, value |-> n, status |-> s, effect |-> e,
                     start |-> r.start, type |-> t, meta |-> None]
  BY DEF AsStored, Row
<1>2. /\ RunRow(r.run).plan = r.plan /\ RunRow(r.run).counts = r.counts
  <2>1. RunRow(r.run) = HeadRow(r)
    BY HeadOfRun
  <2>2. HeadRow(r).plan = r.plan /\ HeadRow(r).counts = r.counts
    BY DEF HeadRow
  <2> QED
    BY <2>1, <2>2
<1>3. SqlRowToDict(AsStored(x), q.metadata) =
        IF q.metadata THEN [AsStored(x) EXCEPT !.meta = plan] ELSE AsStored(x)
  BY <1>1, <1>2 DEF SqlRowToDict
<1>4. AsStored([x EXCEPT !.meta = meta]) =
        [run |-> r.run, model |-> r.model, version |-> r.version, metric |-> m,
         feature |-> f, value |-> n, status |-> s, effect |-> e,
         start |-> r.start, type |-> t, meta |-> meta]
  <2> DEFINE y == [run |-> r.run, model |-> r.model, version |-> r.version, metric |-> m,
                   feature |-> f, value |-> v, status |-> s, effect |-> e,
                   start |-> r.start, type |-> t, meta |-> meta]
  <2> HIDE DEF meta
  <2>1. [x EXCEPT !.meta = meta] = y
    BY DEF Row
  <2>2. AsStored(y) = [y EXCEPT !.value = Numeric(y.value)] /\ y.value = v
    BY DEF AsStored
  <2>3. [y EXCEPT !.value = n] =
          [run |-> r.run, model |-> r.model, version |-> r.version, metric |-> m,
           feature |-> f, value |-> n, status |-> s, effect |-> e,
           start |-> r.start, type |-> t, meta |-> meta]
    <3> HIDE DEF n
    <3> QED
      OBVIOUS
  <2> QED
    BY <2>1, <2>2, <2>3
<1>5. [x EXCEPT !.meta = meta].metric = m /\ [x EXCEPT !.meta = meta].type = t
  BY DEF Row
<1> HIDE DEF plan, n
<1>6. SqlRowToDict(AsStored(x), q.metadata) = AsStored([x EXCEPT !.meta = meta])
  BY <1>1, <1>3, <1>4
<1>7. ForMetric([x EXCEPT !.meta = meta], q) <=> ForMetric(AsStored(x), q)
  BY <1>1, <1>5 DEF ForMetric
<1>8. ForModel(AsStored(x), q) <=> ForModel(r, q)
  BY <1>1 DEF ForModel
<1> QED
  BY <1>6, <1>7, <1>8 DEF plan

(* The rows of a report that a query finds are the same in both stores, and   *)
(* in the same order.                                                          *)
LEMMA SameRows ==
  ASSUME FileInv, NEW q, NEW r \in Reports, Persisted(r.run), ForModel(r, q)
  PROVE  LET inMemory == MatchingRows(r, q)
             inFile   == Picked(tables.results,
                                {i \in Matching(q) : tables.results[i].run = r.run})
         IN  [n \in DOMAIN inFile |-> SqlRowToDict(inFile[n], q.metadata)]
               = [n \in DOMAIN inMemory |-> AsStored(inMemory[n])]
<1> DEFINE T    == tables.results
           P    == {i \in DOMAIN T : T[i].run = r.run}
           R    == {i \in Matching(q) : T[i].run = r.run}
           p    == TableRows(r)
           rows == ReportToRows(r, q.metadata)
           M    == {i \in DOMAIN rows : ForMetric(rows[i], q)}
           meta == IF q.metadata THEN ExtractPlanMeta(r.plan, r.counts) ELSE None
<1>1. Picked(T, P) = p
  BY DEF FileInv, RowsOf, OfRun
<1>2. T \in Seq(ToSet(T)) /\ P \subseteq DOMAIN T
  BY DEF FileInv, IsList
<1>3. /\ DOMAIN p = DOMAIN ResultRows(r) /\ DOMAIN rows = DOMAIN ResultRows(r)
      /\ \A k \in DOMAIN ResultRows(r) : /\ p[k] = AsStored(ResultRows(r)[k])
                                         /\ rows[k] = [ResultRows(r)[k] EXCEPT !.meta = meta]
  BY DEF TableRows, ReportToRows
<1>4. IsList(ResultRows(r))
  BY RowsAre
<1> HIDE DEF T, P, p, rows, meta
<1>5. ASSUME NEW k \in DOMAIN p
      PROVE  /\ SqlRowToDict(p[k], q.metadata) = AsStored(rows[k])
             /\ ForMetric(rows[k], q) <=> ForMetric(p[k], q)
             /\ ForModel(p[k], q)
  <2>1. PICK m, f, v, s, e, t : ResultRows(r)[k] = Row(r, m, f, v, s, e, t)
    BY <1>3, RowsAre
  <2> QED
    BY <1>3, <2>1, RowsAgree DEF meta
<1>6. M \subseteq DOMAIN p /\ R \subseteq P
  BY <1>3 DEF Matching, P, T
<1>7. /\ DOMAIN p = 1..Len(p)
      /\ \A k \in DOMAIN p : InOrder(P)[k] \in P /\ T[InOrder(P)[k]] = p[k]
  BY <1>1, <1>2, PickedGoes DEF GoesThrough
<1>8. \A k \in DOMAIN p : k \in M <=> InOrder(P)[k] \in R
  BY <1>3, <1>5, <1>7 DEF Matching, P, T
<1> HIDE DEF M, R
<1>9. Picked(p, M) = Picked(T, R)
  BY <1>1, <1>2, <1>6, <1>8, PickedAgain
<1>10. /\ DOMAIN Picked(p, M) = 1..Cardinality(M)
       /\ DOMAIN Picked(rows, M) = 1..Cardinality(M)
       /\ \A n \in 1..Cardinality(M) : /\ Picked(p, M)[n] = p[InOrder(M)[n]]
                                       /\ Picked(rows, M)[n] = rows[InOrder(M)[n]]
  BY DEF Picked
<1>11. \A n \in 1..Cardinality(M) : InOrder(M)[n] \in DOMAIN p
  <2>1. p \in Seq(ToSet(T))
    BY <1>1, <1>2, PickedGoes
  <2>2. GoesThrough(InOrder(M), Len(Picked(p, M)), M) /\ Len(Picked(p, M)) \in Nat
        /\ DOMAIN Picked(p, M) = 1..Len(Picked(p, M))
    BY <1>6, <2>1, PickedGoes
  <2> QED
    BY <1>6, <1>10, <2>2 DEF GoesThrough
<1>12. \A n \in 1..Cardinality(M) :
         SqlRowToDict(Picked(p, M)[n], q.metadata) = AsStored(Picked(rows, M)[n])
  BY <1>5, <1>10, <1>11
<1>13. [n \in DOMAIN Picked(p, M) |-> SqlRowToDict(Picked(p, M)[n], q.metadata)]
         = [n \in DOMAIN Picked(rows, M) |-> AsStored(Picked(rows, M)[n])]
  BY <1>10, <1>12
<1> QED
  BY <1>9, <1>13 DEF T, R, rows, M, MatchingRows

(* Both stores flatten a report alike: a query without a limit finds the same *)
(* rows of it, in the same order, in memory and in the file.                  *)
THEOREM StoresHoldTheSame == Spec => []StoresAgree
<1>1. FileInv /\ TypeOK => StoresAgree
  <2>1. TypeOK => ToSet(reports) \subseteq Reports
    BY DEF TypeOK, ToSet
  <2> QED
    BY <2>1, SameRows DEF StoresAgree
<1> QED
  BY <1>1, FileInvariance, TypeInvariance, PTL

----------------------------------------------------------------------------
(* Histories with a limit. *)

(* What a row of the results has of its report. *)
LEMMA RowOfFile ==
  ASSUME FileInv, NEW i \in DOMAIN tables.results, NEW q
  PROVE  \E r \in Reports : /\ Persisted(r.run) /\ tables.results[i].run = r.run
                            /\ tables.results[i].start = r.start
                            /\ ForModel(tables.results[i], q) <=> ForModel(r, q)
<1> DEFINE T == tables.results
<1>1. PICK r \in Reports : T[i] \in ToSet(TableRows(r))
  BY DEF FileInv, ToSet
<1>2. PICK j \in DOMAIN TableRows(r) : T[i] = TableRows(r)[j]
  BY <1>1 DEF ToSet
<1>3. j \in DOMAIN ResultRows(r) /\ T[i] = AsStored(ResultRows(r)[j])
  BY <1>2 DEF TableRows
<1>4. PICK m, f, v, s, e, t : ResultRows(r)[j] = Row(r, m, f, v, s, e, t)
  BY <1>3, RowsAre
<1>5. /\ T[i].run = r.run /\ T[i].start = r.start
      /\ T[i].model = r.model /\ T[i].version = r.version
  BY <1>3, <1>4 DEF AsStored, Row
<1>6. Persisted(r.run)
  <2> DEFINE P == {k \in DOMAIN T : T[k].run = r.run}
  <2>1. i \in P
    BY <1>5
  <2>2. T \in Seq(ToSet(T)) /\ P \subseteq DOMAIN T
    BY DEF FileInv, IsList
  <2>3. OfRun(T, r.run) = Picked(T, P)
    BY DEF OfRun
  <2>4. OfRun(T, r.run) = IF Persisted(r.run) THEN TableRows(r) ELSE <<>>
    BY DEF FileInv, RowsOf
  <2> HIDE DEF P, T
  <2>5. \A l \in P : \E k \in DOMAIN Picked(T, P) : Picked(T, P)[k] = T[l]
    BY <2>2, PickFacts
  <2>6. Picked(T, P) # <<>>
    BY <2>1, <2>5
  <2> QED
    BY <2>3, <2>4, <2>6
<1> QED
  BY <1>5, <1>6 DEF ForModel

LEMMA TextOrderIs == ASSUME NEW r \in Reports PROVE TextOrder(r.start) \in Int
  BY HistoryAssumption DEF HistoryAssumption, IsReport, TextOrder

(* The reports that a query reads in memory: those of the model that are held, *)
(* the latest period first.                                                    *)
LEMMA MineIs ==
  ASSUME TypeOK, WrittenAlike, NEW q
  PROVE  /\ Len(Mine(q)) \in Nat /\ DOMAIN Mine(q) = 1..Len(Mine(q))
         /\ \A k \in 1..Len(Mine(q)) : /\ Mine(q)[k] \in Reports /\ Persisted(Mine(q)[k].run)
                                       /\ Mine(q)[k] \in ToSet(reports) /\ ForModel(Mine(q)[k], q)
         /\ \A r \in ToSet(reports) : ForModel(r, q) => \E k \in 1..Len(Mine(q)) : Mine(q)[k] = r
         /\ \A j, k \in 1..Len(Mine(q)) :
              j < k => TextOrder(Mine(q)[k].start) < TextOrder(Mine(q)[j].start)
<1> DEFINE P == {i \in DOMAIN reports : ForModel(reports[i], q)}
           p == Picked(reports, P)
           n == Len(p)
           f == InOrder(P)
           m == Mine(q)
<1>1. reports \in Seq(Reports) /\ P \subseteq DOMAIN reports
  BY DEF TypeOK
<1>2. p \in Seq(Reports) /\ n \in Nat /\ GoesThrough(f, n, P) /\ \A k \in 1..n : p[k] = reports[f[k]]
  BY <1>1, PickedGoes
<1>3. m = [k \in 1..n |-> p[(n - k) + 1]]
  BY DEF Mine, NewestFirst, Reverse
<1>4. \A k \in 1..n : (n - k) + 1 \in 1..n /\ (n - ((n - k) + 1)) + 1 = k
  BY <1>2
<1>5. \A i \in P : i \in DOMAIN reports /\ reports[i] \in Reports /\ ForModel(reports[i], q)
  BY <1>1
<1>6. \A i, j \in P : i < j => TextOrder(reports[i].start) < TextOrder(reports[j].start)
  BY <1>5 DEF WrittenAlike
<1>7. \A i \in P : reports[i] \in ToSet(reports) /\ Persisted(reports[i].run)
  BY <1>5 DEF WrittenAlike, ToSet
<1>8. \A r \in ToSet(reports) : ForModel(r, q) => \E i \in P : reports[i] = r
  BY DEF ToSet
<1> HIDE DEF P, p, n, f, m
<1>9. Len(m) = n /\ DOMAIN m = 1..n
  BY <1>2, <1>3
<1>10. \A k \in 1..n : m[k] = reports[f[(n - k) + 1]] /\ f[(n - k) + 1] \in P
  BY <1>2, <1>3, <1>4 DEF GoesThrough
<1>11. \A i \in P : \E k \in 1..n : m[k] = reports[i]
  <2> SUFFICES ASSUME NEW i \in P PROVE \E k \in 1..n : m[k] = reports[i]
    OBVIOUS
  <2>1. PICK j \in 1..n : f[j] = i
    BY <1>2 DEF GoesThrough
  <2> QED
    BY <1>4, <1>10, <2>1
<1>12. ASSUME NEW j \in 1..n, NEW k \in 1..n, j < k
       PROVE  TextOrder(m[k].start) < TextOrder(m[j].start)
  <2>1. (n - k) + 1 \in 1..n /\ (n - j) + 1 \in 1..n /\ (n - k) + 1 < (n - j) + 1
    BY <1>2, <1>12
  <2>2. f[(n - k) + 1] < f[(n - j) + 1]
    BY <1>2, <2>1 DEF GoesThrough
  <2> QED
    BY <1>6, <1>10, <2>2
<1>13. \A k \in 1..n : /\ m[k] \in Reports /\ Persisted(m[k].run)
                       /\ m[k] \in ToSet(reports) /\ ForModel(m[k], q)
  BY <1>5, <1>7, <1>10
<1>14. \A r \in ToSet(reports) : ForModel(r, q) => \E k \in 1..n : m[k] = r
  BY <1>8, <1>11
<1> QED
  BY <1>2, <1>9, <1>12, <1>13, <1>14 DEF m

(* The first L of the numbers that a goes up to, step by step, and L of the   *)
(* hits, where those of the first k steps, H[k], come before the others: of   *)
(* every step there are as many.                                               *)
Cut(n, a, hits, H, ids, L) ==
  /\ IsFiniteSet(hits) /\ ids \subseteq hits /\ L \in Nat /\ Cardinality(ids) = L
  /\ \A k \in 0..n : /\ a[k] \in Nat /\ H[k] \subseteq hits /\ Cardinality(H[k]) = a[k]
                     /\ ids \subseteq H[k] \/ H[k] \subseteq ids
  /\ \A k \in 1..n : H[k - 1] \subseteq H[k]

LEMMA CutTakesTheSame ==
  ASSUME NEW n \in Nat, NEW a, NEW hits, NEW H, NEW ids, NEW L, Cut(n, a, hits, H, ids, L),
         NEW k \in 1..n
  PROVE  Cardinality(ids \cap (H[k] \ H[k - 1])) = Cardinality((1..L) \cap ((a[k - 1] + 1)..a[k]))
<1> DEFINE Least(x) == IF x <= L THEN x ELSE L
<1>1. L \in Nat /\ \A j \in 0..n : a[j] \in Nat /\ H[j] \subseteq hits
  BY DEF Cut
<1>2. ASSUME NEW j \in 0..n
      PROVE  IsFiniteSet(ids \cap H[j]) /\ Cardinality(ids \cap H[j]) = Least(a[j])
  <2>1. IsFiniteSet(H[j]) /\ IsFiniteSet(ids)
    BY FS_Subset DEF Cut
  <2>2. CASE ids \subseteq H[j]
    <3>1. ids \cap H[j] = ids
      BY <2>2
    <3>2. Cardinality(ids) <= Cardinality(H[j])
      BY <2>1, <2>2, FS_Subset
    <3>3. L <= a[j] /\ Cardinality(ids) = L /\ a[j] \in Nat
      BY <3>2 DEF Cut
    <3>4. Least(a[j]) = L
      BY <1>1, <3>3
    <3> HIDE DEF Least
    <3> QED
      BY <2>1, <3>1, <3>3, <3>4
  <2>3. CASE H[j] \subseteq ids
    <3>1. ids \cap H[j] = H[j]
      BY <2>3
    <3>2. Cardinality(H[j]) <= Cardinality(ids)
      BY <2>1, <2>3, FS_Subset
    <3>3. a[j] <= L /\ Cardinality(H[j]) = a[j]
      BY <3>2 DEF Cut
    <3> QED
      BY <1>1, <2>1, <3>1, <3>3
  <2> QED
    BY <2>2, <2>3 DEF Cut
<1>3. k \in 0..n /\ k - 1 \in 0..n /\ H[k - 1] \subseteq H[k]
  BY DEF Cut
<1> DEFINE A == ids \cap H[k - 1]
           B == ids \cap (H[k] \ H[k - 1])
           C == ids \cap H[k]
<1>4. A \cup B = C /\ A \cap B = {} /\ B \subseteq C
  BY <1>3
<1>5. /\ IsFiniteSet(A) /\ IsFiniteSet(C)
      /\ Cardinality(A) = Least(a[k - 1]) /\ Cardinality(C) = Least(a[k])
  BY <1>2, <1>3
<1>6. a[k - 1] \in Nat /\ a[k] \in Nat
  BY <1>1, <1>3
<1> HIDE DEF A, B, C, Least
<1>7. IsFiniteSet(B) /\ Cardinality(B) \in Nat
  BY <1>4, <1>5, FS_Subset, FS_CardinalityType
<1>8. Cardinality(C) = Cardinality(A) + Cardinality(B)
  <2>1. Cardinality(A \cup B) = Cardinality(A) + Cardinality(B) - Cardinality(A \cap B)
    BY <1>5, <1>7, FS_Union
  <2>2. Cardinality(A) \in Nat
    BY <1>5, FS_CardinalityType
  <2>3. Cardinality(A \cap B) = 0
    BY <1>4, FS_EmptySet
  <2>4. Cardinality(A \cup B) = Cardinality(C)
    BY <1>4
  <2> QED
    BY <1>7, <2>1, <2>2, <2>3, <2>4
<1>9. a[k - 1] <= a[k]
  <2>1. IsFiniteSet(H[k])
    BY <1>1, <1>3, FS_Subset DEF Cut
  <2>2. Cardinality(H[k - 1]) <= Cardinality(H[k])
    BY <1>3, <2>1, FS_Subset
  <2> QED
    BY <1>3, <2>2 DEF Cut
<1>10. (1..L) \cap ((a[k - 1] + 1)..a[k]) = (a[k - 1] + 1)..Least(a[k])
  BY <1>1, <1>6 DEF Least
<1>11. Cardinality((a[k - 1] + 1)..Least(a[k])) =
         IF a[k - 1] + 1 > Least(a[k]) THEN 0 ELSE Least(a[k]) - (a[k - 1] + 1) + 1
  <2>1. a[k - 1] + 1 \in Int /\ Least(a[k]) \in Int
    BY <1>1, <1>6 DEF Least
  <2> QED
    BY <2>1, FS_Interval
<1>12. Cardinality(B) = Least(a[k]) - Least(a[k - 1])
  BY <1>1, <1>5, <1>6, <1>7, <1>8 DEF Least
<1>13. Least(a[k]) - Least(a[k - 1]) =
         IF a[k - 1] + 1 > Least(a[k]) THEN 0 ELSE Least(a[k]) - (a[k - 1] + 1) + 1
  BY <1>1, <1>6, <1>9 DEF Least
<1> QED
  BY <1>10, <1>11, <1>12, <1>13 DEF B

(* The rows that a query finds in the file of the first k reports that it     *)
(* reads in memory, the rows that it finds of each of them in memory, and      *)
(* the number of those of the first k.                                         *)
HitsUpto(q) ==
  [k \in 0..Len(Mine(q)) |->
     {i \in Matching(q) : \E j \in 1..k : tables.results[i].run = Mine(q)[j].run}]
RowLists(q) == [k \in DOMAIN Mine(q) |-> MatchingRows(Mine(q)[k], q)]
RowsUpto(q) == [k \in 0..Len(Mine(q)) |-> Len(Joined(RowLists(q))[k])]

LEMMA ListsOfRows ==
  ASSUME NEW q, NEW r \in Reports
  PROVE  /\ \E S : MatchingRows(r, q) \in Seq(S)
         /\ \A i \in DOMAIN MatchingRows(r, q) : MatchingRows(r, q)[i].run = r.run
<1> DEFINE rows == ReportToRows(r, q.metadata)
           M    == {i \in DOMAIN rows : ForMetric(rows[i], q)}
           meta == IF q.metadata THEN ExtractPlanMeta(r.plan, r.counts) ELSE None
<1>1. PICK n \in Nat : DOMAIN ResultRows(r) = 1..n
  BY RowsAre DEF IsList
<1>2. rows = [i \in 1..n |-> [ResultRows(r)[i] EXCEPT !.meta = meta]]
  BY <1>1 DEF ReportToRows
<1>3. \A i \in 1..n : rows[i].run = r.run
  <2> SUFFICES ASSUME NEW i \in 1..n PROVE rows[i].run = r.run
    OBVIOUS
  <2>1. PICK m, f, v, s, e, t : ResultRows(r)[i] = Row(r, m, f, v, s, e, t)
    BY <1>1, RowsAre
  <2> HIDE DEF meta
  <2> QED
    BY <1>2, <2>1 DEF Row
<1>4. rows = [i \in 1..n |-> rows[i]]
  BY <1>2
<1>5. MatchingRows(r, q) = Picked(rows, M) /\ M \subseteq DOMAIN rows
  BY DEF MatchingRows
<1> HIDE DEF rows, M
<1>6. IsList(rows) /\ DOMAIN rows = 1..n
  BY <1>4, FunctionIsList
<1>7. /\ Picked(rows, M) \in Seq(ToSet(rows))
      /\ \A i \in DOMAIN Picked(rows, M) : Picked(rows, M)[i] = rows[InOrder(M)[i]]
                                             /\ InOrder(M)[i] \in M
  BY <1>5, <1>6, PickFacts DEF IsList
<1> QED
  BY <1>3, <1>5, <1>6, <1>7

(* In memory the rows of the first reports come first, as many of each as it  *)
(* has rows that match.                                                        *)
LEMMA MemoryCounts ==
  ASSUME TypeOK, WrittenAlike, NEW q
  PROVE  LET n == Len(Mine(q)) a == RowsUpto(q) all == AllRows(q) IN
         /\ n \in Nat /\ a[0] = 0 /\ Len(all) = a[n] /\ DOMAIN all = 1..a[n]
         /\ \A k \in 0..n : a[k] \in Nat /\ a[k] <= a[n]
         /\ \A k \in 1..n : a[k] = a[k - 1] + Len(MatchingRows(Mine(q)[k], q))
         /\ \A k \in 1..n : \A i \in 1..a[n] :
              all[i].run = Mine(q)[k].run <=> i \in (a[k - 1] + 1)..a[k]
         /\ \A i \in 1..a[n] : \E k \in 1..n : all[i].run = Mine(q)[k].run
<1> DEFINE n   == Len(Mine(q))
           m   == Mine(q)
           a   == RowsUpto(q)
           all == AllRows(q)
           qs  == RowLists(q)
<1>1. /\ n \in Nat /\ DOMAIN m = 1..n
      /\ \A k \in 1..n : m[k] \in Reports
      /\ \A j, k \in 1..n : j < k => TextOrder(m[k].start) < TextOrder(m[j].start)
  BY MineIs
<1>2. qs = [k \in 1..n |-> MatchingRows(m[k], q)]
  BY <1>1 DEF RowLists
<1>3. all = FlattenSeq(qs)
  BY DEF AllRows, RowLists
<1>4. a = [k \in 0..n |-> Len(Joined(qs)[k])]
  BY DEF RowsUpto
<1> HIDE DEF m, n, a, all, qs
<1>5. /\ Len(qs) = n
      /\ \A k \in 1..n : qs[k] = MatchingRows(m[k], q)
  BY <1>1, <1>2
<1> DEFINE S == UNION {ToSet(qs[k]) : k \in 1..n}
<1>6. ASSUME NEW k \in 1..n
      PROVE  /\ qs[k] \in Seq(S)
             /\ \A i \in DOMAIN qs[k] : qs[k][i].run = m[k].run
  <2>1. PICK R : qs[k] \in Seq(R)
    BY <1>1, <1>5, ListsOfRows
  <2>2. \A i \in DOMAIN qs[k] : qs[k][i] \in S
    BY DEF ToSet
  <2>3. \A i \in DOMAIN qs[k] : qs[k][i].run = m[k].run
    BY <1>1, <1>5, ListsOfRows
  <2> HIDE DEF S
  <2>4. qs[k] \in Seq(S)
    BY <2>1, <2>2
  <2> QED
    BY <2>3, <2>4
<1> HIDE DEF S
<1>7. Joined(qs)[0] = <<>> /\ all = Concat(qs)
  <2>1. qs \in Seq(Seq(S))
    BY <1>1, <1>2, <1>6
  <2> QED
    BY <1>1, <1>3, <1>5, <2>1, JoinedIs, FlattenIsConcat
<1>8. /\ \A k \in 0..n : Joined(qs)[k] \in Seq(S) /\ Len(Joined(qs)[k]) \in Nat
                         /\ Len(Joined(qs)[k]) <= Len(all)
      /\ \A k \in 1..n : Len(Joined(qs)[k]) = Len(Joined(qs)[k - 1]) + Len(qs[k])
      /\ \A k \in 0..n : /\ \A i \in 1..Len(Joined(qs)[k]) : ComesFrom(all[i], qs, 1, k)
                         /\ \A i \in (Len(Joined(qs)[k]) + 1)..Len(all) :
                              ComesFrom(all[i], qs, k + 1, n)
  BY <1>1, <1>5, <1>6, <1>7, JoinedFacts
<1>9. all = Joined(qs)[n] /\ n \in 0..n /\ 0 \in 0..n
  BY <1>1, <1>5, <1>7 DEF Concat
<1>10. /\ a[0] = 0 /\ Len(all) = a[n] /\ DOMAIN all = 1..a[n]
  <2>1. all \in Seq(S) /\ a[n] = Len(Joined(qs)[n]) /\ a[0] = Len(Joined(qs)[0])
    BY <1>4, <1>8, <1>9
  <2> QED
    BY <1>7, <1>9, <2>1
<1>11. /\ \A k \in 0..n : a[k] \in Nat /\ a[k] <= a[n] /\ a[k] = Len(Joined(qs)[k])
  BY <1>4, <1>8, <1>10
<1>12. \A k \in 1..n : a[k] = a[k - 1] + Len(qs[k])
  <2> SUFFICES ASSUME NEW k \in 1..n PROVE a[k] = a[k - 1] + Len(qs[k])
    OBVIOUS
  <2>1. k \in 0..n /\ k - 1 \in 0..n
    BY <1>1
  <2> QED
    BY <1>8, <1>11, <2>1
<1>13. ASSUME NEW x, NEW lo \in 1..(n + 1), NEW hi \in 0..n, ComesFrom(x, qs, lo, hi)
       PROVE  \E j \in lo..hi : j \in 1..n /\ x.run = m[j].run
  <2>1. PICK j \in lo..hi : \E i \in DOMAIN qs[j] : x = qs[j][i]
    BY <1>13 DEF ComesFrom
  <2>2. j \in 1..n
    BY <1>1
  <2> QED
    BY <1>6, <2>1, <2>2
<1>14. \A j, k \in 1..n : m[j].run = m[k].run => j = k
  <2> SUFFICES ASSUME NEW j \in 1..n, NEW k \in 1..n, m[j].run = m[k].run PROVE j = k
    OBVIOUS
  <2>1. m[j] = m[k]
    BY <1>1, ReportsHaveRuns
  <2>2. TextOrder(m[j].start) \in Int
    BY <1>1, TextOrderIs
  <2>3. ~(j < k) /\ ~(k < j)
    BY <1>1, <2>1, <2>2
  <2> QED
    BY <1>1, <2>3
<1>15. ASSUME NEW k \in 0..n, NEW i \in 1..a[n]
       PROVE  /\ i <= a[k] => \E j \in 1..k : j \in 1..n /\ all[i].run = m[j].run
              /\ ~(i <= a[k]) => \E j \in (k + 1)..n : j \in 1..n /\ all[i].run = m[j].run
  <2>1. a[k] \in Nat /\ a[n] \in Nat /\ a[k] = Len(Joined(qs)[k]) /\ a[n] = Len(all)
    BY <1>9, <1>10, <1>11
  <2>2. i <= a[k] => ComesFrom(all[i], qs, 1, k)
    BY <1>8, <2>1
  <2>3. ~(i <= a[k]) => ComesFrom(all[i], qs, k + 1, n)
    BY <1>8, <2>1
  <2>4. 1 \in 1..(n + 1) /\ k + 1 \in 1..(n + 1) /\ n \in 0..n
    BY <1>1
  <2> QED
    BY <1>13, <2>2, <2>3, <2>4
<1>16. ASSUME NEW k \in 1..n, NEW i \in 1..a[n]
       PROVE  all[i].run = m[k].run <=> i \in (a[k - 1] + 1)..a[k]
  <2>1. k \in 0..n /\ k - 1 \in 0..n /\ n \in 0..n
    BY <1>1
  <2>2. a[k] \in Nat /\ a[k - 1] \in Nat /\ a[n] \in Nat
    BY <1>11, <2>1
  <2>3. ASSUME all[i].run = m[k].run PROVE i <= a[k]
    <3>1. \A j \in (k + 1)..n : j # k
      BY <1>1
    <3> QED
      BY <1>14, <1>15, <2>1, <2>3, <3>1
  <2>4. ASSUME all[i].run = m[k].run PROVE ~(i <= a[k - 1])
    <3>1. \A j \in 1..(k - 1) : j # k
      BY <1>1
    <3> QED
      BY <1>14, <1>15, <2>1, <2>4, <3>1
  <2>5. ASSUME i <= a[k], ~(i <= a[k - 1]) PROVE all[i].run = m[k].run
    <3>1. PICK j \in 1..k : j \in 1..n /\ all[i].run = m[j].run
      BY <1>15, <2>1, <2>5
    <3>2. PICK l \in ((k - 1) + 1)..n : l \in 1..n /\ all[i].run = m[l].run
      BY <1>15, <2>1, <2>5
    <3>3. j = l
      BY <1>14, <3>1, <3>2
    <3>4. j = k
      BY <1>1, <3>1, <3>2, <3>3
    <3> QED
      BY <3>1, <3>4
  <2> QED
    BY <2>2, <2>3, <2>4, <2>5
<1>17. \A i \in 1..a[n] : \E k \in 1..n : all[i].run = m[k].run
  <2> SUFFICES ASSUME NEW i \in 1..a[n] PROVE \E k \in 1..n : all[i].run = m[k].run
    OBVIOUS
  <2>1. n \in 0..n /\ i <= a[n]
    BY <1>9, <1>11
  <2> QED
    BY <1>15, <2>1
<1> QED
  BY <1>1, <1>5, <1>10, <1>11, <1>12, <1>16, <1>17 DEF m, n, a, all

(* The file has as many rows of the first k reports.                          *)
LEMMA FileCounts ==
  ASSUME FileInv, TypeOK, WrittenAlike, NEW q
  PROVE  /\ IsFiniteSet(Matching(q))
         /\ \A k \in 0..Len(Mine(q)) :
              /\ HitsUpto(q)[k] \subseteq Matching(q)
              /\ Cardinality(HitsUpto(q)[k]) = RowsUpto(q)[k]
         /\ \A k \in 1..Len(Mine(q)) :
              /\ HitsUpto(q)[k - 1] \subseteq HitsUpto(q)[k]
              /\ HitsUpto(q)[k] \ HitsUpto(q)[k - 1]
                   = {i \in Matching(q) : tables.results[i].run = Mine(q)[k].run}
<1> DEFINE n == Len(Mine(q))
           m == Mine(q)
           a == RowsUpto(q)
           H == HitsUpto(q)
           T == tables.results
           hits == Matching(q)
           R == [k \in 1..n |-> {i \in hits : T[i].run = m[k].run}]
           G == {k \in 0..n : Cardinality(H[k]) = a[k]}
<1>1. /\ n \in Nat
      /\ \A k \in 1..n : m[k] \in Reports /\ Persisted(m[k].run) /\ ForModel(m[k], q)
      /\ \A j, k \in 1..n : j < k => TextOrder(m[k].start) < TextOrder(m[j].start)
  BY MineIs
<1>2. /\ a[0] = 0 /\ \A k \in 0..n : a[k] \in Nat
      /\ \A k \in 1..n : a[k] = a[k - 1] + Len(MatchingRows(m[k], q))
  BY MemoryCounts
<1>3. IsFiniteSet(hits)
  <2>1. DOMAIN T = 1..Len(T) /\ Len(T) \in Nat
    BY DEF FileInv, IsList
  <2>2. IsFiniteSet(1..Len(T))
    BY <2>1, FS_Interval
  <2> QED
    BY <2>1, <2>2, FS_Subset DEF Matching
<1>4. H = [k \in 0..n |-> {i \in hits : \E j \in 1..k : T[i].run = m[j].run}]
  BY DEF HitsUpto
<1> HIDE DEF m, n, a, H, T, hits
<1>5. \A k \in 0..n : \A i : i \in H[k] <=> i \in hits /\ \E j \in 1..k : T[i].run = m[j].run
  BY <1>4
<1>6. \A j, k \in 1..n : j < k => m[j].run # m[k].run
  <2> SUFFICES ASSUME NEW j \in 1..n, NEW k \in 1..n, j < k, m[j].run = m[k].run PROVE FALSE
    OBVIOUS
  <2>1. m[j] = m[k]
    BY <1>1, ReportsHaveRuns
  <2>2. TextOrder(m[j].start) \in Int
    BY <1>1, TextOrderIs
  <2> QED
    BY <1>1, <2>1, <2>2
<1>7. ASSUME NEW k \in 1..n
      PROVE  /\ H[k] = H[k - 1] \cup R[k] /\ H[k - 1] \cap R[k] = {}
             /\ Cardinality(R[k]) = Len(MatchingRows(m[k], q))
  <2>1. k \in 0..n /\ k - 1 \in 0..n
    BY <1>1
  <2>2. \A j \in 1..k : j \in 1..(k - 1) \/ j = k
    BY <1>1
  <2>3. \A j \in 1..(k - 1) : j \in 1..n /\ j < k /\ j \in 1..k
    BY <1>1
  <2>4. k \in 1..k
    BY <1>1
  <2>5. H[k] = H[k - 1] \cup R[k]
    BY <1>5, <2>1, <2>2, <2>3, <2>4
  <2>6. H[k - 1] \cap R[k] = {}
    BY <1>5, <1>6, <2>1, <2>3
  <2> DEFINE inMemory == MatchingRows(m[k], q)
             inFile   == Picked(T, {i \in hits : T[i].run = m[k].run})
  <2>7. [l \in DOMAIN inFile |-> SqlRowToDict(inFile[l], q.metadata)]
          = [l \in DOMAIN inMemory |-> AsStored(inMemory[l])]
    <3>1. m[k] \in Reports /\ Persisted(m[k].run) /\ ForModel(m[k], q)
      BY <1>1
    <3> QED
      BY <3>1, SameRows DEF T, hits
  <2>8. DOMAIN inFile = 1..Cardinality(R[k])
    BY DEF Picked
  <2>9. Cardinality(R[k]) \in Nat
    BY <1>3, FS_Subset, FS_CardinalityType
  <2>10. PICK S : inMemory \in Seq(S)
    BY <1>1, ListsOfRows
  <2> HIDE DEF inFile, inMemory, R
  <2>11. DOMAIN inFile = DOMAIN inMemory
    BY <2>7
  <2>12. Cardinality(R[k]) = Len(inMemory)
    BY <2>8, <2>9, <2>10, <2>11
  <2> QED
    BY <2>5, <2>6, <2>12 DEF inMemory
<1>8. \A k \in 0..n : H[k] \subseteq hits /\ IsFiniteSet(H[k])
  BY <1>3, <1>5, FS_Subset
<1>9. 0 \in G
  <2>1. H[0] = {} /\ 0 \in 0..n
    BY <1>1, <1>5
  <2> QED
    BY <1>2, <2>1, FS_EmptySet
<1>10. ASSUME NEW k \in 0..n, k # 0, k - 1 \in G PROVE k \in G
  <2>1. k \in 1..n /\ k - 1 \in 0..n
    BY <1>1, <1>10
  <2> DEFINE A == H[k - 1]
             B == R[k]
  <2>2. /\ H[k] = A \cup B /\ A \cap B = {} /\ Cardinality(A) = a[k - 1]
        /\ IsFiniteSet(A) /\ a[k] = a[k - 1] + Cardinality(B) /\ a[k - 1] \in Nat
    <3>1. H[k] = A \cup B /\ A \cap B = {} /\ Cardinality(B) = Len(MatchingRows(m[k], q))
      BY <1>7, <2>1
    <3>2. Cardinality(A) = a[k - 1] /\ IsFiniteSet(A)
      BY <1>8, <1>10, <2>1
    <3>3. a[k] = a[k - 1] + Len(MatchingRows(m[k], q)) /\ a[k - 1] \in Nat
      BY <1>2, <2>1
    <3> HIDE DEF A, B, R
    <3> QED
      BY <3>1, <3>2, <3>3
  <2>3. B \subseteq hits
    BY <2>1
  <2> HIDE DEF A, B, R
  <2>4. IsFiniteSet(B) /\ Cardinality(B) \in Nat
    BY <1>3, <2>3, FS_Subset, FS_CardinalityType
  <2>5. Cardinality(A \cup B) = Cardinality(A) + Cardinality(B) - Cardinality(A \cap B)
    BY <2>2, <2>4, FS_Union
  <2>6. Cardinality(A \cap B) = 0
    BY <2>2, FS_EmptySet
  <2>7. Cardinality(H[k]) = Cardinality(A \cup B)
    BY <2>2
  <2>8. Cardinality(H[k]) = a[k]
    BY <2>2, <2>4, <2>5, <2>6, <2>7
  <2> QED
    BY <2>8
<1> HIDE DEF G
<1>11. 0..n \subseteq G
  BY <1>1, <1>9, <1>10, Upwards
<1>12. \A k \in 0..n : Cardinality(H[k]) = a[k]
  BY <1>11 DEF G
<1>13. \A k \in 1..n : H[k - 1] \subseteq H[k] /\ H[k] \ H[k - 1] = R[k]
  <2> HIDE DEF R
  <2> QED
    BY <1>7
<1> QED
  BY <1>3, <1>8, <1>12, <1>13 DEF m, n, a, H, T, hits

(* LIMIT keeps rows of the first k reports only, or all of theirs.            *)
LEMMA LimitKeepsFirst ==
  ASSUME FileInv, TypeOK, WrittenAlike, NEW q, NEW ids \in SqliteHistories(q),
         NEW k \in 0..Len(Mine(q))
  PROVE  ids \subseteq HitsUpto(q)[k] \/ HitsUpto(q)[k] \subseteq ids
<1> DEFINE n == Len(Mine(q))
           m == Mine(q)
           H == HitsUpto(q)
           T == tables.results
           hits == Matching(q)
<1> SUFFICES ASSUME NEW i \in ids, i \notin H[k], NEW o \in H[k], o \notin ids PROVE FALSE
  OBVIOUS
<1>1. /\ n \in Nat /\ \A j \in 1..n : m[j] \in Reports /\ m[j] \in ToSet(reports)
      /\ \A r \in ToSet(reports) : ForModel(r, q) => \E j \in 1..n : m[j] = r
      /\ \A j, l \in 1..n : j < l => TextOrder(m[l].start) < TextOrder(m[j].start)
  BY MineIs
<1>2. \A x : x \in H[k] <=> x \in hits /\ \E j \in 1..k : T[x].run = m[j].run
  BY DEF HitsUpto
<1>3. /\ ids \subseteq hits
      /\ \A x \in ids, y \in hits \ ids : TextOrder(T[x].start) >= TextOrder(T[y].start)
  BY DEF SqliteHistories, kSubset
<1>4. \A x \in hits : x \in DOMAIN T /\ ForModel(T[x], q)
  BY DEF Matching
<1>5. \A x \in DOMAIN T : \E r \in Reports :
        /\ Persisted(r.run) /\ T[x].run = r.run /\ T[x].start = r.start
        /\ ForModel(T[x], q) <=> ForModel(r, q)
  BY RowOfFile
<1>6. \A r \in ToSet(reports), row \in ToSet(tables.runs) :
        row.run \notin {s.run : s \in ToSet(reports)} =>
          TextOrder(row.start) < TextOrder(r.start)
  BY DEF WrittenAlike, ToSet
<1> HIDE DEF n, m, H, T, hits
<1>7. i \in hits /\ o \in hits
  BY <1>2, <1>3
<1>8. PICK r \in Reports : /\ Persisted(r.run) /\ T[i].run = r.run /\ T[i].start = r.start
                           /\ ForModel(r, q)
  BY <1>4, <1>5, <1>7
<1>9. PICK j \in 1..k : T[o].run = m[j].run
  BY <1>2
<1>10. j \in 1..n /\ m[j] \in Reports /\ m[j] \in ToSet(reports)
  BY <1>1 DEF n
<1>11. T[o].start = m[j].start
  <2>1. PICK s \in Reports : T[o].run = s.run /\ T[o].start = s.start
    BY <1>4, <1>5, <1>7
  <2> QED
    BY <1>9, <1>10, <2>1, ReportsHaveRuns
<1>12. TextOrder(r.start) < TextOrder(m[j].start)
  <2>1. CASE r \in ToSet(reports)
    <3>1. PICK l \in 1..n : m[l] = r
      BY <1>1, <1>8, <2>1
    <3>2. ~(l \in 1..k)
      BY <1>2, <1>7, <1>8, <3>1
    <3>3. j < l
      BY <1>1, <3>2 DEF n
    <3> QED
      BY <1>1, <1>10, <3>1, <3>3
  <2>2. CASE r \notin ToSet(reports)
    <3>1. \A s \in ToSet(reports) : s \in Reports
      BY DEF TypeOK, ToSet
    <3>2. r.run \notin {s.run : s \in ToSet(reports)}
      BY <2>2, <3>1, ReportsHaveRuns
    <3>3. PICK row \in ToSet(tables.runs) : row.run = r.run
      BY <1>8 DEF Persisted, ToSet
    <3>4. row = HeadRow(r)
      <4>1. PICK s \in Reports : row = HeadRow(s)
        BY DEF FileInv
      <4>2. s.run = r.run
        BY <3>3, <4>1 DEF HeadRow
      <4> QED
        BY <4>1, <4>2, ReportsHaveRuns
    <3>5. row.start = r.start
      BY <3>4 DEF HeadRow
    <3> QED
      BY <1>6, <1>10, <3>2, <3>3, <3>5
  <2> QED
    BY <2>1, <2>2
<1>13. TextOrder(r.start) >= TextOrder(m[j].start)
  BY <1>3, <1>7, <1>8, <1>11
<1>14. TextOrder(r.start) \in Int /\ TextOrder(m[j].start) \in Int
  BY <1>10, TextOrderIs
<1> QED
  BY <1>12, <1>13, <1>14

(* As many rows of each report, whichever store is asked and whichever rows   *)
(* of one period SQLite takes first.                                           *)
THEOREM LimitsTakeTheSame == Spec => []LimitsAgree
<1>1. FileInv /\ TypeOK => LimitsAgree
  <2> DEFINE T == tables.results
  <2> SUFFICES ASSUME FileInv, TypeOK, WrittenAlike, NEW q \in Queries,
                      q.limit # None, q.limit > 0, Len(MemoryHistory(q)) = q.limit,
                      NEW ids \in SqliteHistories(q), NEW r \in Reports
               PROVE  Cardinality({i \in ids : T[i].run = r.run})
                        = Cardinality({i \in DOMAIN MemoryHistory(q) :
                                         MemoryHistory(q)[i].run = r.run})
    BY DEF LimitsAgree
  <2> DEFINE n    == Len(Mine(q))
             m    == Mine(q)
             a    == RowsUpto(q)
             H    == HitsUpto(q)
             all  == AllRows(q)
             rows == MemoryHistory(q)
             hits == Matching(q)
             L    == q.limit
  <2>1. /\ n \in Nat /\ a[0] = 0 /\ Len(all) = a[n] /\ DOMAIN all = 1..a[n]
        /\ \A k \in 0..n : a[k] \in Nat /\ a[k] <= a[n]
        /\ \A k \in 1..n : \A i \in 1..a[n] :
             all[i].run = m[k].run <=> i \in (a[k - 1] + 1)..a[k]
        /\ \A i \in 1..a[n] : \E k \in 1..n : all[i].run = m[k].run
    BY MemoryCounts
  <2>2. /\ IsFiniteSet(hits)
        /\ \A k \in 0..n : H[k] \subseteq hits /\ Cardinality(H[k]) = a[k]
        /\ \A k \in 1..n : /\ H[k - 1] \subseteq H[k]
                           /\ H[k] \ H[k - 1] = {i \in hits : T[i].run = m[k].run}
    BY FileCounts
  <2>3. \A k \in 0..n : ids \subseteq H[k] \/ H[k] \subseteq ids
    BY LimitKeepsFirst
  <2>4. /\ \A i : i \in H[n] <=> i \in hits /\ \E j \in 1..n : T[i].run = m[j].run
    BY <2>1 DEF HitsUpto
  <2>5. L \in Int /\ L > 0
    BY HistoryAssumption DEF HistoryAssumption
  <2>6. /\ L \in 1..a[n] /\ DOMAIN rows = 1..L
        /\ \A i \in 1..L : i \in 1..a[n] /\ rows[i] = all[i]
    <3>1. rows = IF L \in 1..Len(all) THEN SubSeq(all, 1, L) ELSE all
      BY DEF MemoryHistory
    <3>2. Len(rows) = L
      OBVIOUS
    <3>3. n \in 0..n /\ a[n] \in Nat
      BY <2>1
    <3> HIDE DEF n, a, all, rows, L
    <3>4. L \in 1..a[n]
      BY <2>1, <2>5, <3>1, <3>2, <3>3
    <3>5. rows = SubSeq(all, 1, L)
      BY <2>1, <3>1, <3>4
    <3>6. rows = [i \in 1..L |-> all[i]]
      BY <2>1, <2>5, <3>4, <3>5
    <3>7. \A i \in 1..L : i \in 1..a[n]
      BY <2>5, <3>3, <3>4
    <3> QED
      BY <3>4, <3>6, <3>7
  <2>7. ids \subseteq hits /\ Cardinality(ids) = L
    <3>1. n \in 0..n /\ a[n] \in Nat
      BY <2>1
    <3>2. Cardinality(H[n]) = a[n] /\ H[n] \subseteq hits
      BY <2>2, <3>1
    <3>3. a[n] <= Cardinality(hits) /\ Cardinality(hits) \in Nat
      BY <2>2, <3>2, FS_Subset, FS_CardinalityType
    <3>4. L \in 0..Cardinality(hits)
      BY <2>6, <3>1, <3>3
    <3> HIDE DEF hits
    <3> QED
      BY <3>4 DEF SqliteHistories, kSubset, hits
  <2> HIDE DEF n, m, a, H, all, rows, hits, L, T
  <2>8. Cut(n, a, hits, H, ids, L)
    <3>1. IsFiniteSet(hits) /\ ids \subseteq hits /\ L \in Nat /\ Cardinality(ids) = L
      BY <2>2, <2>5, <2>7
    <3>2. \A k \in 0..n : /\ a[k] \in Nat /\ H[k] \subseteq hits /\ Cardinality(H[k]) = a[k]
                          /\ ids \subseteq H[k] \/ H[k] \subseteq ids
      BY <2>1, <2>2, <2>3
    <3>3. \A k \in 1..n : H[k - 1] \subseteq H[k]
      BY <2>2
    <3> QED
      BY <3>1, <3>2, <3>3 DEF Cut
  <2>9. ids \subseteq H[n]
    <3>1. n \in 0..n /\ IsFiniteSet(ids)
      BY <2>1, <2>2, <2>7, FS_Subset
    <3>2. CASE H[n] \subseteq ids
      <4>1. Cardinality(H[n]) <= Cardinality(ids) /\ (Cardinality(H[n]) = Cardinality(ids) => H[n] = ids)
        BY <3>1, <3>2, FS_Subset
      <4>2. Cardinality(H[n]) = a[n] /\ L <= a[n] /\ a[n] \in Nat
        BY <2>1, <2>2, <2>6, <3>1
      <4> QED
        BY <2>5, <2>7, <4>1, <4>2
    <3> QED
      BY <2>3, <3>1, <3>2
  <2>10. CASE \E k \in 1..n : m[k].run = r.run
    <3>1. PICK k \in 1..n : m[k].run = r.run
      BY <2>10
    <3>2. {i \in ids : T[i].run = r.run} = ids \cap (H[k] \ H[k - 1])
      BY <2>2, <2>7, <3>1
    <3>3. {i \in DOMAIN rows : rows[i].run = r.run} = (1..L) \cap ((a[k - 1] + 1)..a[k])
      <4>1. \A i \in 1..L : rows[i].run = r.run <=> i \in (a[k - 1] + 1)..a[k]
        BY <2>1, <2>6, <3>1
      <4> QED
        BY <2>6, <4>1
    <3>4. Cardinality(ids \cap (H[k] \ H[k - 1])) = Cardinality((1..L) \cap ((a[k - 1] + 1)..a[k]))
      BY <2>1, <2>8, CutTakesTheSame
    <3> QED
      BY <3>2, <3>3, <3>4 DEF T, rows
  <2>11. CASE \A k \in 1..n : m[k].run # r.run
    <3>1. {i \in ids : T[i].run = r.run} = {}
      BY <2>4, <2>9, <2>11
    <3>2. {i \in DOMAIN rows : rows[i].run = r.run} = {}
      BY <2>1, <2>6, <2>11
    <3> QED
      BY <3>1, <3>2 DEF T, rows
  <2> QED
    BY <2>10, <2>11 DEF T, rows
<1> QED
  BY <1>1, FileInvariance, TypeInvariance, PTL

----------------------------------------------------------------------------
(* The page of a history. *)

Times(page) == {x.at : x \in ToSet(page)}
DistinctTimes(page) == IsInjective([i \in DOMAIN page |-> page[i].at])

(* Reports of distinct instants are sorted by them: the k-th has the k-th     *)
(* instant.                                                                    *)
LEMMA ByTimeSorts ==
  ASSUME NEW page \in Seq(Reports), DistinctTimes(page)
  PROVE  /\ Times(page) \subseteq Int /\ IsFiniteSet(Times(page))
         /\ DOMAIN ByTime(page) = 1..Cardinality(Times(page))
         /\ ByTime(page) = [k \in DOMAIN ByTime(page) |-> ByTime(page)[k]]
         /\ \A k \in 1..Cardinality(Times(page)) :
              ByTime(page)[k] \in ToSet(page) /\ ByTime(page)[k].at = InOrder(Times(page))[k]
<1> DEFINE D == DOMAIN page
           P == Times(page)
           f == [i \in D |-> page[i].at]
<1>1. D = 1..Len(page) /\ Len(page) \in Nat /\ \A i \in D : page[i] \in Reports
  OBVIOUS
<1>2. \A i \in D : f[i] \in Int /\ f[i] \in P
  BY <1>1, HistoryAssumption DEF HistoryAssumption, IsReport, Times, ToSet
<1>3. \A x \in P : \E i \in D : f[i] = x
  BY DEF Times, ToSet
<1>4. \A i, j \in D : f[i] = f[j] => i = j
  BY DEF DistinctTimes, IsInjective
<1>5. P \subseteq Int
  BY <1>2, <1>3
<1>6. f \in Bijection(D, P)
  BY <1>2, <1>3, <1>4, Fun_IsBij
<1>7. IsFiniteSet(D) /\ Cardinality(D) = Len(page)
  <2>1. IsFiniteSet(1..Len(page)) /\ Cardinality(1..Len(page)) = IF 1 > Len(page) THEN 0 ELSE Len(page) - 1 + 1
    BY <1>1, FS_Interval
  <2> QED
    BY <1>1, <2>1
<1>8. IsFiniteSet(P) /\ Cardinality(P) = Len(page)
  <2>1. ExistsBijection(D, P)
    BY <1>6 DEF ExistsBijection
  <2> QED
    BY <1>7, <2>1, FS_Bijection
<1>9. ASSUME NEW i \in D PROVE Cardinality(NotAfter(page, i)) = Rank(P, f[i])
  <2> DEFINE N == NotAfter(page, i)
             U == {x \in P : x <= f[i]}
             g == [j \in N |-> f[j]]
  <2>1. \A j \in D : j \in N <=> f[j] <= f[i]
    <3>1. \A j \in D : page[j].at = f[j] /\ page[i].at = f[i]
      OBVIOUS
    <3>2. \A j \in D : j \in N <=> (f[j] < f[i] \/ (f[j] = f[i] /\ j <= i))
      BY <3>1 DEF NotAfter
    <3> HIDE DEF N, f
    <3>3. i <= i
      BY <1>1
    <3> QED
      BY <1>2, <1>4, <3>2, <3>3
  <2>2. N \subseteq D
    BY DEF NotAfter
  <2> HIDE DEF N, f, P, D
  <2>3. \A j \in N : g[j] \in U
    BY <1>2, <2>1, <2>2
  <2>4. \A x \in U : \E j \in N : g[j] = x
    BY <1>3, <2>1
  <2>5. \A j, k \in N : g[j] = g[k] => j = k
    BY <1>4, <2>2
  <2> HIDE DEF U
  <2>6. g \in Bijection(N, U)
    BY <2>3, <2>4, <2>5, Fun_IsBij
  <2>7. ExistsBijection(N, U)
    BY <2>6 DEF ExistsBijection
  <2>8. IsFiniteSet(N)
    BY <1>7, <2>2, FS_Subset
  <2>9. Cardinality(N) = Cardinality(U)
    BY <2>7, <2>8, FS_Bijection
  <2> QED
    BY <2>9 DEF Rank, N, U
<1>10. /\ \A k \in 1..Len(page) : InOrder(P)[k] \in P /\ Rank(P, InOrder(P)[k]) = k
       /\ \A x \in P : \E k \in 1..Len(page) : InOrder(P)[k] = x
  BY <1>5, <1>8, InOrderProperties
<1>11. ASSUME NEW k \in D
       PROVE  ByTime(page)[k] \in ToSet(page) /\ ByTime(page)[k].at = InOrder(P)[k]
  <2> DEFINE c == CHOOSE i \in D : Cardinality(NotAfter(page, i)) = k
  <2>1. PICK i \in D : f[i] = InOrder(P)[k]
    BY <1>1, <1>3, <1>10
  <2>2. Cardinality(NotAfter(page, i)) = k
    BY <1>1, <1>9, <1>10, <2>1
  <2>3. c \in D /\ Cardinality(NotAfter(page, c)) = k
    BY <2>2
  <2>4. ByTime(page)[k] = page[c]
    BY DEF ByTime
  <2> HIDE DEF c, P
  <2>5. PICK j \in 1..Len(page) : InOrder(P)[j] = f[c]
    BY <1>2, <1>10, <2>3
  <2>6. j = k
    BY <1>9, <1>10, <2>3, <2>5
  <2> QED
    BY <2>3, <2>4, <2>5, <2>6 DEF ToSet
<1>12. DOMAIN ByTime(page) = D /\ ByTime(page) = [k \in D |-> ByTime(page)[k]]
  BY DEF ByTime
<1>13. D = 1..Cardinality(P)
  BY <1>1, <1>8
<1> HIDE DEF D, P
<1> QED
  BY <1>5, <1>8, <1>11, <1>12, <1>13 DEF P

(* The reports in another order have the same page. *)
THEOREM PagesAreOrderFree == Spec => []PageIsOrderFree
<1>1. TypeOK => PageIsOrderFree
  <2> SUFFICES ASSUME TypeOK, DistinctTimes(reports), NEW page \in SetToSeqs(ToSet(reports))
               PROVE  RenderHistory(page) = RenderHistory(reports)
    BY DEF PageIsOrderFree, DistinctTimes
  <2> DEFINE S == ToSet(reports)
             n == Cardinality(S)
             T == Times(reports)
  <2>1. reports \in Seq(Reports) /\ S \subseteq Reports
    BY DEF TypeOK, ToSet
  <2>2. IsFiniteSet(S) /\ n \in Nat
    <3>1. IsFiniteSet(1..Len(reports)) /\ DOMAIN reports = 1..Len(reports)
      BY <2>1, FS_Interval
    <3>2. reports \in Surjection(1..Len(reports), S)
      BY <2>1, <3>1, Fun_IsSurj DEF ToSet
    <3> QED
      BY <3>1, <3>2, FS_Surjection, FS_CardinalityType
  <2>3. page \in [1..n -> S] /\ \A i, j \in 1..n : page[i] = page[j] => i = j
    BY DEF SetToSeqs
  <2>4. \A x, y \in S : x.at = y.at => x = y
    BY DEF DistinctTimes, IsInjective, ToSet
  <2> HIDE DEF S, n
  <2>5. page \in Seq(Reports) /\ DOMAIN page = 1..n
    BY <2>1, <2>2, <2>3
  <2>6. ToSet(page) = S
    <3>1. page \in Injection(1..n, S)
      BY <2>3, Fun_IsInj
    <3>2. IsFiniteSet(1..n) /\ Cardinality(1..n) = n
      BY <2>2, FS_Interval
    <3>3. page \in Surjection(1..n, S)
      BY <2>2, <3>1, <3>2, FS_Injection DEF n
    <3>4. \A x \in S : \E k \in 1..n : page[k] = x
      BY <3>3 DEF Surjection
    <3> QED
      BY <2>3, <2>5, <3>4 DEF ToSet
  <2>7. DistinctTimes(page)
    BY <2>3, <2>4, <2>5 DEF DistinctTimes, IsInjective
  <2>8. Times(page) = T
    BY <2>6 DEF Times, S
  <2> HIDE DEF T
  <2>9. /\ DOMAIN ByTime(page) = 1..Cardinality(T) /\ DOMAIN ByTime(reports) = 1..Cardinality(T)
        /\ ByTime(page) = [k \in DOMAIN ByTime(page) |-> ByTime(page)[k]]
        /\ ByTime(reports) = [k \in DOMAIN ByTime(reports) |-> ByTime(reports)[k]]
        /\ \A k \in 1..Cardinality(T) :
             /\ ByTime(page)[k] \in S /\ ByTime(page)[k].at = InOrder(T)[k]
             /\ ByTime(reports)[k] \in S /\ ByTime(reports)[k].at = InOrder(T)[k]
    BY <2>1, <2>5, <2>6, <2>7, <2>8, ByTimeSorts DEF S, T
  <2>10. ByTime(page) = ByTime(reports)
    <3> DEFINE a == ByTime(page)
               b == ByTime(reports)
    <3>1. \A k \in 1..Cardinality(T) : a[k] = b[k]
      BY <2>4, <2>9
    <3>2. /\ DOMAIN a = 1..Cardinality(T) /\ DOMAIN b = 1..Cardinality(T)
          /\ a = [k \in DOMAIN a |-> a[k]] /\ b = [k \in DOMAIN b |-> b[k]]
      BY <2>9
    <3> HIDE DEF a, b
    <3>3. a = b
      BY <3>1, <3>2
    <3> QED
      BY <3>3 DEF a, b
  <2> QED
    BY <2>10 DEF RenderHistory
<1> QED
  BY <1>1, TypeInvariance, PTL

----------------------------------------------------------------------------
(* The charts and the table of a page. *)

(* The first and the last of what is picked. *)
LEMMA PickedEnds ==
  ASSUME NEW S, NEW q \in Seq(S), NEW P, P \subseteq DOMAIN q, P # {}
  PROVE  /\ \E z \in P : (\A i \in P : i <= z) /\ Last(Picked(q, P)) = q[z]
         /\ \E h \in P : (\A i \in P : h <= i) /\ Head(Picked(q, P)) = q[h]
         /\ DOMAIN Picked(q, P) = 1..Len(Picked(q, P)) /\ Len(Picked(q, P)) \in Nat \ {0}
<1> DEFINE p == Picked(q, P)
           n == Len(p)
           f == InOrder(P)
<1>1. /\ p \in Seq(S) /\ n \in Nat /\ DOMAIN p = 1..n
      /\ \A k \in 1..n : f[k] \in P /\ p[k] = q[f[k]]
      /\ \A i, j \in 1..n : i < j => f[i] < f[j]
  <2>1. p \in Seq(S) /\ n \in Nat /\ DOMAIN p = 1..n
    BY PickFacts
  <2>2. \A k \in DOMAIN p : f[k] \in P /\ p[k] = q[f[k]]
    BY PickFacts
  <2>3. \A i, j \in DOMAIN p : i < j => f[i] < f[j]
    BY PickFacts
  <2> HIDE DEF p, n, f
  <2> QED
    BY <2>1, <2>2, <2>3
<1>2. \A i \in P : \E k \in 1..n : f[k] = i
  BY PickedGoes DEF GoesThrough
<1>3. \A i \in P : i \in Int
  OBVIOUS
<1> HIDE DEF p, n, f
<1>4. n # 0
  BY <1>1, <1>2
<1>5. \A i \in P : i <= f[n]
  <2> SUFFICES ASSUME NEW i \in P PROVE i <= f[n]
    OBVIOUS
  <2>1. PICK k \in 1..n : f[k] = i
    BY <1>2
  <2>2. f[n] \in Int /\ (k = n \/ k < n)
    BY <1>1, <1>3, <1>4
  <2> QED
    BY <1>1, <1>3, <1>4, <2>1, <2>2
<1>6. \A i \in P : f[1] <= i
  <2> SUFFICES ASSUME NEW i \in P PROVE f[1] <= i
    OBVIOUS
  <2>1. PICK k \in 1..n : f[k] = i
    BY <1>2
  <2>2. f[1] \in Int /\ (k = 1 \/ 1 < k)
    BY <1>1, <1>3, <1>4
  <2> QED
    BY <1>1, <1>3, <1>4, <2>1, <2>2
<1>7. Last(p) = q[f[n]] /\ f[n] \in P /\ Head(p) = q[f[1]] /\ f[1] \in P
  <2>1. Last(p) = p[n] /\ Head(p) = p[1]
    BY <1>1, <1>4 DEF Last, n
  <2> QED
    BY <1>1, <1>4, <2>1
<1> QED
  BY <1>1, <1>4, <1>5, <1>6, <1>7 DEF p, n

(* An entry ends in the last result of its key, and has the threshold of the   *)
(* first.                                                                        *)
LEMMA EntryEnds ==
  ASSUME NEW S, NEW m \in Seq(S), NEW k,
         NEW x \in DOMAIN m, KeyOf(m[x].result) = k
  PROVE  \E z, h \in DOMAIN m :
           /\ KeyOf(m[z].result) = k /\ KeyOf(m[h].result) = k
           /\ \A i \in DOMAIN m : KeyOf(m[i].result) = k => h <= i /\ i <= z
           /\ Entry(m, k).latest = m[z].result
           /\ Entry(m, k).threshold = Scalar(m[h].result.spec.threshold)
           /\ IsNumber(m[z].result.value) =>
                Last(Entry(m, k).points) = <<m[z].at, m[z].result.value>>
<1> DEFINE P == {i \in DOMAIN m : KeyOf(m[i].result) = k}
           N == {i \in P : IsNumber(m[i].result.value)}
           points == Picked(m, N)
<1>1. P \subseteq DOMAIN m /\ N \subseteq DOMAIN m /\ P # {} /\ DOMAIN m \subseteq Int
  OBVIOUS
<1>2. /\ Entry(m, k).latest = Last(Picked(m, P)).result
      /\ Entry(m, k).threshold = Scalar(Head(Picked(m, P)).result.spec.threshold)
      /\ Entry(m, k).points = [i \in DOMAIN points |-> <<points[i].at, points[i].result.value>>]
  BY DEF Entry, Latest
<1> HIDE DEF P, N
<1>3. PICK z \in P : (\A i \in P : i <= z) /\ Last(Picked(m, P)) = m[z]
  BY <1>1, PickedEnds
<1>4. PICK h \in P : (\A i \in P : h <= i) /\ Head(Picked(m, P)) = m[h]
  BY <1>1, PickedEnds
<1>5. ASSUME IsNumber(m[z].result.value)
      PROVE  Last(Entry(m, k).points) = <<m[z].at, m[z].result.value>>
  <2>1. z \in N /\ N # {} /\ N \subseteq P
    BY <1>3, <1>5 DEF N
  <2>2. PICK y \in N : (\A i \in N : i <= y) /\ Last(points) = m[y]
    BY <1>1, <2>1, PickedEnds
  <2>3. y = z
    BY <1>1, <1>3, <2>1, <2>2
  <2>4. DOMAIN points = 1..Len(points) /\ Len(points) \in Nat \ {0}
    BY <1>1, <2>1, PickedEnds
  <2> HIDE DEF points
  <2> DEFINE c == [i \in 1..Len(points) |-> <<points[i].at, points[i].result.value>>]
  <2>5. Entry(m, k).points = c
    BY <1>2, <2>4
  <2>6. Len(c) = Len(points)
    BY <2>4
  <2>7. Last(c) = <<points[Len(points)].at, points[Len(points)].result.value>>
    BY <2>4, <2>6 DEF Last
  <2> QED
    BY <2>2, <2>3, <2>5, <2>7 DEF Last
<1>6. /\ \A i \in DOMAIN m : KeyOf(m[i].result) = k <=> i \in P
      /\ z \in DOMAIN m /\ h \in DOMAIN m
  BY <1>1 DEF P
<1> QED
  BY <1>2, <1>3, <1>4, <1>5, <1>6

(* The results of reports in the order of time are in the order of time, and *)
(* none is left out.                                                          *)
LEMMA MeasuredInOrder ==
  ASSUME NEW page, IsList(page), \A n \in DOMAIN page : IsList(page[n].results),
         \A i, j \in DOMAIN page : i <= j => page[i].at <= page[j].at,
         \A n \in DOMAIN page : page[n].at \in Int
  PROVE  LET m == Measured(page)
             From(e, n) == \E i \in DOMAIN page[n].results :
                             e = [at |-> page[n].at, result |-> page[n].results[i]]
         IN /\ \E S : m \in Seq(S)
            /\ \A x \in DOMAIN m : \E n \in DOMAIN page : From(m[x], n)
            /\ \A n \in DOMAIN page : \A i \in DOMAIN page[n].results :
                 \E x \in DOMAIN m : m[x] = [at |-> page[n].at, result |-> page[n].results[i]]
            /\ \A x, y \in DOMAIN m : x <= y => m[x].at <= m[y].at
<1> DEFINE of(n, i) == [at |-> page[n].at, result |-> page[n].results[i]]
           qs == [n \in DOMAIN page |-> [i \in DOMAIN page[n].results |-> of(n, i)]]
           N  == Len(qs)
           S  == UNION {{of(n, i) : i \in DOMAIN page[n].results} : n \in DOMAIN page}
           m  == Measured(page)
           J  == Joined(qs)
           a  == [k \in 0..N |-> Len(J[k])]
<1>1. /\ DOMAIN page = 1..Len(page) /\ Len(page) \in Nat
      /\ \A n \in DOMAIN page : \E l \in Nat : DOMAIN page[n].results = 1..l
  BY DEF IsList
<1>2. \A n \in DOMAIN page : qs[n] \in Seq(S) /\ DOMAIN qs[n] = DOMAIN page[n].results
  <2> SUFFICES ASSUME NEW n \in DOMAIN page
               PROVE  qs[n] \in Seq(S) /\ DOMAIN qs[n] = DOMAIN page[n].results
    OBVIOUS
  <2>1. PICK l \in Nat : DOMAIN page[n].results = 1..l
    BY <1>1
  <2>2. \A i \in 1..l : of(n, i) \in S
    BY <2>1
  <2>3. qs[n] = [i \in 1..l |-> of(n, i)]
    BY <2>1
  <2> HIDE DEF qs, S, of
  <2> QED
    BY <2>1, <2>2, <2>3
<1>3. N = Len(page) /\ DOMAIN qs = 1..N /\ N \in Nat /\ qs \in Seq(Seq(S))
  BY <1>1, <1>2
<1>4. m = Concat(qs)
  <2>1. m = FlattenSeq(qs)
    BY DEF Measured
  <2> HIDE DEF qs, S, m
  <2> QED
    BY <1>3, <2>1, FlattenIsConcat
<1>5. \A n \in 1..N : \A i \in DOMAIN qs[n] : qs[n][i] = of(n, i)
  BY <1>3
<1> HIDE DEF qs, S, m
<1>6. /\ \A k \in 0..N : J[k] \in Seq(S) /\ a[k] \in Nat /\ a[k] <= Len(m)
      /\ \A k \in 1..N : a[k] = a[k - 1] + Len(qs[k])
      /\ \A k \in 0..N :
           /\ \A i \in 1..a[k] : ComesFrom(m[i], qs, 1, k)
           /\ \A i \in (a[k] + 1)..Len(m) : ComesFrom(m[i], qs, k + 1, N)
  <2>1. Len(qs) \in Nat /\ \A k \in 1..Len(qs) : qs[k] \in Seq(S)
    BY <1>3
  <2>2. /\ \A k \in 0..N : J[k] \in Seq(S) /\ Len(J[k]) \in Nat /\ Len(J[k]) <= Len(m)
        /\ \A k \in 1..N : Len(J[k]) = Len(J[k - 1]) + Len(qs[k])
        /\ \A k \in 0..N :
             /\ \A i \in 1..Len(J[k]) : ComesFrom(m[i], qs, 1, k)
             /\ \A i \in (Len(J[k]) + 1)..Len(m) : ComesFrom(m[i], qs, k + 1, N)
    BY <1>4, <2>1, JoinedFacts
  <2>3. \A k \in 0..N : a[k] = Len(J[k])
    OBVIOUS
  <2>4. \A k \in 1..N : k - 1 \in 0..N /\ k \in 0..N
    BY <1>3
  <2> HIDE DEF J, a, N
  <2> QED
    BY <2>2, <2>3, <2>4
<1>7. J[0] = <<>> /\ \A k \in 1..N : J[k] = Then(J[k - 1], qs[k])
  BY <1>3, JoinedIs
<1>8. m = J[N] /\ m \in Seq(S) /\ a[N] = Len(m) /\ a[0] = 0
      /\ DOMAIN m = 1..Len(m) /\ Len(m) \in Nat
  <2>1. m = J[N] /\ N \in 0..N /\ 0 \in 0..N
    BY <1>3, <1>4 DEF Concat
  <2>2. a[N] = Len(J[N]) /\ a[0] = Len(J[0])
    BY <2>1
  <2> HIDE DEF J, a, N
  <2>3. m \in Seq(S)
    BY <1>6, <2>1
  <2> QED
    BY <1>7, <2>1, <2>2, <2>3
<1>9. \A k \in 0..N : a[k] = Len(J[k])
  OBVIOUS
<1> HIDE DEF J, a, N
<1>10. \A x \in DOMAIN m : ComesFrom(m[x], qs, 1, N)
  BY <1>3, <1>6, <1>8
(* Every element of the first k sequences is in what they are joined to. *)
<1>11. \A n \in 1..N : \A i \in DOMAIN qs[n] : \E x \in DOMAIN m : m[x] = qs[n][i]
  <2> DEFINE Held(k) == \A n \in 1..k : \A i \in DOMAIN qs[n] :
                          \E x \in 1..a[k] : J[k][x] = qs[n][i]
             H == {k \in 0..N : Held(k)}
  <2>1. 0 \in H
    BY <1>3
  <2>2. ASSUME NEW k \in 0..N, k # 0, k - 1 \in H PROVE k \in H
    <3>1. k \in 1..N /\ k - 1 \in 0..N /\ k \in Int
      BY <1>3, <2>2
    <3>2. Held(k - 1)
      BY <2>2
    <3>3. J[k] = J[k - 1] \o qs[k]
      BY <1>7, <3>1 DEF Then
    <3>4. /\ J[k - 1] \in Seq(S) /\ qs[k] \in Seq(S)
          /\ a[k - 1] = Len(J[k - 1]) /\ a[k] = a[k - 1] + Len(qs[k]) /\ a[k - 1] \in Nat
      BY <1>3, <1>6, <1>9, <3>1
    <3>5. /\ \A x \in 1..a[k - 1] : J[k][x] = J[k - 1][x] /\ x \in 1..a[k]
          /\ \A i \in DOMAIN qs[k] : J[k][a[k - 1] + i] = qs[k][i] /\ a[k - 1] + i \in 1..a[k]
      <4> DEFINE u == J[k - 1]
                 v == qs[k]
      <4>1. /\ \A x \in 1..Len(u) : (u \o v)[x] = u[x] /\ x \in 1..(Len(u) + Len(v))
            /\ \A i \in DOMAIN v : /\ (u \o v)[Len(u) + i] = v[i]
                                   /\ Len(u) + i \in 1..(Len(u) + Len(v))
        <5> HIDE DEF u, v
        <5>1. u \in Seq(S) /\ v \in Seq(S)
          BY <3>4 DEF u, v
        <5> QED
          BY <5>1
      <4> QED
        BY <3>3, <3>4, <4>1
    <3>6. ASSUME NEW n \in 1..k, NEW i \in DOMAIN qs[n]
          PROVE  \E x \in 1..a[k] : J[k][x] = qs[n][i]
      <4>1. CASE n = k
        BY <3>5, <4>1
      <4>2. CASE n # k
        <5>1. n \in 1..(k - 1)
          BY <3>1, <4>2
        <5>2. PICK x \in 1..a[k - 1] : J[k - 1][x] = qs[n][i]
          BY <3>2, <5>1
        <5> QED
          BY <3>5, <5>2
      <4> QED
        BY <4>1, <4>2
    <3> QED
      BY <3>6
  <2> HIDE DEF H
  <2>3. N \in H
    <3>1. \A k \in 0..N : k # 0 /\ k - 1 \in H => k \in H
      BY <2>2
    <3>2. 0..N \subseteq H
      BY <1>3, <2>1, <3>1, Upwards
    <3> QED
      BY <1>3, <3>2
  <2>4. Held(N)
    BY <2>3 DEF H
  <2> QED
    BY <1>8, <2>4
<1>12. ASSUME NEW x \in DOMAIN m, NEW y \in DOMAIN m, x <= y
       PROVE  m[x].at <= m[y].at
  <2> DEFINE K == {k \in 0..N : y <= a[k]}
  <2>1. N \in K /\ K \subseteq Int /\ x \in Int /\ y \in Int /\ 1 <= x /\ 1 <= y /\ y <= Len(m)
    BY <1>3, <1>8
  <2>2. IsFiniteSet(K)
    <3>1. K \subseteq 0..N /\ IsFiniteSet(0..N)
      BY <1>3, FS_Interval
    <3> HIDE DEF K
    <3> QED
      BY <3>1, FS_Subset
  <2>3. PICK k \in K : \A i \in K : k <= i
    <3> HIDE DEF K
    <3> QED
      BY <2>1, <2>2, LeastAndGreatest
  <2>4. k \in 1..N /\ k - 1 \in 0..N /\ y <= a[k]
    BY <1>3, <1>8, <2>1, <2>3
  <2>5. ~(y <= a[k - 1])
    BY <1>3, <2>3, <2>4
  <2>6. a[k] \in Nat /\ a[k - 1] \in Nat
    BY <1>6, <2>4
  <2> HIDE DEF K
  <2>7. x \in 1..a[k] /\ y \in (a[k - 1] + 1)..Len(m)
    BY <1>12, <2>1, <2>4, <2>5, <2>6
  <2>8. ComesFrom(m[x], qs, 1, k) /\ ComesFrom(m[y], qs, (k - 1) + 1, N)
    BY <1>6, <2>4, <2>7
  <2>9. PICK s \in 1..k : \E i \in DOMAIN qs[s] : m[x] = qs[s][i]
    BY <2>8 DEF ComesFrom
  <2>10. PICK t \in k..N : \E i \in DOMAIN qs[t] : m[y] = qs[t][i]
    BY <2>4, <2>8 DEF ComesFrom
  <2>11. s \in 1..N /\ t \in 1..N /\ s <= t
    BY <1>3, <2>4, <2>9, <2>10
  <2>12. m[x].at = page[s].at /\ m[y].at = page[t].at
    <3>1. PICK i \in DOMAIN qs[s] : m[x] = qs[s][i]
      BY <2>9
    <3>2. PICK j \in DOMAIN qs[t] : m[y] = qs[t][j]
      BY <2>10
    <3>3. m[x] = of(s, i) /\ m[y] = of(t, j)
      BY <1>5, <2>11, <3>1, <3>2
    <3> QED
      BY <3>3
  <2> QED
    BY <1>1, <1>3, <2>11, <2>12
<1>13. ASSUME NEW x \in DOMAIN m
       PROVE  \E n \in DOMAIN page : \E i \in DOMAIN page[n].results :
                m[x] = [at |-> page[n].at, result |-> page[n].results[i]]
  <2>1. PICK n \in 1..N : \E i \in DOMAIN qs[n] : m[x] = qs[n][i]
    BY <1>10 DEF ComesFrom
  <2>2. PICK i \in DOMAIN qs[n] : m[x] = qs[n][i]
    BY <2>1
  <2>3. n \in DOMAIN page /\ i \in DOMAIN page[n].results
    BY <1>1, <1>2, <1>3
  <2> QED
    BY <1>5, <2>2, <2>3
<1>14. ASSUME NEW n \in DOMAIN page, NEW i \in DOMAIN page[n].results
       PROVE  \E x \in DOMAIN m : m[x] = [at |-> page[n].at, result |-> page[n].results[i]]
  <2>1. n \in 1..N /\ i \in DOMAIN qs[n]
    BY <1>1, <1>2, <1>3
  <2>2. PICK x \in DOMAIN m : m[x] = qs[n][i]
    BY <1>11, <2>1
  <2>3. m[x] = of(n, i)
    BY <1>5, <2>1, <2>2
  <2> QED
    BY <2>3
<1> QED
  BY <1>8, <1>12, <1>13, <1>14 DEF m

(* The reports of a page, sorted, are the reports in the order of time. *)
LEMMA SortedReports ==
  ASSUME TypeOK, DistinctTimes(reports)
  PROVE  LET sorted == ByTime(reports)
         IN /\ IsList(sorted) /\ \A n \in DOMAIN sorted : IsList(sorted[n].results)
            /\ \A n \in DOMAIN sorted : sorted[n].at \in Int
            /\ \A i, j \in DOMAIN sorted : i <= j => sorted[i].at <= sorted[j].at
            /\ \A n \in DOMAIN sorted : \E i \in DOMAIN reports : sorted[n] = reports[i]
            /\ \A i \in DOMAIN reports : \E n \in DOMAIN sorted : sorted[n] = reports[i]
<1> DEFINE sorted == ByTime(reports)
           T == Times(reports)
           c == Cardinality(T)
           f == InOrder(T)
<1>1. reports \in Seq(Reports) /\ \A x \in ToSet(reports) : x \in Reports
  BY DEF TypeOK, ToSet
<1>2. /\ T \subseteq Int /\ IsFiniteSet(T) /\ DOMAIN sorted = 1..c
      /\ sorted = [n \in DOMAIN sorted |-> sorted[n]]
      /\ \A n \in 1..c : sorted[n] \in ToSet(reports) /\ sorted[n].at = f[n]
  BY <1>1, ByTimeSorts
<1>3. \A i, j \in DOMAIN reports : reports[i].at = reports[j].at => i = j
  BY DEF DistinctTimes, IsInjective
<1>4. \A i \in DOMAIN reports : reports[i].at \in T
  BY DEF Times, ToSet
<1> HIDE DEF T, sorted
<1>5. /\ c \in Nat /\ \A i, j \in 1..c : i < j => f[i] < f[j]
      /\ \A i \in T : \E n \in 1..c : f[n] = i
      /\ \A n \in 1..c : f[n] \in Int
  BY <1>2, InOrderProperties
<1> HIDE DEF c, f
<1>6. \A n \in DOMAIN sorted : sorted[n] \in Reports
  BY <1>1, <1>2
<1>7. \A n \in DOMAIN sorted : IsList(sorted[n].results)
  BY <1>6, HistoryAssumption DEF HistoryAssumption, IsReport
<1>8. \A n \in DOMAIN sorted : sorted[n].at \in Int
  BY <1>2, <1>5
<1>9. \A i, j \in DOMAIN sorted : i <= j => sorted[i].at <= sorted[j].at
  <2> SUFFICES ASSUME NEW i \in 1..c, NEW j \in 1..c, i <= j
               PROVE  f[i] <= f[j]
    BY <1>2
  <2>1. i = j \/ i < j
    BY <1>5
  <2> QED
    BY <1>5, <2>1
<1>10. \A n \in DOMAIN sorted : \E i \in DOMAIN reports : sorted[n] = reports[i]
  BY <1>2 DEF ToSet
<1>11. \A i \in DOMAIN reports : \E n \in DOMAIN sorted : sorted[n] = reports[i]
  <2> SUFFICES ASSUME NEW i \in DOMAIN reports
               PROVE  \E n \in DOMAIN sorted : sorted[n] = reports[i]
    OBVIOUS
  <2>1. PICK n \in 1..c : f[n] = reports[i].at
    BY <1>4, <1>5
  <2>2. PICK j \in DOMAIN reports : sorted[n] = reports[j]
    BY <1>2, <1>10
  <2>3. reports[j].at = reports[i].at
    BY <1>2, <2>1, <2>2
  <2>4. j = i
    BY <1>3, <2>3
  <2> QED
    BY <1>2, <2>2, <2>4
<1>12. IsList(sorted)
  <2>1. sorted = [n \in 1..c |-> sorted[n]]
    BY <1>2
  <2>2. sorted \in Seq(Reports)
    BY <1>2, <1>5, <1>6, <2>1
  <2> QED
    BY <2>2, ListIs
<1> QED
  BY <1>7, <1>8, <1>9, <1>10, <1>11, <1>12 DEF sorted

(* The table's line and the chart of a metric end in one result, of the       *)
(* newest report that has the metric; the line has the threshold of that        *)
(* report, the chart that of the oldest one, whatever the plans say.             *)
THEOREM ChartsTellTheTable == Spec => []ChartsMatchTable
<1> DEFINE sorted  == ByTime(reports)
           m       == Measured(sorted)
           series  == RenderHistory(reports).series
           Have(k) == {i \in DOMAIN reports : \E x \in ToSet(reports[i].results) : KeyOf(x) = k}
<1>1. ASSUME TypeOK, DistinctTimes(reports), NEW k \in DOMAIN series
      PROVE  \E i, h \in Have(k) :
              /\ \A j \in Have(k) : reports[h].at <= reports[j].at /\ reports[j].at <= reports[i].at
              /\ series[k].latest \in ToSet(reports[i].results) /\ KeyOf(series[k].latest) = k
              /\ IsNumber(series[k].latest.value) =>
                   Last(series[k].points) = <<reports[i].at, series[k].latest.value>>
              /\ \E x \in ToSet(reports[h].results) :
                   KeyOf(x) = k /\ series[k].threshold = Scalar(x.spec.threshold)
  <2>1. /\ DOMAIN series = {KeyOf(m[i].result) : i \in DOMAIN m}
        /\ series = [l \in DOMAIN series |-> Entry(m, l)]
    BY DEF RenderHistory, Rendered
  <2>2. /\ IsList(sorted) /\ \A n \in DOMAIN sorted : IsList(sorted[n].results)
        /\ \A n \in DOMAIN sorted : sorted[n].at \in Int
        /\ \A i, j \in DOMAIN sorted : i <= j => sorted[i].at <= sorted[j].at
        /\ \A n \in DOMAIN sorted : \E i \in DOMAIN reports : sorted[n] = reports[i]
        /\ \A i \in DOMAIN reports : \E n \in DOMAIN sorted : sorted[n] = reports[i]
    BY <1>1, SortedReports
  <2> HIDE DEF sorted
  <2>3. /\ \E S : m \in Seq(S)
        /\ \A x \in DOMAIN m : \E n \in DOMAIN sorted : \E i \in DOMAIN sorted[n].results :
             m[x] = [at |-> sorted[n].at, result |-> sorted[n].results[i]]
        /\ \A n \in DOMAIN sorted : \A i \in DOMAIN sorted[n].results :
             \E x \in DOMAIN m : m[x] = [at |-> sorted[n].at, result |-> sorted[n].results[i]]
        /\ \A x, y \in DOMAIN m : x <= y => m[x].at <= m[y].at
    BY <2>2, MeasuredInOrder
  <2> HIDE DEF m, series
  <2>4. PICK S : m \in Seq(S)
    BY <2>3
  <2>5. PICK x \in DOMAIN m : KeyOf(m[x].result) = k
    BY <1>1, <2>1
  <2>6. series[k] = Entry(m, k)
    BY <1>1, <2>1
  <2>7. PICK z \in DOMAIN m, h \in DOMAIN m :
          /\ KeyOf(m[z].result) = k /\ KeyOf(m[h].result) = k
          /\ \A i \in DOMAIN m : KeyOf(m[i].result) = k => h <= i /\ i <= z
          /\ series[k].latest = m[z].result
          /\ series[k].threshold = Scalar(m[h].result.spec.threshold)
          /\ IsNumber(m[z].result.value) =>
               Last(series[k].points) = <<m[z].at, m[z].result.value>>
    <3> DEFINE e == Entry(m, k)
    <3>1. \E z, h \in DOMAIN m :
            /\ KeyOf(m[z].result) = k /\ KeyOf(m[h].result) = k
            /\ \A i \in DOMAIN m : KeyOf(m[i].result) = k => h <= i /\ i <= z
            /\ e.latest = m[z].result
            /\ e.threshold = Scalar(m[h].result.spec.threshold)
            /\ IsNumber(m[z].result.value) => Last(e.points) = <<m[z].at, m[z].result.value>>
      BY <2>4, <2>5, EntryEnds
    <3>2. series[k] = e
      BY <2>6
    <3> HIDE DEF e
    <3> QED
      BY <3>1, <3>2
  (* Where a result of the page comes from. *)
  <2>8. ASSUME NEW y \in DOMAIN m, KeyOf(m[y].result) = k
        PROVE  \E i \in Have(k) :
                 m[y].at = reports[i].at /\ m[y].result \in ToSet(reports[i].results)
    <3>1. PICK n \in DOMAIN sorted : \E i \in DOMAIN sorted[n].results :
            m[y] = [at |-> sorted[n].at, result |-> sorted[n].results[i]]
      BY <2>3
    <3>2. PICK i \in DOMAIN sorted[n].results :
            m[y] = [at |-> sorted[n].at, result |-> sorted[n].results[i]]
      BY <3>1
    <3>3. PICK j \in DOMAIN reports : sorted[n] = reports[j]
      BY <2>2
    <3>4. m[y].at = reports[j].at /\ m[y].result \in ToSet(reports[j].results)
      BY <3>2, <3>3 DEF ToSet
    <3> QED
      BY <2>8, <3>4
  <2>9. PICK i \in Have(k) :
          m[z].at = reports[i].at /\ m[z].result \in ToSet(reports[i].results)
    BY <2>7, <2>8
  <2>10. PICK o \in Have(k) :
           m[h].at = reports[o].at /\ m[h].result \in ToSet(reports[o].results)
    BY <2>7, <2>8
  <2>11. ASSUME NEW j \in Have(k)
         PROVE  reports[o].at <= reports[j].at /\ reports[j].at <= reports[i].at
    <3>1. PICK r \in ToSet(reports[j].results) : KeyOf(r) = k
      OBVIOUS
    <3>2. PICK n \in DOMAIN sorted : sorted[n] = reports[j]
      BY <2>2
    <3>3. PICK l \in DOMAIN sorted[n].results : sorted[n].results[l] = r
      BY <3>1, <3>2 DEF ToSet
    <3>4. PICK y \in DOMAIN m : m[y] = [at |-> sorted[n].at, result |-> r]
      BY <2>3, <3>3
    <3>5. m[y].at = reports[j].at /\ m[y].result = r
      BY <3>2, <3>4
    <3>6. h <= y /\ y <= z
      BY <2>7, <3>1, <3>5
    <3> QED
      BY <2>3, <2>9, <2>10, <3>5, <3>6
  <2> HIDE DEF Have
  <2> QED
    BY <2>7, <2>9, <2>10, <2>11
<1>2. TypeOK => ChartsMatchTable
  BY <1>1 DEF ChartsMatchTable, DistinctTimes
<1> QED
  BY <1>2, TypeInvariance, PTL
=============================================================================
