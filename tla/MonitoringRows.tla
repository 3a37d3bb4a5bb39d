--------------------------- MODULE MonitoringRows ---------------------------
(***************************************************************************)
(* Theorems about Monitoring: which rows of the table a report speaks of, and *)
(* how the periods divide the table.                                           *)
(***************************************************************************)
EXTENDS MonitoringProofs, ListTheorems

TableRow == [id : Nat, ts : Int, model : {m.id : m \in Models},
             version : {m.version : m \in Models}]

Ordered(rows)  == \A j, k \in DOMAIN rows : j < k => rows[j].id < rows[k].id
Distinct(rows) == \A j, k \in DOMAIN rows : rows[j] = rows[k] => j = k

(* Rows are numbered as they arrive. *)
TableInv ==
  /\ table \in Seq(TableRow)
  /\ \A i \in DOMAIN table : table[i].id = i

(* Every call was given the two sides of the table of its time, which grew    *)
(* from call to call.                                                          *)
SidesOf(r) ==
  /\ r.period \in DOMAIN Cutoffs
  /\ r.seen \in Seq(TableRow) /\ Ordered(r.seen)
  /\ r.side = CurrentSide(r.seen, Cutoffs[r.period])
  /\ r.refSide = SomeOrNone(ReferenceSide(r.seen, Cutoffs[r.period], Width))

SidesInv ==
  /\ \A i \in DOMAIN runs :
       SidesOf(runs[i]) /\ RowSet(runs[i].seen) \subseteq RowSet(table)
  /\ \A i, j \in DOMAIN runs : i <= j =>
       runs[i].period <= runs[j].period /\ RowSet(runs[i].seen) \subseteq RowSet(runs[j].seen)

(* rows are those of the set wanted, or a sample of them. *)
Chosen(rows, wanted) ==
  /\ rows \in Seq(TableRow) /\ RowSet(rows) \subseteq wanted
  /\ plan.sampling = <<>> => RowSet(rows) = wanted /\ Ordered(rows)
  /\ plan.sampling # <<>> =>
       /\ Distinct(rows)
       /\ plan.sampling[1].n # <<>> => Len(rows) <= plan.sampling[1].n[1]

InWindowOf(r) == {x \in RowSet(r.side) : InWindow(x, r.side)}
WantedOf(r)   == {x \in RowSet(r.side) : Own(x) /\ InWindow(x, r.side)}
OwnRefOf(r)   == {x \in RowSet(r.refSide[1]) : Own(x)}

(* The data that a call has after the steps before this one. *)
Holds(r, w, step) ==
  /\ step # "resolve" => w.cols = TableCols \cap RequiredColumns(plan)
  /\ step \in {"resolve", "window"} => w.cur = r.side
  /\ step = "sample" => w.cur \in Seq(TableRow) /\ Ordered(w.cur)
                          /\ RowSet(w.cur) = InWindowOf(r)
  /\ step = "filter" => Chosen(w.cur, InWindowOf(r))
  /\ step \in {"validate", "evaluate"} => Chosen(w.cur, WantedOf(r))
  /\ step \in {"resolve", "window", "sample", "filter"} => w.ref = r.refSide
  /\ step \in {"validate", "evaluate"} /\ w.ref # <<>> => RowSet(w.ref[1]) = OwnRefOf(r)

DataSteps == {"resolve", "window", "sample", "filter", "validate", "evaluate"}

WorkInv ==
  /\ plan \in Plans
  /\ work = [cols |-> work.cols, cur |-> work.cur, ref |-> work.ref]
  /\ pc \in DataSteps => Holds(runs[Now], work, pc)

(* What EvaluatedRowsExact says of one report. *)
Exact(r) ==
  LET rows == r.evaluated[1]
  IN /\ Chosen(rows, WantedOf(r))
     /\ r.bounds # <<>> => \A x \in RowSet(rows) : r.bounds[1] <= x.ts /\ x.ts <= r.bounds[2]
     /\ r.ref # <<>> => RowSet(r.ref[1]) = OwnRefOf(r)

ReportInv == \A i \in DOMAIN runs : runs[i].evaluated # <<>> => Exact(runs[i])

----------------------------------------------------------------------------
(* Rows picked from rows. *)

LEMMA RowFields ==
  ASSUME NEW x \in TableRow
  PROVE  x.id \in Nat /\ x.ts \in Int
  BY DEF TableRow

LEMMA OrderedIsDistinct ==
  ASSUME NEW rows \in Seq(TableRow), Ordered(rows)
  PROVE  Distinct(rows)
<1> SUFFICES ASSUME NEW j \in DOMAIN rows, NEW k \in DOMAIN rows, rows[j] = rows[k]
             PROVE  j = k
  BY DEF Distinct
<1>1. j \in Int /\ k \in Int /\ rows[j] \in TableRow /\ rows[k] \in TableRow
  OBVIOUS
<1>2. ~(rows[j].id < rows[k].id) /\ ~(rows[k].id < rows[j].id)
  BY <1>1, RowFields
<1> QED
  BY <1>1, <1>2 DEF Ordered

(* Picking keeps the order, repeats nothing and adds nothing. *)
LEMMA PickedRows ==
  ASSUME NEW q \in Seq(TableRow), NEW P, P \subseteq DOMAIN q
  PROVE  /\ Picked(q, P) \in Seq(TableRow)
         /\ Len(Picked(q, P)) <= Len(q)
         /\ RowSet(Picked(q, P)) = {q[i] : i \in P}
         /\ Ordered(q) => Ordered(Picked(q, P))
         /\ Distinct(q) => Distinct(Picked(q, P))
<1> DEFINE p == Picked(q, P)
           f == InOrder(P)
<1>1. /\ p \in Seq(TableRow) /\ Len(p) \in Nat /\ Len(p) <= Len(q) /\ DOMAIN p = 1..Len(p)
      /\ \A k \in DOMAIN p : f[k] \in P /\ p[k] = q[f[k]]
      /\ \A i \in P : \E k \in DOMAIN p : p[k] = q[i]
      /\ \A j, k \in DOMAIN p : j < k => f[j] < f[k]
  BY PickFacts
<1> HIDE DEF p, f
<1>2. RowSet(p) = {q[i] : i \in P}
  BY <1>1 DEF RowSet
<1>3. ASSUME Ordered(q) PROVE Ordered(p)
  BY <1>1, <1>3 DEF Ordered
<1>4. ASSUME Distinct(q) PROVE Distinct(p)
  <2> SUFFICES ASSUME NEW j \in DOMAIN p, NEW k \in DOMAIN p, p[j] = p[k]
               PROVE  j = k
    BY DEF Distinct
  <2>1. f[j] = f[k] /\ f[j] \in DOMAIN q /\ j \in Int /\ k \in Int
    BY <1>1, <1>4 DEF Distinct
  <2>2. f[j] \in Int
    BY <2>1
  <2> QED
    BY <1>1, <2>1, <2>2
<1> QED
  BY <1>1, <1>2, <1>3, <1>4 DEF p

(* The two sides of a cutoff, as sets of rows. *)
LEMMA SideRows ==
  ASSUME NEW q \in Seq(TableRow), NEW c, NEW w
  PROVE  /\ CurrentSide(q, c) \in Seq(TableRow)
         /\ Ordered(q) => Ordered(CurrentSide(q, c))
         /\ RowSet(CurrentSide(q, c)) = {x \in RowSet(q) : AfterCutoff(x.ts, c)}
         /\ ReferenceSide(q, c, w) \in Seq(TableRow)
         /\ RowSet(ReferenceSide(q, c, w)) =
              {x \in RowSet(q) : InReferenceWindow(x.ts, c, w)}
<1>1. {i \in DOMAIN q : AfterCutoff(q[i].ts, c)} \subseteq DOMAIN q
  OBVIOUS
<1>2. {i \in DOMAIN q : InReferenceWindow(q[i].ts, c, w)} \subseteq DOMAIN q
  OBVIOUS
<1>3. RowSet(CurrentSide(q, c)) = {x \in RowSet(q) : AfterCutoff(x.ts, c)}
  <2>1. RowSet(CurrentSide(q, c)) = {q[i] : i \in {j \in DOMAIN q : AfterCutoff(q[j].ts, c)}}
    BY <1>1, PickedRows DEF CurrentSide
  <2> QED
    BY <2>1 DEF RowSet
<1>4. RowSet(ReferenceSide(q, c, w)) = {x \in RowSet(q) : InReferenceWindow(x.ts, c, w)}
  <2>1. RowSet(ReferenceSide(q, c, w)) =
          {q[i] : i \in {j \in DOMAIN q : InReferenceWindow(q[j].ts, c, w)}}
    BY <1>2, PickedRows DEF ReferenceSide
  <2> QED
    BY <2>1 DEF RowSet
<1> QED
  BY <1>1, <1>2, <1>3, <1>4, PickedRows DEF CurrentSide, ReferenceSide

(* The last n rows are those that fewer than n rows come after. *)
LEMMA LastRowsAre ==
  ASSUME NEW q \in Seq(TableRow), Ordered(q), NEW n \in Nat, n > 0, Len(q) >= n
  PROVE  /\ LastRows(q, n) \in Seq(TableRow) /\ Ordered(LastRows(q, n))
         /\ RowSet(LastRows(q, n)) =
              {x \in RowSet(q) : Cardinality({r \in RowSet(q) : r.id > x.id}) < n}
<1> DEFINE p == LastRows(q, n)
           m == Len(q) - n
           Later(x) == {r \in RowSet(q) : r.id > x.id}
<1>1. Len(q) \in Nat /\ m \in Nat /\ m + n = Len(q) /\ DOMAIN q = 1..Len(q)
  OBVIOUS
<1>2. p \in Seq(TableRow) /\ DOMAIN p = 1..n /\ \A k \in 1..n : p[k] = q[k + m]
  BY <1>1 DEF LastRows
<1>3. \A j, k \in DOMAIN q : (q[j].id > q[k].id <=> j > k)
  <2> SUFFICES ASSUME NEW j \in DOMAIN q, NEW k \in DOMAIN q
               PROVE  q[j].id > q[k].id <=> j > k
    OBVIOUS
  <2>1. q[j].id \in Nat /\ q[k].id \in Nat
    BY RowFields
  <2>2. j \in Int /\ k \in Int /\ (j > k \/ j = k \/ j < k)
    OBVIOUS
  <2> QED
    BY <2>1, <2>2 DEF Ordered
<1>4. \A k \in DOMAIN q : Cardinality(Later(q[k])) = Len(q) - k
  <2> SUFFICES ASSUME NEW k \in DOMAIN q PROVE Cardinality(Later(q[k])) = Len(q) - k
    OBVIOUS
  <2> DEFINE J == (k + 1)..Len(q)
             f == [j \in J |-> q[j]]
  <2>1. k \in Nat /\ k <= Len(q) /\ J \subseteq DOMAIN q /\ \A j \in DOMAIN q : j > k <=> j \in J
    BY <1>1
  <2>2. Later(q[k]) = {q[j] : j \in J}
    BY <1>3, <2>1 DEF RowSet
  <2>3. \A a, b \in J : q[a] = q[b] => a = b
    BY <2>1, OrderedIsDistinct DEF Distinct
  <2>4. f \in Bijection(J, Later(q[k]))
    <3>1. f \in [J -> Later(q[k])] /\ \A y \in Later(q[k]) : \E j \in J : f[j] = y
      BY <2>2
    <3>2. \A a, b \in J : f[a] = f[b] => a = b
      BY <2>3
    <3> HIDE DEF f, J, Later
    <3> QED
      BY <3>1, <3>2, Fun_IsBij
  <2>5. IsFiniteSet(J) /\ Cardinality(J) = Len(q) - k
    <3>1. k + 1 \in Int /\ Len(q) \in Int
      BY <1>1, <2>1
    <3>2. IsFiniteSet(J) /\ Cardinality(J) = IF k + 1 > Len(q) THEN 0 ELSE Len(q) - (k + 1) + 1
      BY <3>1, FS_Interval
    <3> QED
      BY <1>1, <2>1, <3>2
  <2>6. ExistsBijection(J, Later(q[k]))
    BY <2>4 DEF ExistsBijection
  <2> HIDE DEF J, Later
  <2> QED
    BY <2>5, <2>6, FS_Bijection
<1>5. \A k \in DOMAIN q : (Cardinality(Later(q[k])) < n <=> k > m)
  BY <1>1, <1>4
<1> HIDE DEF Later
<1>6. RowSet(p) = {x \in RowSet(q) : Cardinality(Later(x)) < n}
  <2>1. \A k \in 1..n : k + m \in DOMAIN q /\ k + m > m
    BY <1>1
  <2>2. \A k \in DOMAIN q : k > m => k - m \in 1..n /\ (k - m) + m = k
    BY <1>1
  <2>3. \A k \in DOMAIN q : k > m => \E j \in 1..n : p[j] = q[k]
    BY <1>2, <2>2
  <2> HIDE DEF p, m
  <2>4. ASSUME NEW x \in RowSet(p)
        PROVE  x \in {y \in RowSet(q) : Cardinality(Later(y)) < n}
    BY <1>2, <1>5, <2>1, <2>4 DEF RowSet
  <2>5. ASSUME NEW x \in RowSet(q), Cardinality(Later(x)) < n PROVE x \in RowSet(p)
    BY <1>2, <1>5, <2>3, <2>5 DEF RowSet
  <2> QED
    BY <2>4, <2>5
<1>7. Ordered(p)
  <2> SUFFICES ASSUME NEW j \in 1..n, NEW k \in 1..n, j < k PROVE p[j].id < p[k].id
    BY <1>2 DEF Ordered
  <2>1. j + m \in DOMAIN q /\ k + m \in DOMAIN q /\ j + m < k + m
    BY <1>1
  <2> HIDE DEF p, m
  <2> QED
    BY <1>2, <2>1 DEF Ordered
<1> QED
  BY <1>2, <1>6, <1>7 DEF Later

(* The projection of step 1 keeps the columns that step 4 filters by. *)
LEMMA ModelColumnsAreKept ==
  ASSUME NEW x
  PROVE  OfModel(x, TableCols \cap RequiredColumns(plan), plan) <=> Own(x)
<1>1. \A r \in {"model_id_col", "model_version_col"} :
        RoleOf(plan.schema, r) # "" => RoleOf(plan.schema, r) \in RequiredColumns(plan)
  BY DEF RequiredColumns, ColumnNames, Roles, BaseRoles
<1> QED
  BY <1>1 DEF OfModel, Own

LEMMA FilteredRows ==
  ASSUME NEW q \in Seq(TableRow), NEW frame, frame.rows = q,
         frame.cols = TableCols \cap RequiredColumns(plan)
  PROVE  LET kept == FilterModel(frame, plan)
         IN /\ kept \in Seq(TableRow) /\ Len(kept) <= Len(q)
            /\ RowSet(kept) = {x \in RowSet(q) : Own(x)}
            /\ Ordered(q) => Ordered(kept)
            /\ Distinct(q) => Distinct(kept)
<1> DEFINE P == {i \in DOMAIN q : OfModel(q[i], frame.cols, plan)}
<1>1. P \subseteq DOMAIN q /\ FilterModel(frame, plan) = Picked(q, P)
  BY DEF FilterModel
<1>2. \A i \in DOMAIN q : i \in P <=> Own(q[i])
  BY ModelColumnsAreKept
<1>3. RowSet(Picked(q, P)) = {x \in RowSet(q) : Own(x)}
  <2>1. RowSet(Picked(q, P)) = {q[i] : i \in P}
    BY <1>1, PickedRows
  <2> HIDE DEF P
  <2> QED
    BY <1>1, <1>2, <2>1 DEF RowSet
<1> HIDE DEF P
<1> QED
  BY <1>1, <1>3, PickedRows

LEMMA PlanFacts ==
  ASSUME plan \in Plans
  PROVE  /\ WindowValid(plan.window)
         /\ plan.window.type = "last_n" => plan.window.n \in Nat /\ plan.window.n > 0
         /\ plan.window.type = "time_window" =>
              plan.window.start \in Int /\ plan.window.end \in Int
         /\ plan.sampling # <<>> =>
              /\ plan.sampling[1] \in Samplings
              /\ plan.sampling[1].n \in Seq(Nat) /\ plan.sampling[1].frac \in Seq(Nat)
              /\ plan.sampling[1].n = <<>> => plan.sampling[1].frac # <<>>
<1>1. plan.window.type = "last_n" => plan.window.n \in Nat /\ plan.window.n > 0
  BY MonitoringAssumption DEF MonitoringAssumption, WindowValid
<1>2. ASSUME plan.sampling # <<>>
      PROVE  1 \in DOMAIN plan.sampling /\ plan.sampling[1] \in Samplings
  <2>1. plan.sampling \in Seq(Samplings)
    BY MonitoringAssumption DEF MonitoringAssumption
  <2> QED
    BY <1>2, <2>1
<1>3. ASSUME plan.sampling # <<>>
      PROVE  plan.sampling[1].n = <<>> => plan.sampling[1].frac # <<>>
  BY <1>2, <1>3, MonitoringAssumption DEF MonitoringAssumption, SamplingValid
<1> QED
  BY <1>1, <1>2, <1>3, MonitoringAssumption DEF MonitoringAssumption, Samplings

(* The window keeps the rows that it is to keep. *)
LEMMA WindowRows ==
  ASSUME plan \in Plans, NEW q \in Seq(TableRow), Ordered(q),
         plan.window.type = "last_n" => Len(q) >= plan.window.n
  PROVE  LET kept == ApplyWindow(q, plan.window)
         IN /\ kept \in Seq(TableRow) /\ Ordered(kept)
            /\ RowSet(kept) = {x \in RowSet(q) : InWindow(x, q)}
<1> DEFINE w == plan.window
<1>1. CASE w.type = "last_n"
  BY <1>1, PlanFacts, LastRowsAre DEF ApplyWindow, InWindow
<1>2. CASE w.type = "time_window"
  <2> DEFINE P == {i \in DOMAIN q : q[i].ts >= w.start /\ q[i].ts <= w.end}
  <2>1. P \subseteq DOMAIN q /\ ApplyWindow(q, w) = Picked(q, P)
    BY <1>2 DEF ApplyWindow, Between
  <2>2. \A x \in RowSet(q) : InWindow(x, q) <=> x.ts >= w.start /\ x.ts <= w.end
    <3>1. \A x \in RowSet(q) : x.ts \in Int
      BY RowFields DEF RowSet
    <3> QED
      BY <1>2, <3>1, PlanFacts DEF InWindow
  <2>3. RowSet(Picked(q, P)) = {q[i] : i \in P}
    BY <2>1, PickedRows
  <2>4. RowSet(Picked(q, P)) = {x \in RowSet(q) : InWindow(x, q)}
    BY <2>2, <2>3 DEF RowSet
  <2> HIDE DEF P
  <2> QED
    BY <2>1, <2>4, PickedRows
<1>3. CASE w.type \notin {"last_n", "time_window"}
  BY <1>3 DEF ApplyWindow, InWindow
<1> QED
  BY <1>1, <1>2, <1>3

(* A sample repeats no row and has no more rows than it was asked for. *)
LEMMA SampledRows ==
  ASSUME plan \in Plans, plan.sampling # <<>>, NEW q \in Seq(TableRow), Ordered(q),
         NEW p \in Samples(q, plan.sampling[1])
  PROVE  /\ p \in Seq(TableRow) /\ RowSet(p) \subseteq RowSet(q) /\ Distinct(p)
         /\ plan.sampling[1].n # <<>> => Len(p) <= plan.sampling[1].n[1]
<1> DEFINE sampling == plan.sampling[1]
           size == SampleSize(sampling, Len(q))
<1>1. sampling.n \in Seq(Nat) /\ sampling.frac \in Seq(Nat) /\ Len(q) \in Nat
      /\ (sampling.n = <<>> => sampling.frac # <<>>)
  BY PlanFacts
<1>2. size \in Nat /\ (sampling.n # <<>> => size <= sampling.n[1])
  <2>1. CASE sampling.n # <<>>
    <3>1. sampling.n[1] \in Nat
      BY <1>1, <2>1
    <3> QED
      BY <1>1, <2>1, <3>1 DEF SampleSize
  <2>2. CASE sampling.n = <<>>
    <3>1. sampling.frac[1] \in Nat
      BY <1>1, <2>2
    <3>2. \A a, b \in Nat : (a * b) \div 100 \in Int
      <4>1. \A a, b \in Nat : a * b \in Int
        OBVIOUS
      <4>2. \A c \in Int : c \div 100 \in Int
        OBVIOUS
      <4> QED
        BY <4>1, <4>2
    <3>3. (Len(q) * sampling.frac[1]) \div 100 \in Int
      BY <1>1, <3>1, <3>2
    <3> QED
      BY <2>2, <3>3 DEF SampleSize
  <2> QED
    BY <2>1, <2>2
<1> HIDE DEF size, sampling
<1>3. PICK f \in [1..size -> DOMAIN q] :
        /\ \A i, j \in 1..size : f[i] = f[j] => i = j
        /\ p = [i \in 1..size |-> q[f[i]]]
  BY DEF Samples, size, sampling
<1>4. p \in Seq(TableRow) /\ Len(p) = size /\ DOMAIN p = 1..size
  BY <1>2, <1>3
<1>5. RowSet(p) \subseteq RowSet(q)
  BY <1>3, <1>4 DEF RowSet
<1>6. Distinct(p)
  BY <1>3, <1>4, OrderedIsDistinct DEF Distinct
<1> QED
  BY <1>2, <1>4, <1>5, <1>6 DEF sampling

(* The bounds of a report are those of its rows. *)
LEMMA PeriodBounds ==
  ASSUME NEW q \in Seq(TableRow), NEW cols, NEW schema, Period(cols, q, schema) # <<>>
  PROVE  \A x \in RowSet(q) : /\ Period(cols, q, schema)[1] <= x.ts
                              /\ x.ts <= Period(cols, q, schema)[2]
<1> DEFINE stamps == {q[i].ts : i \in DOMAIN q}
<1>1. stamps \subseteq Int
  BY RowFields
<1>2. IsFiniteSet(stamps)
  <2>1. IsFiniteSet(DOMAIN q)
    <3>1. DOMAIN q = 1..Len(q) /\ Len(q) \in Int /\ 1 \in Int
      OBVIOUS
    <3> QED
      BY <3>1, FS_Interval
  <2>2. [i \in DOMAIN q |-> q[i].ts] \in Surjection(DOMAIN q, stamps)
    BY Fun_IsSurj
  <2> QED
    BY <2>1, <2>2, FS_Surjection
<1> DEFINE first == CHOOSE t \in stamps : \A u \in stamps : t <= u
           last  == CHOOSE t \in stamps : \A u \in stamps : t >= u
<1>3. stamps # {} /\ Period(cols, q, schema) = <<first, last>>
  BY DEF Period
<1>4. \A x \in RowSet(q) : x.ts \in stamps
  BY DEF RowSet
<1> HIDE DEF stamps
<1>5. /\ \E t \in stamps : \A u \in stamps : t <= u
      /\ \E t \in stamps : \A u \in stamps : t >= u
  BY <1>1, <1>2, <1>3, LeastAndGreatest
<1>6. /\ first \in stamps /\ \A u \in stamps : first <= u
      /\ last \in stamps /\ \A u \in stamps : last >= u
  BY <1>5
<1> HIDE DEF first, last
<1>7. first \in Int /\ last \in Int
  BY <1>1, <1>6
<1>8. Period(cols, q, schema)[1] = first /\ Period(cols, q, schema)[2] = last
  BY <1>3
<1>9. \A t \in stamps : t \in Int /\ first <= t /\ t <= last
  BY <1>1, <1>6, <1>7
<1> QED
  BY <1>4, <1>8, <1>9

----------------------------------------------------------------------------
(* What a step leaves of the calls. *)

SameRows(a, b) ==
  /\ a.period = b.period /\ a.seen = b.seen /\ a.side = b.side /\ a.refSide = b.refSide
  /\ a.evaluated = b.evaluated /\ a.ref = b.ref /\ a.bounds = b.bounds

LEMMA OneRunChanges ==
  ASSUME CallsInv, pc \in Running, NEW r, runs' = [runs EXCEPT ![Now] = r]
  PROVE  /\ Now \in DOMAIN runs /\ Now' = Now /\ DOMAIN runs' = DOMAIN runs
         /\ runs'[Now] = r /\ \A i \in DOMAIN runs : i # Now => runs'[i] = runs[i]
<1>1. PICK S : runs \in Seq(S)
  BY DEF CallsInv
<1>2. Now \in DOMAIN runs
  BY CurrentCall
<1>3. runs' \in Seq(S \cup {r}) /\ Len(runs') = Len(runs)
  BY <1>1, <1>2
<1> QED
  BY <1>1, <1>2, <1>3 DEF Now

(* Only Call and Evaluate say which rows a call is about. *)
LEMMA RowsAreKept ==
  ASSUME CallsInv, [Next]_vars, ~Call, ~Evaluate
  PROVE  /\ Now' = Now /\ DOMAIN runs' = DOMAIN runs
         /\ \A i \in DOMAIN runs : SameRows(runs'[i], runs[i])
<1>1. CASE runs' = runs
  BY <1>1 DEF Now, SameRows
<1>2. ASSUME pc \in Running, NEW r, runs' = [runs EXCEPT ![Now] = r], SameRows(r, runs[Now])
      PROVE  /\ Now' = Now /\ DOMAIN runs' = DOMAIN runs
             /\ \A i \in DOMAIN runs : SameRows(runs'[i], runs[i])
  BY <1>2, OneRunChanges DEF SameRows
<1>3. ASSUME NEW how, pc \in Running, Ends(how)
      PROVE  \E r : runs' = [runs EXCEPT ![Now] = r] /\ SameRows(r, runs[Now])
  <2>1. IsRun(runs[Now])
    BY <1>3, CurrentCall
  <2>2. SameRows([runs[Now] EXCEPT !.end = how], runs[Now])
    BY <2>1 DEF SameRows, IsRun, RunFields
  <2> QED
    BY <1>3, <2>2 DEF Ends
<1>4. ASSUME StoreWrite
      PROVE  \E r : runs' = [runs EXCEPT ![Now] = r] /\ SameRows(r, runs[Now])
  <2>1. IsRun(runs[Now]) /\ pc \in Running
    BY <1>4, CurrentCall DEF StoreWrite, At, Running
  <2>2. PICK o, w : runs' = [runs EXCEPT ![Now] = [runs[Now] EXCEPT !.stored = o, !.warned = w]]
    BY <1>4 DEF StoreWrite
  <2>3. SameRows([runs[Now] EXCEPT !.stored = o, !.warned = w], runs[Now])
    BY <2>1 DEF SameRows, IsRun, RunFields
  <2> QED
    BY <2>2, <2>3
<1>5. ASSUME Tell, runs' # runs
      PROVE  \E r : runs' = [runs EXCEPT ![Now] = r] /\ SameRows(r, runs[Now])
  <2>1. IsRun(runs[Now]) /\ pc \in Running
    BY <1>5, CurrentCall DEF Tell, At, Running
  <2>2. PICK o, w : runs' = [runs EXCEPT ![Now] = [runs[Now] EXCEPT !.reached = o, !.warned = w]]
    <3>1. PICK o \in ChannelWrites(Channel) :
            runs' = [runs EXCEPT ![Now].reached = o.reached,
                                 ![Now].warned = IF o.raised THEN @ \cup {"channel"} ELSE @]
      BY <1>5 DEF Tell
    <3> DEFINE w == IF o.raised THEN runs[Now].warned \cup {"channel"} ELSE runs[Now].warned
    <3>2. runs' = [runs EXCEPT ![Now] = [runs[Now] EXCEPT !.reached = o.reached, !.warned = w]]
      BY <3>1, Zenon
    <3> QED
      BY <3>2
  <2>3. SameRows([runs[Now] EXCEPT !.reached = o, !.warned = w], runs[Now])
    BY <2>1 DEF SameRows, IsRun, RunFields
  <2> QED
    BY <2>2, <2>3
<1>6. ASSUME Crash, runs' # runs
      PROVE  pc \in Running /\ \E r : runs' = [runs EXCEPT ![Now] = r] /\ SameRows(r, runs[Now])
  <2>1. pc \in Running
    BY <1>6 DEF Crash
  <2>2. IsRun(runs[Now])
    BY <2>1, CurrentCall
  <2>3. SameRows([runs[Now] EXCEPT !.end = "died"], runs[Now])
    BY <2>2 DEF SameRows, IsRun, RunFields
  <2> QED
    BY <1>6, <2>1, <2>3 DEF Crash
<1>7. ASSUME Steps, runs' # runs
      PROVE  pc \in Running /\ \E r : runs' = [runs EXCEPT ![Now] = r] /\ SameRows(r, runs[Now])
  <2>1. pc \in Running
    BY <1>7 DEF Steps, Resolve, Window, Sample, Filter, Validate, Evaluate, StoreWrite, Tell,
      Return, RunRaises, Goes, At, Running
  <2>2. CASE Return \/ \E step : RunRaises(step)
    BY <1>3, <2>1, <2>2 DEF Return, RunRaises
  <2> QED
    BY <1>4, <1>5, <1>7, <2>1, <2>2
    DEF Steps, Resolve, Window, Sample, Filter, Validate, Goes
<1>8. CASE ~Steps /\ ~Crash
  BY <1>1, <1>8 DEF Next, Arrive, Import, Loads, Register, ExtensionLoaded, ExtensionRaises,
    NextExtension, Imported, Skip, vars
<1> QED
  BY <1>1, <1>2, <1>6, <1>7, <1>8

(* Evaluate says it of the running call, and leaves the others alone. *)
LEMMA EvaluateSays ==
  ASSUME CallsInv, Evaluate
  PROVE  /\ Now' = Now /\ Now \in DOMAIN runs /\ DOMAIN runs' = DOMAIN runs
         /\ \A i \in DOMAIN runs : i # Now => runs'[i] = runs[i]
         /\ runs'[Now].period = runs[Now].period /\ runs'[Now].seen = runs[Now].seen
         /\ runs'[Now].side = runs[Now].side /\ runs'[Now].refSide = runs[Now].refSide
         /\ runs'[Now].evaluated = <<work.cur>> /\ runs'[Now].ref = work.ref
         /\ runs'[Now].bounds = Period(work.cols, work.cur, plan.schema)
<1> DEFINE b == Period(work.cols, work.cur, plan.schema)
<1>1. pc \in Running
  BY DEF Evaluate, At, Running
<1>2. IsRun(runs[Now])
  BY <1>1, CurrentCall
<1>3. PICK f : runs' = [runs EXCEPT ![Now] =
         [runs[Now] EXCEPT !.evaluated = <<work.cur>>, !.ref = work.ref, !.bounds = b,
                           !.fired = f]]
  BY DEF Evaluate
<1> HIDE DEF b
<1> DEFINE r == [runs[Now] EXCEPT !.evaluated = <<work.cur>>, !.ref = work.ref, !.bounds = b,
                                  !.fired = f]
<1>4. /\ r.period = runs[Now].period /\ r.seen = runs[Now].seen
      /\ r.side = runs[Now].side /\ r.refSide = runs[Now].refSide
      /\ r.evaluated = <<work.cur>> /\ r.ref = work.ref /\ r.bounds = b
  BY <1>2 DEF IsRun, RunFields
<1>5. runs' = [runs EXCEPT ![Now] = r]
  BY <1>3
<1> HIDE DEF r
<1> QED
  BY <1>1, <1>4, <1>5, OneRunChanges DEF b

(* Call adds a call with the two sides of the table. *)
LEMMA CallAdds ==
  ASSUME CallsInv, Call
  PROVE  /\ Now \in Nat /\ Now' = Now + 1
         /\ DOMAIN runs = 1..Now /\ DOMAIN runs' = 1..(Now + 1)
         /\ \A i \in DOMAIN runs : runs'[i] = runs[i]
         /\ runs'[Now + 1] = NewRun(Partition(table, Cutoffs[period], Width))
<1> DEFINE r == NewRun(Partition(table, Cutoffs[period], Width))
<1>1. runs' = Append(runs, r)
  BY DEF Call
<1>2. PICK S : runs \in Seq(S)
  BY DEF CallsInv
<1> HIDE DEF r
<1>3. runs \in Seq(S \cup {r})
  BY <1>2
<1> QED
  BY <1>1, <1>2, <1>3 DEF Now, r

----------------------------------------------------------------------------
(* The table and the periods. *)

LEMMA TableChanges ==
  ASSUME [Next]_vars
  PROVE  table' = table \/ Arrive
  BY DEF Next, Steps, Resolve, Window, Sample, Filter, Validate, Evaluate, StoreWrite, Tell,
    Return, RunRaises, Goes, Outside, Import, Loads, Register, ExtensionLoaded,
    ExtensionRaises, NextExtension, Imported, Call, Skip, Crash, vars

LEMMA TableStep ==
  ASSUME TableInv, [Next]_vars
  PROVE  TableInv' /\ RowSet(table) \subseteq RowSet(table')
<1>1. CASE table' = table
  BY <1>1 DEF TableInv, RowSet
<1>2. CASE Arrive
  <2>1. PICK ts \in Stamps, m \in Models :
          table' = Append(table, [id |-> Len(table) + 1, ts |-> ts,
                                  model |-> m.id, version |-> m.version])
    BY <1>2 DEF Arrive
  <2> DEFINE row == [id |-> Len(table) + 1, ts |-> ts, model |-> m.id, version |-> m.version]
  <2>2. row \in TableRow /\ row.id = Len(table) + 1 /\ table' = Append(table, row)
    BY <2>1, MonitoringAssumption DEF MonitoringAssumption, TableInv, TableRow
  <2> HIDE DEF row
  <2>3. /\ table \in Seq(TableRow) /\ table' \in Seq(TableRow) /\ Len(table) \in Nat
        /\ DOMAIN table = 1..Len(table) /\ DOMAIN table' = 1..(Len(table) + 1)
        /\ table'[Len(table) + 1] = row
        /\ \A i \in DOMAIN table : table'[i] = table[i]
    BY <2>2 DEF TableInv
  <2>4. \A i \in DOMAIN table' : i \in DOMAIN table \/ i = Len(table) + 1
    BY <2>3
  <2>5. RowSet(table) \subseteq RowSet(table')
    BY <2>3 DEF RowSet
  <2> QED
    BY <2>2, <2>3, <2>4, <2>5 DEF TableInv
<1> QED
  BY <1>1, <1>2, TableChanges

LEMMA TableIsOrdered ==
  ASSUME TableInv
  PROVE  Ordered(table)
<1>1. \A i \in DOMAIN table : i \in Int /\ table[i].id = i
  BY DEF TableInv
<1> QED
  BY <1>1 DEF Ordered

LEMMA SidesStep ==
  ASSUME CallsInv, PeriodInv, TableInv, SidesInv, [Next]_vars
  PROVE  SidesInv'
<1>1. RowSet(table) \subseteq RowSet(table')
  BY TableStep
<1>2. ASSUME DOMAIN runs' = DOMAIN runs,
             \A i \in DOMAIN runs :
               /\ runs'[i].period = runs[i].period /\ runs'[i].seen = runs[i].seen
               /\ runs'[i].side = runs[i].side /\ runs'[i].refSide = runs[i].refSide
      PROVE  SidesInv'
  BY <1>1, <1>2 DEF SidesInv, SidesOf
<1>3. CASE Call
  <2> DEFINE r == NewRun(Partition(table, Cutoffs[period], Width))
             n == Now + 1
  <2>1. /\ Now \in Nat /\ DOMAIN runs = 1..Now /\ DOMAIN runs' = 1..n
        /\ \A i \in DOMAIN runs : runs'[i] = runs[i]
        /\ runs'[n] = r
    BY <1>3, CallAdds
  <2>2. /\ r.period = period /\ r.seen = table
        /\ r.side = CurrentSide(table, Cutoffs[period])
        /\ r.refSide = SomeOrNone(ReferenceSide(table, Cutoffs[period], Width))
    BY DEF NewRun, Partition
  <2> HIDE DEF r
  <2>3. period \in DOMAIN Cutoffs /\ table' = table
    BY <1>3 DEF Call
  <2>4. SidesOf(r) /\ RowSet(r.seen) \subseteq RowSet(table')
    BY <2>2, <2>3, TableIsOrdered DEF SidesOf, TableInv
  <2>5. \A i \in DOMAIN runs :
          runs[i].period <= r.period /\ RowSet(runs[i].seen) \subseteq RowSet(r.seen)
    BY <2>2 DEF PeriodInv, SidesInv
  <2>6. \A i \in DOMAIN runs' : i \in DOMAIN runs \/ i = n
    BY <2>1
  <2>7. r.period \in Int
    BY <2>2 DEF PeriodInv
  <2>8. \A i \in DOMAIN runs' :
          SidesOf(runs'[i]) /\ RowSet(runs'[i].seen) \subseteq RowSet(table')
    BY <2>1, <2>3, <2>4, <2>6 DEF SidesInv
  <2>9. ASSUME NEW i \in DOMAIN runs', NEW j \in DOMAIN runs', i <= j
        PROVE  /\ runs'[i].period <= runs'[j].period
               /\ RowSet(runs'[i].seen) \subseteq RowSet(runs'[j].seen)
    <3>1. CASE i \in DOMAIN runs /\ j \in DOMAIN runs
      BY <2>1, <2>9, <3>1 DEF SidesInv
    <3>2. CASE i \in DOMAIN runs /\ j = n
      BY <2>1, <2>5, <3>2
    <3>3. CASE i = n /\ j = n
      BY <2>1, <2>7, <3>3
    <3>4. ~(i = n /\ j \in DOMAIN runs)
      BY <2>1, <2>9
    <3> QED
      BY <2>6, <3>1, <3>2, <3>3, <3>4
  <2> QED
    BY <2>8, <2>9 DEF SidesInv
<1>4. CASE Evaluate
  <2>1. DOMAIN runs' = DOMAIN runs
    BY <1>4, EvaluateSays
  <2>2. \A i \in DOMAIN runs :
          /\ runs'[i].period = runs[i].period /\ runs'[i].seen = runs[i].seen
          /\ runs'[i].side = runs[i].side /\ runs'[i].refSide = runs[i].refSide
    BY <1>4, EvaluateSays
  <2> QED
    BY <1>2, <2>1, <2>2
<1>5. CASE ~Call /\ ~Evaluate
  BY <1>2, <1>5, RowsAreKept DEF SameRows
<1> QED
  BY <1>3, <1>4, <1>5

THEOREM SidesInvariance == Spec => [](TableInv /\ SidesInv)
<1>1. Init => TableInv /\ SidesInv
  BY DEF Init, TableInv, SidesInv
<1>2. CallsInv /\ PeriodInv /\ TableInv /\ SidesInv /\ [Next]_vars => TableInv' /\ SidesInv'
  BY TableStep, SidesStep
<1> QED
  BY <1>1, <1>2, CallsInvariant, PeriodInvariant, PTL DEF Spec

RefRows(r) == IF r.refSide = <<>> THEN {} ELSE RowSet(r.refSide[1])

(* The sides of a call, as sets of the rows that it has seen. *)
LEMMA SidesAsSets ==
  ASSUME NEW r, SidesOf(r)
  PROVE  LET c == Cutoffs[r.period]
         IN /\ c \in Int
            /\ \A x \in RowSet(r.seen) : x.ts \in Int
            /\ RowSet(r.side) = {x \in RowSet(r.seen) : x.ts > c}
            /\ RefRows(r) = {x \in RowSet(r.seen) : x.ts > c - Width /\ x.ts <= c}
<1> DEFINE c == Cutoffs[r.period]
           q == ReferenceSide(r.seen, c, Width)
<1>1. c \in Int
  BY MonitoringAssumption DEF MonitoringAssumption, SidesOf
<1>2. \A x \in RowSet(r.seen) : x.ts \in Int
  BY RowFields DEF SidesOf, RowSet
<1>3. RowSet(r.side) = {x \in RowSet(r.seen) : x.ts > c}
  BY SideRows DEF SidesOf, AfterCutoff
<1>4. q \in Seq(TableRow)
      /\ RowSet(q) = {x \in RowSet(r.seen) : x.ts > c - Width /\ x.ts <= c}
  BY SideRows DEF SidesOf, InReferenceWindow
<1>5. r.refSide = SomeOrNone(q)
  BY DEF SidesOf
<1> HIDE DEF q, c
<1>6. CASE q = <<>>
  <2>1. RowSet(q) = {}
    BY <1>6 DEF RowSet
  <2> QED
    BY <1>1, <1>2, <1>3, <1>4, <1>5, <1>6, <2>1 DEF RefRows, SomeOrNone, c
<1>7. CASE q # <<>>
  <2>1. r.refSide # <<>> /\ r.refSide[1] = q
    BY <1>5, <1>7 DEF SomeOrNone
  <2> QED
    BY <1>1, <1>2, <1>3, <1>4, <2>1 DEF RefRows, c
<1> QED
  BY <1>6, <1>7

(* No row is on both sides of a cutoff; and the reference of a period is what *)
(* the period before it had as current data, up to the cutoff, if the two      *)
(* cutoffs are as far apart as the reference window is long.                   *)
THEOREM PeriodsTileTheTable == Spec => []PeriodsTile
<1>1. CallsInv /\ SidesInv => PeriodsTile
  <2> SUFFICES ASSUME CallsInv, SidesInv, NEW i \in DOMAIN runs
               PROVE  /\ RowSet(runs[i].side) \cap RefRows(runs[i]) = {}
                      /\ \A j \in DOMAIN runs :
                           runs[j].period + 1 = runs[i].period
                             /\ Cutoffs[runs[i].period] - Width = Cutoffs[runs[j].period] =>
                             \A x \in RowSet(runs[j].seen) :
                               x \in RefRows(runs[i]) <=>
                                 x \in RowSet(runs[j].side) /\ x.ts <= Cutoffs[runs[i].period]
    BY DEF PeriodsTile, RefRows
  <2> DEFINE c == Cutoffs[runs[i].period]
  <2>1. /\ SidesOf(runs[i]) /\ c \in Int
        /\ \A x \in RowSet(runs[i].seen) : x.ts \in Int
        /\ RowSet(runs[i].side) = {x \in RowSet(runs[i].seen) : x.ts > c}
        /\ RefRows(runs[i]) = {x \in RowSet(runs[i].seen) : x.ts > c - Width /\ x.ts <= c}
    BY SidesAsSets DEF SidesInv
  <2>2. RowSet(runs[i].side) \cap RefRows(runs[i]) = {}
    BY <2>1
  <2>3. ASSUME NEW j \in DOMAIN runs, runs[j].period + 1 = runs[i].period,
               c - Width = Cutoffs[runs[j].period]
        PROVE  \A x \in RowSet(runs[j].seen) :
                 x \in RefRows(runs[i]) <=> x \in RowSet(runs[j].side) /\ x.ts <= c
    <3>1. RowSet(runs[j].side) = {y \in RowSet(runs[j].seen) : y.ts > c - Width}
      BY <2>3, SidesAsSets DEF SidesInv
    <3>2. runs[j].period \in Int /\ runs[i].period \in Int
      BY MonitoringAssumption DEF SidesInv, SidesOf, MonitoringAssumption
    <3>3. i \in Int /\ j \in Int
      BY DEF CallsInv
    <3>4. j <= i
      BY <2>3, <3>2, <3>3 DEF SidesInv
    <3>5. RowSet(runs[j].seen) \subseteq RowSet(runs[i].seen)
      BY <2>3, <3>4 DEF SidesInv
    <3> HIDE DEF c
    <3> QED
      BY <2>1, <3>1, <3>5
  <2> HIDE DEF c
  <2> QED
    BY <2>2, <2>3 DEF c
<1> QED
  BY <1>1, CallsInvariant, SidesInvariance, PTL

----------------------------------------------------------------------------
(* The data of a call, step by step. *)

LEMMA PlanStays ==
  ASSUME [Next]_vars
  PROVE  plan' = plan
  BY DEF Next, Steps, Resolve, Window, Sample, Filter, Validate, Evaluate, StoreWrite, Tell,
    Return, RunRaises, Goes, Outside, Arrive, Import, Loads, Register, ExtensionLoaded,
    ExtensionRaises, NextExtension, Imported, Call, Skip, Crash, vars

LEMMA SamePlan ==
  ASSUME plan' = plan
  PROVE  /\ \A r, w, step : Holds(r, w, step) => Holds(r, w, step)'
         /\ \A r : Exact(r) => Exact(r)'
<1>1. \A x : Own(x)' <=> Own(x)
  BY DEF Own, OfModel
<1>2. \A x, side : InWindow(x, side)' <=> InWindow(x, side)
  BY DEF InWindow
<1>3. /\ \A r : InWindowOf(r)' = InWindowOf(r)
      /\ \A r : WantedOf(r)' = WantedOf(r)
      /\ \A r : OwnRefOf(r)' = OwnRefOf(r)
  BY <1>1, <1>2 DEF InWindowOf, WantedOf, OwnRefOf
<1>4. \A rows, wanted : Chosen(rows, wanted)' <=> Chosen(rows, wanted)
  BY DEF Chosen
<1>5. \A r : Exact(r) => Exact(r)'
  BY <1>3, <1>4 DEF Exact
<1>6. \A r, w, step : Holds(r, w, step) => Holds(r, w, step)'
  BY <1>3, <1>4 DEF Holds
<1> QED
  BY <1>5, <1>6

LEMMA RunningSides ==
  ASSUME CallsInv, SidesInv, pc \in Running
  PROVE  /\ runs[Now].side \in Seq(TableRow) /\ Ordered(runs[Now].side)
         /\ \/ runs[Now].refSide = <<>>
            \/ \E q \in Seq(TableRow) : runs[Now].refSide = <<q>>
<1>1. SidesOf(runs[Now])
  BY CurrentCall DEF SidesInv
<1> QED
  BY <1>1, SideRows DEF SidesOf, SomeOrNone

LEMMA ResolveHolds ==
  ASSUME WorkInv, Resolve, pc' = "window"
  PROVE  Holds(runs[Now], work', "window")
<1>1. pc = "resolve" /\ work' = [work EXCEPT !.cols = Projected(Frame(work.cur), plan).cols]
  BY DEF Resolve, RunRaises, Goes, At
<1>2. Projected(Frame(work.cur), plan).cols = TableCols \cap RequiredColumns(plan)
  BY DEF Projected, Frame
<1>3. work.cur = runs[Now].side /\ work.ref = runs[Now].refSide
  BY <1>1 DEF WorkInv, DataSteps, Holds
<1>4. /\ work'.cols = TableCols \cap RequiredColumns(plan)
      /\ work'.cur = work.cur /\ work'.ref = work.ref
  BY <1>1, <1>2 DEF WorkInv
<1> QED
  BY <1>3, <1>4 DEF Holds

LEMMA WindowHolds ==
  ASSUME CallsInv, SidesInv, WorkInv, Window, pc' = "sample"
  PROVE  Holds(runs[Now], work', "sample")
<1> DEFINE r == runs[Now]
<1>1. /\ pc = "window" /\ WindowError(CurrentFrame, plan.window, plan.schema) = "none"
      /\ work' = [work EXCEPT !.cur = ApplyWindow(work.cur, plan.window)]
  BY DEF Window, RunRaises, Goes, At
<1>2. /\ work.cur = r.side /\ work.ref = r.refSide
      /\ work.cols = TableCols \cap RequiredColumns(plan)
  BY <1>1 DEF WorkInv, DataSteps, Holds
<1>3. r.side \in Seq(TableRow) /\ Ordered(r.side)
  BY <1>1, RunningSides DEF Running
<1>4. plan.window.type = "last_n" => Len(r.side) >= plan.window.n
  <2> SUFFICES ASSUME plan.window.type = "last_n" PROVE Len(r.side) >= plan.window.n
    OBVIOUS
  <2>1. ~(Len(work.cur) < plan.window.n)
    BY <1>1 DEF WindowError, CurrentFrame
  <2> QED
    BY <1>2, <1>3, <2>1, PlanFacts DEF WorkInv
<1>5. /\ ApplyWindow(r.side, plan.window) \in Seq(TableRow)
      /\ Ordered(ApplyWindow(r.side, plan.window))
      /\ RowSet(ApplyWindow(r.side, plan.window)) = InWindowOf(r)
  BY <1>3, <1>4, WindowRows DEF WorkInv, InWindowOf
<1>6. /\ work'.cols = work.cols /\ work'.ref = work.ref
      /\ work'.cur = ApplyWindow(r.side, plan.window)
  BY <1>1, <1>2 DEF WorkInv
<1> QED
  BY <1>2, <1>5, <1>6 DEF Holds

LEMMA SampleHolds ==
  ASSUME WorkInv, Sample, pc' = "filter"
  PROVE  Holds(runs[Now], work', "filter")
<1> DEFINE r == runs[Now]
<1>1. pc = "sample"
  BY DEF Sample, RunRaises, Goes, At
<1>2. /\ work.cur \in Seq(TableRow) /\ Ordered(work.cur) /\ RowSet(work.cur) = InWindowOf(r)
      /\ work.ref = r.refSide /\ work.cols = TableCols \cap RequiredColumns(plan)
  BY <1>1 DEF WorkInv, DataSteps, Holds
<1>3. CASE plan.sampling = <<>>
  <2>1. work' = work
    BY <1>3 DEF Sample
  <2>2. Chosen(work.cur, InWindowOf(r))
    BY <1>2, <1>3 DEF Chosen
  <2> QED
    BY <1>2, <2>1, <2>2 DEF Holds
<1>4. CASE plan.sampling # <<>>
  <2>1. PICK p \in Samples(work.cur, plan.sampling[1]) : work' = [work EXCEPT !.cur = p]
    BY <1>4 DEF Sample, RunRaises, At
  <2>2. Chosen(p, InWindowOf(r))
    BY <1>2, <1>4, SampledRows DEF Chosen, WorkInv
  <2>3. work'.cols = work.cols /\ work'.ref = work.ref /\ work'.cur = p
    BY <2>1 DEF WorkInv
  <2> QED
    BY <1>2, <2>2, <2>3 DEF Holds
<1> QED
  BY <1>3, <1>4

LEMMA FilterHolds ==
  ASSUME CallsInv, SidesInv, WorkInv, Filter
  PROVE  Holds(runs[Now], work', "validate")
<1> DEFINE r == runs[Now]
           FilteredOf(rows) == FilterModel([cols |-> work.cols, rows |-> rows], plan)
<1>1. /\ pc = "filter"
      /\ work' = [work EXCEPT !.cur = FilteredOf(work.cur),
                              !.ref = [i \in DOMAIN work.ref |-> FilteredOf(work.ref[i])]]
  BY DEF Filter, Goes, At
<1>2. /\ Chosen(work.cur, InWindowOf(r))
      /\ work.ref = r.refSide /\ work.cols = TableCols \cap RequiredColumns(plan)
  BY <1>1 DEF WorkInv, DataSteps, Holds
<1>3. ASSUME NEW q \in Seq(TableRow)
      PROVE  /\ FilteredOf(q) \in Seq(TableRow) /\ Len(FilteredOf(q)) <= Len(q)
             /\ RowSet(FilteredOf(q)) = {x \in RowSet(q) : Own(x)}
             /\ Ordered(q) => Ordered(FilteredOf(q))
             /\ Distinct(q) => Distinct(FilteredOf(q))
  BY <1>2, FilteredRows
<1> HIDE DEF FilteredOf
<1>4. /\ work'.cols = work.cols /\ work'.cur = FilteredOf(work.cur)
      /\ work'.ref = [i \in DOMAIN r.refSide |-> FilteredOf(r.refSide[i])]
  BY <1>1, <1>2 DEF WorkInv
<1>5. Chosen(FilteredOf(work.cur), WantedOf(r))
  <2>1. work.cur \in Seq(TableRow) /\ RowSet(work.cur) \subseteq InWindowOf(r)
    BY <1>2 DEF Chosen
  <2>2. RowSet(FilteredOf(work.cur)) = {x \in RowSet(work.cur) : Own(x)}
    BY <1>3, <2>1
  <2>3. RowSet(FilteredOf(work.cur)) \subseteq WantedOf(r)
    BY <2>1, <2>2 DEF InWindowOf, WantedOf
  <2>4. RowSet(work.cur) = InWindowOf(r) => RowSet(FilteredOf(work.cur)) = WantedOf(r)
    BY <2>2 DEF InWindowOf, WantedOf
  <2>5. ASSUME plan.sampling # <<>>, plan.sampling[1].n # <<>>
        PROVE  Len(FilteredOf(work.cur)) <= plan.sampling[1].n[1]
    <3>1. plan.sampling[1].n \in Seq(Nat) /\ 1 \in DOMAIN plan.sampling[1].n
      <4>1. plan.sampling[1].n \in Seq(Nat)
        BY <2>5, PlanFacts DEF WorkInv
      <4>2. \A l \in Seq(Nat) : l # <<>> => 1 \in DOMAIN l
        OBVIOUS
      <4> QED
        BY <2>5, <4>1, <4>2
    <3>2. plan.sampling[1].n[1] \in Nat
      <4>1. \A l \in Seq(Nat), k \in Nat : k \in DOMAIN l => l[k] \in Nat
        OBVIOUS
      <4> QED
        BY <3>1, <4>1
    <3>3. Len(work.cur) <= plan.sampling[1].n[1] /\ Len(work.cur) \in Nat
      BY <1>2, <2>1, <2>5 DEF Chosen
    <3>4. Len(FilteredOf(work.cur)) <= Len(work.cur) /\ Len(FilteredOf(work.cur)) \in Nat
      BY <1>3, <2>1
    <3> QED
      BY <3>2, <3>3, <3>4
  <2> QED
    BY <1>2, <1>3, <2>1, <2>3, <2>4, <2>5 DEF Chosen
<1>6. work'.ref # <<>> => RowSet(work'.ref[1]) = OwnRefOf(r)
  <2>1. CASE r.refSide = <<>>
    BY <1>4, <2>1
  <2>2. CASE \E q \in Seq(TableRow) : r.refSide = <<q>>
    <3>1. PICK q \in Seq(TableRow) : r.refSide = <<q>>
      BY <2>2
    <3>2. work'.ref[1] = FilteredOf(q) /\ r.refSide[1] = q
      BY <1>4, <3>1
    <3> QED
      BY <1>3, <3>2 DEF OwnRefOf
  <2> QED
    BY <1>1, <2>1, <2>2, RunningSides DEF Running
<1> QED
  BY <1>2, <1>4, <1>5, <1>6 DEF Holds

LEMMA ValidateHolds ==
  ASSUME WorkInv, Validate, pc' = "evaluate"
  PROVE  Holds(runs[Now], work', "evaluate")
<1>1. pc = "validate" /\ work' = work
  BY DEF Validate, RunRaises, Goes, At
<1> QED
  BY <1>1 DEF WorkInv, DataSteps, Holds

LEMMA CallHolds ==
  ASSUME CallsInv, Call
  PROVE  Holds(runs'[Now'], work', "resolve")
<1>1. /\ Now' = Now + 1
      /\ runs'[Now + 1] = NewRun(Partition(table, Cutoffs[period], Width))
  BY CallAdds
<1>2. /\ work'.cur = Partition(table, Cutoffs[period], Width).current
      /\ work'.ref = Partition(table, Cutoffs[period], Width).reference
  BY DEF Call
<1> QED
  BY <1>1, <1>2 DEF NewRun, Holds

(* A step that goes on leaves the calls as they are. *)
LEMMA StepsGoOn ==
  ASSUME Resolve \/ Window \/ Sample \/ Filter \/ Validate
  PROVE  \/ pc' = "idle" /\ work' = NoWork
         \/ /\ runs' = runs /\ Now' = Now
            /\ \/ Resolve  /\ pc' = "window"
               \/ Window   /\ pc' = "sample"
               \/ Sample   /\ pc' = "filter"
               \/ Filter   /\ pc' = "validate"
               \/ Validate /\ pc' = "evaluate"
  BY DEF Resolve, Window, Sample, Filter, Validate, RunRaises, Goes, At, Ends, Now

LEMMA OthersHaveNoData ==
  ASSUME CallsInv, [Next]_vars, ~Call, ~(Resolve \/ Window \/ Sample \/ Filter \/ Validate)
  PROVE  \/ UNCHANGED vars
         \/ pc' \notin DataSteps /\ (work' = work \/ work' = NoWork)
  BY DEF Next, Steps, Evaluate, StoreWrite, Tell, Return, Ends, At, Arrive, Import, Loads,
    Loading, Register, ExtensionLoaded, ExtensionRaises, NextExtension, Imported, Skip,
    Crash, DataSteps

LEMMA WorkStep ==
  ASSUME CallsInv, SidesInv, WorkInv, [Next]_vars
  PROVE  WorkInv'
<1>1. plan' = plan /\ plan \in Plans
  BY PlanStays DEF WorkInv
<1>2. ASSUME pc' \in DataSteps => Holds(runs'[Now'], work', pc'),
             work' = [cols |-> work'.cols, cur |-> work'.cur, ref |-> work'.ref]
      PROVE  WorkInv'
  BY <1>1, <1>2, SamePlan DEF WorkInv
<1>3. /\ work = [cols |-> work.cols, cur |-> work.cur, ref |-> work.ref]
      /\ NoWork = [cols |-> NoWork.cols, cur |-> NoWork.cur, ref |-> NoWork.ref]
  BY DEF WorkInv, NoWork
<1>4. CASE Call
  <2>1. work' = [cols |-> work'.cols, cur |-> work'.cur, ref |-> work'.ref]
    BY <1>4 DEF Call
  <2>2. pc' = "resolve"
    BY <1>4 DEF Call
  <2> QED
    BY <1>2, <1>4, <2>1, <2>2, CallHolds
<1>5. CASE Resolve \/ Window \/ Sample \/ Filter \/ Validate
  <2>1. CASE pc' = "idle" /\ work' = NoWork
    BY <1>2, <1>3, <2>1 DEF DataSteps
  <2>2. CASE Resolve /\ pc' = "window" /\ runs' = runs /\ Now' = Now
    <3>1. Holds(runs'[Now'], work', pc')
      BY <2>2, ResolveHolds
    <3>2. work' = [work EXCEPT !.cols = work'.cols]
      BY <1>3, <2>2 DEF Resolve, RunRaises, At
    <3> QED
      BY <1>2, <1>3, <3>1, <3>2
  <2>3. CASE Window /\ pc' = "sample" /\ runs' = runs /\ Now' = Now
    <3>1. Holds(runs'[Now'], work', pc')
      BY <2>3, WindowHolds
    <3>2. work' = [work EXCEPT !.cur = work'.cur]
      BY <1>3, <2>3 DEF Window, RunRaises, At
    <3> QED
      BY <1>2, <1>3, <3>1, <3>2
  <2>4. CASE Sample /\ pc' = "filter" /\ runs' = runs /\ Now' = Now
    <3>1. Holds(runs'[Now'], work', pc')
      BY <2>4, SampleHolds
    <3>2. work' = [work EXCEPT !.cur = work'.cur]
      BY <1>3, <2>4 DEF Sample, RunRaises, At
    <3> QED
      BY <1>2, <1>3, <3>1, <3>2
  <2>5. CASE Filter /\ pc' = "validate" /\ runs' = runs /\ Now' = Now
    <3>1. Holds(runs'[Now'], work', pc')
      BY <2>5, FilterHolds
    <3>2. work' = [work EXCEPT !.cur = work'.cur, !.ref = work'.ref]
      BY <1>3, <2>5 DEF Filter
    <3> QED
      BY <1>2, <1>3, <3>1, <3>2
  <2>6. CASE Validate /\ pc' = "evaluate" /\ runs' = runs /\ Now' = Now
    <3>1. Holds(runs'[Now'], work', pc')
      BY <2>6, ValidateHolds
    <3>2. work' = work
      BY <2>6 DEF Validate, RunRaises, At
    <3> QED
      BY <1>2, <1>3, <3>1, <3>2
  <2> QED
    BY <1>5, <2>1, <2>2, <2>3, <2>4, <2>5, <2>6, StepsGoOn
<1>6. CASE UNCHANGED vars
  <2>1. pc' = pc /\ work' = work /\ runs' = runs /\ Now' = Now
    BY <1>6 DEF vars, Now
  <2> QED
    BY <1>2, <1>3, <2>1 DEF WorkInv
<1>7. CASE pc' \notin DataSteps /\ (work' = work \/ work' = NoWork)
  BY <1>2, <1>3, <1>7
<1> QED
  BY <1>4, <1>5, <1>6, <1>7, OthersHaveNoData

----------------------------------------------------------------------------
(* What a report says. *)

(* The report of the running call is about the data that it has. *)
LEMMA EvaluateIsExact ==
  ASSUME CallsInv, WorkInv, Evaluate
  PROVE  Exact(runs'[Now])
<1> DEFINE r == runs'[Now]
<1>1. Chosen(work.cur, WantedOf(runs[Now]))
      /\ (work.ref # <<>> => RowSet(work.ref[1]) = OwnRefOf(runs[Now]))
  BY DEF Evaluate, At, WorkInv, DataSteps, Holds
<1>2. /\ r.side = runs[Now].side /\ r.refSide = runs[Now].refSide
      /\ r.evaluated = <<work.cur>> /\ r.ref = work.ref
      /\ r.bounds = Period(work.cols, work.cur, plan.schema)
  BY EvaluateSays
<1> HIDE DEF r
<1>3. r.evaluated[1] = work.cur
      /\ WantedOf(r) = WantedOf(runs[Now]) /\ OwnRefOf(r) = OwnRefOf(runs[Now])
  BY <1>2 DEF WantedOf, OwnRefOf
<1>4. r.bounds # <<>> =>
        \A x \in RowSet(work.cur) : r.bounds[1] <= x.ts /\ x.ts <= r.bounds[2]
  BY <1>1, <1>2, PeriodBounds DEF Chosen
<1>5. Exact(r)
  BY <1>1, <1>2, <1>3, <1>4 DEF Exact
<1> QED
  BY <1>5 DEF r

LEMMA ReportStep ==
  ASSUME CallsInv, WorkInv, ReportInv, [Next]_vars
  PROVE  ReportInv'
<1>1. plan' = plan
  BY PlanStays
<1>2. ASSUME \A i \in DOMAIN runs' : runs'[i].evaluated # <<>> => Exact(runs'[i])
      PROVE  ReportInv'
  BY <1>1, <1>2, SamePlan DEF ReportInv
<1>3. CASE Call
  <2>1. /\ DOMAIN runs' = 1..(Now + 1) /\ DOMAIN runs = 1..Now /\ Now \in Nat
        /\ \A i \in DOMAIN runs : runs'[i] = runs[i]
        /\ runs'[Now + 1].evaluated = <<>>
    BY <1>3, CallAdds DEF NewRun
  <2>2. \A i \in DOMAIN runs' : i \in DOMAIN runs \/ i = Now + 1
    BY <2>1
  <2> QED
    BY <1>2, <2>1, <2>2 DEF ReportInv
<1>4. CASE Evaluate
  <2>1. DOMAIN runs' = DOMAIN runs /\ \A i \in DOMAIN runs : i # Now => runs'[i] = runs[i]
    BY <1>4, EvaluateSays
  <2> QED
    BY <1>2, <1>4, <2>1, EvaluateIsExact DEF ReportInv
<1>5. CASE ~Call /\ ~Evaluate
  <2>1. DOMAIN runs' = DOMAIN runs /\ \A i \in DOMAIN runs : SameRows(runs'[i], runs[i])
    BY <1>5, RowsAreKept
  <2>2. \A a, b : SameRows(a, b) /\ Exact(b) => Exact(a)
    <3>1. \A a, b : SameRows(a, b) => WantedOf(a) = WantedOf(b) /\ OwnRefOf(a) = OwnRefOf(b)
      BY DEF SameRows, WantedOf, OwnRefOf
    <3> QED
      BY <3>1 DEF SameRows, Exact
  <2> QED
    BY <1>2, <2>1, <2>2 DEF ReportInv, SameRows
<1> QED
  BY <1>3, <1>4, <1>5

(* At every step a call has the data that the steps before are to leave it,   *)
(* and every report is exact.                                                  *)
THEOREM DataInvariance == Spec => [](WorkInv /\ ReportInv)
<1>1. Init => WorkInv /\ ReportInv
  BY DEF Init, WorkInv, ReportInv, NoWork, DataSteps
<1>2. CallsInv /\ SidesInv /\ WorkInv /\ ReportInv /\ [Next]_vars => WorkInv' /\ ReportInv'
  BY WorkStep, ReportStep
<1> QED
  BY <1>1, <1>2, CallsInvariant, SidesInvariance, PTL DEF Spec

(* A report speaks of exactly the rows of the plan's model in the plan's      *)
(* window, or of a sample of them, with their bounds and the model's reference *)
(* rows: whatever arrives, whatever the store and the channel raise, and       *)
(* however often the process dies.                                             *)
THEOREM ReportsAreExact == Spec => []EvaluatedRowsExact
<1>1. ReportInv => EvaluatedRowsExact
  BY DEF ReportInv, EvaluatedRowsExact, Evaluated, Exact, Chosen, WantedOf, OwnRefOf, Ordered,
    Distinct
<1> QED
  BY <1>1, DataInvariance, PTL
=============================================================================
