------------------------------- MODULE Frames -------------------------------
(***************************************************************************)
(* Data frames, and the helpers that every metric uses: extraction of a     *)
(* column with its guards, classification of the columns, results           *)
(* (ayn_ml/metrics/tabular/_helpers.py).                                     *)
(*                                                                          *)
(* A column has a dtype ("int", "float", "str" or "bool") and one value per *)
(* row: an integer, which in a column of strings stands for a category, or  *)
(* Null, which is None in a column of strings and NaN in one of floats.     *)
(* An integer column has no Null: pandas turns it into floats.               *)
(*                                                                          *)
(* The value of a metric is a tuple of three: an exact fraction, or one of   *)
(* the marks below for the values whose size no property looks at.           *)
(***************************************************************************)
EXTENDS Lists, SequencesExt, FiniteSetsExt, Functions

CONSTANTS Null,
          MinRows    \* _MIN_ROWS of drift.py, tests.py and fairness.py

ASSUME FramesAssumption == MinRows \in Nat \ {0, 1}

----------------------------------------------------------------------------
(* Values. *)

Gcd[a \in Nat, b \in Nat] == IF b = 0 THEN a ELSE Gcd[b, a % b]

Abs(n) == IF n < 0 THEN -n ELSE n

(* The fraction n/d in lowest terms, for d > 0. *)
Frac(n, d) == LET g == Gcd[Abs(n), d] IN <<"num", n \div g, d \div g>>
Whole(n)   == <<"num", n, 1>>
Zero == Whole(0)
One  == Whole(1)

IsNum(v) == v[1] = "num"

Plus(a, b)  == Frac(a[2] * b[3] + b[2] * a[3], a[3] * b[3])
Minus(a, b) == Frac(a[2] * b[3] - b[2] * a[3], a[3] * b[3])
Times(a, b) == Frac(a[2] * b[2], a[3] * b[3])
Over(a, b)  == IF b[2] > 0 THEN Frac(a[2] * b[3], a[3] * b[2])
                           ELSE Frac(-a[2] * b[3], a[3] * (-b[2]))
Leq(a, b)   == a[2] * b[3] <= b[2] * a[3]
Less(a, b)  == a[2] * b[3] < b[2] * a[3]
AbsF(a)     == <<"num", Abs(a[2]), a[3]>>

SumF(seq)  == FoldLeft(Plus, Zero, seq)
MeanF(seq) == Over(SumF(seq), Whole(Len(seq)))
MaxF(S)    == CHOOSE a \in S : \A b \in S : Leq(b, a)
MinF(S)    == CHOOSE a \in S : \A b \in S : Leq(a, b)

NotANumber == <<"nan", 0, 1>>
PValue     == <<"p", 0, 1>>         \* what scipy returns as a p-value
Statistic  == <<"stat", 0, 1>>      \* what scipy returns as a statistic
Positive   == <<"positive", 0, 1>>  \* a distance or divergence above zero
Infinite   == <<"inf", 0, 1>>
Unbound    == <<"none", 0, 1>>      \* Python's None
Category(c) == <<"cat", c, 1>>      \* a string

(* Order statistics of a column. *)
Sorted(vals) == SortSeq(vals, <)

(* Mutant of Quantile: the weights of the neighbours are swapped. *)
QuantileSwapped(vals, q) ==
  LET a == Sorted(vals)
      h == (Len(a) - 1) * q[2]
      k == h \div q[3] + 1
      r == h % q[3]
  IN IF r = 0 THEN Whole(a[k]) ELSE Frac(a[k] * r + a[k + 1] * (q[3] - r), q[3])

(* np.quantile() and np.percentile(): linear between the neighbours. *)
Quantile(vals, q) ==
  LET a == Sorted(vals)
      h == (Len(a) - 1) * q[2]
      k == h \div q[3] + 1
      r == h % q[3]
  IN IF r = 0 THEN Whole(a[k]) ELSE Frac(a[k] * (q[3] - r) + a[k + 1] * r, q[3])

----------------------------------------------------------------------------
(* Outcomes of compute(): a value and an effect size, or an exception.      *)

Err(e) == [err |-> e, value |-> Unbound, effect |-> Unbound]

(* _result_metric() rounds to six decimals, which no property tells apart.   *)
Result(v, effect) == [err |-> "none", value |-> v, effect |-> effect]

(* _result_stat() keeps the value as it is. *)
Stat(v) == [err |-> "none", value |-> v, effect |-> Unbound]

(* What one guard raises, if anything; those of a compute() are joined in    *)
(* the code's order.                                                          *)
When(p, e) == IF p THEN <<e>> ELSE <<>>

(* The first guard that holds raises; outcome is only evaluated when none does. *)
Guarded(raised, outcome) == IF raised = <<>> THEN outcome ELSE Err(Head(raised))

----------------------------------------------------------------------------
(* Columns. *)

(* A name, or a declared type, of None. *)
Nameless == ""

Has(df, c)  == c \in DOMAIN df.cols
Vals(df, c) == df.cols[c].vals

NonNull(vals) == Picked(vals, {i \in DOMAIN vals : vals[i] # Null})
HasNull(vals) == Null \in Range(vals)

(* The values of a column that are not missing. *)
Present(vals) == Range(vals) \ {Null}

CountOf(vals, v) == Cardinality({i \in DOMAIN vals : vals[i] = v})

Number == {"int", "float"}
IsType(df, c, dtypes) == Has(df, c) /\ df.cols[c].dtype \in dtypes

(* A text cannot be cast to a float, a None can (it becomes NaN). *)
NotCastable(df, c) == IsType(df, c, {"str"}) /\ Present(Vals(df, c)) # {}

(* np.unique() sorts: it cannot compare None with a text or with None. *)
Unsortable(df, c) == IsType(df, c, {"str"}) /\ HasNull(Vals(df, c)) /\ df.n > 1

(* extract_feature(): its guards, in order. *)
Extraction(df, c, asFloat, minRows) ==
  When(c = Nameless, "SchemaError")
  \o When(~Has(df, c), "SchemaError")
  \o When(asFloat /\ NotCastable(df, c), "ValueError")
  \o When(df.n < minRows, "InsufficientDataError")

(* The guards of _check_tabular() and of the extraction of a column that the *)
(* schema names.                                                              *)
TabularCheck(s) == When(s.type # "tabular", "SchemaError")
ColumnCheck(df, c) == When(c = Nameless \/ ~Has(df, c), "SchemaError")

(* A reference window is a sequence: empty for None. *)
EmptyFrame == [n |-> 0, cols |-> <<>>]
FrameOf(ref) == IF ref = <<>> THEN EmptyFrame ELSE ref[1]

(* Every metric that needs a reference says so itself too. *)
ReferenceCheck(ref) == When(ref = <<>>, "SchemaError")

(* _is_numeric(): the schema's declaration wins, if there is one. *)
IsNumeric(df, c, declared) ==
  IF declared = Nameless THEN IsType(df, c, Number) ELSE declared = "numeric"

(* classify_columns(), for one column. *)
ColumnType(column, declared) ==
  LET seen == Present(column.vals) IN
  IF declared # Nameless THEN declared
  ELSE CASE column.dtype = "int"   -> IF seen \subseteq {0, 1} THEN "binary" ELSE "numeric"
         [] column.dtype = "float" -> IF seen # {} /\ seen \subseteq {0, 1}
                                      THEN "binary" ELSE "numeric"
         [] OTHER                  -> "categorical"

(* to_float_array(): the values that are not missing. *)
Floats(df, c) == NonNull(Vals(df, c))
=============================================================================
