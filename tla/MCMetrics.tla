----------------------------- MODULE MCMetrics -----------------------------
(***************************************************************************)
(* Inputs of MetricCalls.  Tabular windows are multisets of up to three rows *)
(* (as sorted sequences: none of their metrics depends on the order of the    *)
(* rows) over two or three values per column; tables of recommendations are   *)
(* sequences, since the last row of a repeated item counts.                    *)
(***************************************************************************)
EXTENDS MetricCalls

(* Non-decreasing sequences of a length over 0..n-1. *)
Multisets(n, len) ==
  {q \in [1..len -> 0..(n - 1)] : \A i \in 1..(len - 1) : q[i] <= q[i + 1]}
UpTo(n, first, last) == UNION {Multisets(n, len) : len \in first..last}

Digit(code, weight, base) == (code \div weight) % base
Column(q, dtype, weight, base) ==
  [dtype |-> dtype, vals |-> [i \in DOMAIN q |-> Digit(q[i], weight, base)]]

MCDiscount == <<One, Frac(63, 100), Frac(1, 2)>>

NoTypes == <<>>
Schema(label, types) ==
  [type |-> "tabular", label |-> label, pred |-> "p", proba |-> "s",
   protected |-> <<>>, types |-> types]

(* Label, prediction, probability (0, 1/2 or 1) and group of up to 3 rows. *)
PredictionFrame(q) ==
  [n |-> Len(q), cols |-> [y |-> Column(q, "int", 1, 2), p |-> Column(q, "int", 2, 2),
                           g |-> Column(q, "str", 4, 2), s |-> Column(q, "float", 8, 3)]]
Predictions ==
  {[family |-> "predictions", cur |-> PredictionFrame(q), s |-> Schema("y", NoTypes)] :
     q \in UpTo(24, 1, 3)}

(* The reference has labels, the current window predictions. *)
ReferenceFrame(q) ==
  [n |-> Len(q), cols |-> [y |-> Column(q, "int", 1, 2), s |-> Column(q, "float", 2, 3)]]
CurrentFrame(q) ==
  [n |-> Len(q), cols |-> [p |-> Column(q, "int", 1, 2), s |-> Column(q, "float", 2, 3)]]
Estimations ==
  {[family |-> "estimation", cur |-> CurrentFrame(q), ref |-> <<ReferenceFrame(r)>>,
    s |-> Schema("y", NoTypes)] : q \in UpTo(6, 1, 2), r \in UpTo(6, 1, 3)}

(* A column x of values 0, 1, 2 (and Null, as 3), and a label made of it. *)
Cell(v) == IF v = 3 THEN Null ELSE v
XFrame(q, dtype) ==
  [n |-> Len(q),
   cols |-> [x |-> [dtype |-> dtype, vals |-> [i \in DOMAIN q |-> Cell(q[i])]],
             y |-> [dtype |-> "int", vals |-> [i \in DOMAIN q |-> IF q[i] = 0 THEN 0 ELSE 1]]]]
Params == [q |-> Frac(1, 2), low |-> 1, high |-> 1, values |-> {0, 2}, nUnique |-> 1,
           nBins |-> 2, treatAs |-> "auto"]
ValuesOf(dtype) == IF dtype = "int" THEN 3 ELSE 4
Declarations == <<NoTypes, [x |-> "numeric"], [x |-> "categorical"]>>

(* The dtypes of the two windows: integers may have turned to floats in one. *)
Pairs == <<<<"int", "int">>, <<"float", "float">>, <<"str", "str">>,
           <<"int", "float">>, <<"float", "int">>>>
Columns(d, types) ==
  {[family |-> "column", cur |-> XFrame(q, d[1]), ref |-> <<XFrame(r, d[2])>>,
    s |-> Schema("x", types), params |-> Params] :
     q \in UpTo(ValuesOf(d[1]), 0, 3), r \in UpTo(ValuesOf(d[2]), 1, 3)}

(* The plan is made on a training window of up to 4 rows, and run later, when *)
(* values may be missing and integers may be floats.                          *)
Trains == {<<0>>, <<1, 2>>, <<0, 0, 1>>, <<0, 1, 1, 2>>, <<0, 0, 0, 1>>, <<1, 1, 1, 1>>}
Triples == <<<<"int", "int", "int">>, <<"float", "float", "float">>, <<"str", "str", "str">>,
             <<"int", "float", "int">>, <<"int", "float", "float">>, <<"int", "int", "float">>>>
Hows == <<"none", "inferred", "categorical">>
SchemaAs(how, df) ==
  CASE how = "none"        -> Schema("y", NoTypes)
    [] how = "categorical" -> Schema("y", [x |-> "categorical"])
    [] how = "inferred"    -> Schema("y", InferredTypes(df, Schema("y", NoTypes), NoTypes))
Advices(d, how) ==
  {[family |-> "advice", train |-> XFrame(t, d[1]), cur |-> XFrame(q, d[2]),
    ref |-> <<XFrame(r, d[3])>>, params |-> Params, s |-> SchemaAs(how, XFrame(t, d[1]))] :
     t \in Trains, q \in UpTo(ValuesOf(d[2]), 2, 3), r \in UpTo(3, 2, 2) \cup UpTo(2, 3, 3)}

(* Interactions of two users and three items, whose relevance is one of g     *)
(* grades; the third item has no feature, and the reference knows the first   *)
(* two.                                                                       *)
Row(code, g) ==
  [score |-> Digit(code, 1, 2), rel |-> Digit(code, 2, g), item |-> Digit(code, 2 * g, 3),
   user |-> Digit(code, 6 * g, 2), feat |-> Digit(code, 2 * g, 3)]
Table(q, g) ==
  [cols |-> {"user", "item", "rel", "score", "feat"}, rows |-> [i \in DOMAIN q |-> Row(q[i], g)]]
PastRow(user, item) == [user |-> user, item |-> item, rel |-> 0, score |-> 0, feat |-> 0]
Past == <<[cols |-> {"user", "item"}, rows |-> <<PastRow(0, 1), PastRow(0, 2), PastRow(1, 1)>>]>>
Ranking(table, ref, mode, k, threshold) ==
  [family |-> "ranking", table |-> table, ref |-> ref, s |-> [type |-> "recsys", mode |-> mode],
   p |-> [k |-> k, threshold |-> threshold, beta |-> One, features |-> {"feat"}]]
Modes == <<"none", "score", "rank">>

(* Three grades and two thresholds: every table of up to two rows, every       *)
(* order of three rows of one user and two items, three items in one order.   *)
Graded(mode, threshold) ==
  {Ranking(Table(q, 3), Past, mode, 2, threshold) :
     q \in UNION {[1..n -> 0..35] : n \in 1..2} \cup [1..3 -> 0..11] \cup Multisets(18, 3)}

(* Two grades: three rows of two users; and few rows, without a reference or k. *)
Binary(mode) ==
  {Ranking(Table(q, 2), Past, mode, 2, 0) : q \in Multisets(24, 3)}
Few(mode) ==
  {Ranking(Table(q, 2), ref, mode, k, 0) : q \in UpTo(24, 0, 2), ref \in {Past, <<>>}, k \in 0..1}

(* Two users and two items; labels in another order, repeated or missing. *)
Matrix(users, items, cells) == [users |-> users, items |-> items, cells |-> cells]
Truths == {Matrix(users, items, <<<<a, b>>, <<c, 0>>>>) :
             users \in {<<0, 1>>, <<0, 0>>}, items \in {<<0, 1>>, <<1, 0>>}, a \in 0..1, b \in 0..1, c \in 0..1}
Preds == {<<>>} \cup {<<Matrix(users, items, [i \in DOMAIN users |-> <<2 * i - 1, 2 * i>>])>> :
                        users \in {<<0, 1>>, <<1, 0>>, <<0, 0>>, <<0>>},
                        items \in {<<0, 1>>, <<1, 0>>}}
Matrices ==
  {[family |-> "matrix", lib |-> lib, truth |-> truth, pred |-> pred] :
     lib \in {"pandas", "polars"}, truth \in Truths, pred \in Preds}

(* A set for each choice: sets of some thousand inputs are quick to enumerate. *)
ByTwo(F(_, _), as, bs) ==
  [i \in 1..(Len(as) * Len(bs)) |-> F(as[((i - 1) \div Len(bs)) + 1], bs[((i - 1) % Len(bs)) + 1])]
MCInputs ==
  <<Predictions, Estimations, Matrices>>
    \o ByTwo(Columns, Pairs, Declarations) \o ByTwo(Advices, Triples, Hows)
    \o ByTwo(Graded, Modes, <<0, 1>>)
    \o [i \in DOMAIN Modes |-> Binary(Modes[i])] \o [i \in DOMAIN Modes |-> Few(Modes[i])]
=============================================================================
