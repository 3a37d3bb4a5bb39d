------------------------------ MODULE Ranking ------------------------------
(***************************************************************************)
(* Recommender metrics (ayn_ml/metrics/recsys.py) and the table that         *)
(* interactions_from_matrix() prepares for them                              *)
(* (ayn_ml/metrics/recsys_utils.py).                                         *)
(*                                                                          *)
(* A table is [cols, rows]: the columns it has and its rows, each with a     *)
(* user, an item, a relevance, a score and the item's features.  Features    *)
(* are one-hot vectors, named by their 1 (0 is the zero vector), so that the *)
(* cosine of two of them is 0 or 1; the cosines of vectors with several ones  *)
(* are irrational and given by their squares.                                 *)
(***************************************************************************)
EXTENDS Frames

(* 1 / log2(i + 1): what matters is that it decreases from 1 and stays above 0. *)
CONSTANT Discount

Users(d) == {d.rows[i].user : i \in DOMAIN d.rows}
RowsOfUser(d, u) == LET Own(r) == r.user = u IN SelectSeq(d.rows, Own)
ItemsOf(rows) == {rows[i].item : i \in DOMAIN rows}

(* Mutant of Precedes: recommendations_type is not looked at. *)
PrecedesByScore(mode, a, b) == a.score > b.score

(* By decreasing score, or by increasing rank. *)
Precedes(mode, a, b) == IF mode = "rank" THEN a.score < b.score ELSE a.score > b.score

(* argsort() is not stable: rows of equal score come in any order.  Without  *)
(* scores the rows keep their order.                                          *)
Orders(s, rows) ==
  IF s.mode = "none" THEN {rows}
  ELSE LET perms == {f \in Bijection(DOMAIN rows, DOMAIN rows) :
                       \A i, j \in DOMAIN rows :
                         i < j => ~Precedes(s.mode, rows[f[j]], rows[f[i]])}
       IN {[i \in DOMAIN rows |-> rows[f[i]]] : f \in perms}

(* The rankings that _build_user_rankings() may build: an ordering per user. *)
Rankings(d, s) ==
  {f \in [Users(d) -> UNION {Orders(s, RowsOfUser(d, u)) : u \in Users(d)}] :
     \A u \in Users(d) : f[u] \in Orders(s, RowsOfUser(d, u))}

TopK(rank, u, k) == SubSeq(rank[u], 1, Min({k, Len(rank[u])}))
Relevant(rank, u, t) == {rank[u][i].item : i \in {i \in DOMAIN rank[u] : rank[u][i].rel > t}}

(* The guards: the schema, k, the columns and at least one user. *)
RankingChecks(d, s, p) ==
  When(s.type # "recsys", "SchemaError") \o When(p.k < 1, "ValueError")
  \o When(~({"user", "item", "rel"} \subseteq d.cols), "SchemaError")
  \o When(d.rows = <<>>, "InsufficientDataError")

MeanOfSet(S, F(_)) ==
  LET Add(u, acc) == Plus(acc, F(u)) IN Over(FoldSet(Add, Zero, S), Whole(Cardinality(S)))

Ranked(d, s, p, v) == Guarded(RankingChecks(d, s, p), Result(v, Unbound))
PerUser(d, s, p, F(_)) == Ranked(d, s, p, MeanOfSet(Users(d), F))

HitsOf(rank, u, p) ==
  Cardinality(Relevant(rank, u, p.threshold) \cap ItemsOf(TopK(rank, u, p.k)))
SetSize(rank, u, p) == Cardinality(Relevant(rank, u, p.threshold))
OrNone(n, d) == IF d = 0 THEN Zero ELSE Frac(n, d)

PrecisionAtK(d, s, p, rank) ==
  LET Of(u) == Frac(HitsOf(rank, u, p), p.k) IN PerUser(d, s, p, Of)

RecallAtK(d, s, p, rank) ==
  LET Of(u) == OrNone(HitsOf(rank, u, p), SetSize(rank, u, p)) IN PerUser(d, s, p, Of)

(* p.beta is beta squared. *)
FBetaAtK(d, s, p, rank) ==
  LET Of(u) == LET prec  == Frac(HitsOf(rank, u, p), p.k)
                   rec   == OrNone(HitsOf(rank, u, p), SetSize(rank, u, p))
                   denom == Plus(Times(p.beta, prec), rec)
               IN IF denom = Zero THEN Zero
                  ELSE Over(Times(Plus(One, p.beta), Times(prec, rec)), denom)
  IN PerUser(d, s, p, Of)

HitRate(d, s, p, rank) ==
  LET Of(u) == IF HitsOf(rank, u, p) > 0 THEN One ELSE Zero IN PerUser(d, s, p, Of)

(* The positions of the top-k that hold a relevant item. *)
HitPositions(rank, u, p) ==
  LET top == TopK(rank, u, p.k)
  IN {i \in DOMAIN top : top[i].item \in Relevant(rank, u, p.threshold)}

(* The precision at each hit, over all relevant items. *)
MapAtK(d, s, p, rank) ==
  LET Of(u) ==
        LET hits == HitPositions(rank, u, p)
            Add(i, acc) == Plus(acc, Frac(Cardinality({j \in hits : j <= i}), i))
        IN IF SetSize(rank, u, p) = 0 THEN Zero
           ELSE Over(FoldSet(Add, Zero, hits), Whole(SetSize(rank, u, p)))
  IN PerUser(d, s, p, Of)

(* The gain of an item is that of its last row, in the order of the table. *)
GainOf(d, u, item) ==
  LET rows == RowsOfUser(d, u)
      Is(r) == r.item = item
  IN rows[SelectLastInSeq(rows, Is)].rel

Discounted(gains) == SumF([i \in DOMAIN gains |-> Times(Whole(gains[i]), Discount[i])])

IdealGains(d, u) ==
  LET rows == RowsOfUser(d, u) IN SortSeq([i \in DOMAIN rows |-> rows[i].rel], >)

(* It sorts the rows itself, and reads no threshold. *)
NdcgAtK(d, s, p, rank) ==
  LET Of(u) ==
        LET top   == TopK(rank, u, p.k)
            dcg   == Discounted([i \in DOMAIN top |-> GainOf(d, u, top[i].item)])
            ideal == IdealGains(d, u)
            idcg  == Discounted(SubSeq(ideal, 1, Min({p.k, Len(ideal)})))
        IN IF Less(Zero, idcg) THEN Over(dcg, idcg) ELSE Zero
  IN PerUser(d, s, p, Of)

MrrAtK(d, s, p, rank) ==
  LET Of(u) == LET hits == HitPositions(rank, u, p)
               IN IF hits = {} THEN Zero ELSE Frac(1, Min(hits))
  IN PerUser(d, s, p, Of)

----------------------------------------------------------------------------
(* Beyond accuracy. *)

(* _gini() of a sequence of counts. *)
Gini(counts) ==
  LET n == Len(counts)
      sorted == SortSeq(counts, <)
      total == FoldLeft(+, 0, counts)
      Add(acc, i) == acc + i * sorted[i]
  IN IF n = 0 \/ total = 0 THEN Zero
     ELSE Minus(Frac(2 * FoldLeft(Add, 0, [i \in 1..n |-> i]), n * total), Frac(n + 1, n))

(* _item_popularity_map(): the share of the reference's rows, or a default.  *)
Popularity(ref, item, default) ==
  LET rows == ref[1].rows
      n == Cardinality({i \in DOMAIN rows : rows[i].item = item})
  IN IF n = 0 THEN default ELSE Frac(n, Len(rows))

(* The map is made before the rankings, and after the check of k. *)
PopularityChecks(ref, s, p) ==
  When(s.type # "recsys", "SchemaError") \o When(ref = <<>>, "SchemaError")
  \o When(p.k < 1, "ValueError")
  \o When(ref # <<>> /\ "item" \notin ref[1].cols, "SchemaError")
  \o When(ref # <<>> /\ ref[1].rows = <<>>, "InsufficientDataError")

(* Every recommended row, of all users. *)
Recommended(d, p, rank) == {r \in Users(d) \X (1..p.k) : r[2] <= Len(rank[r[1]])}

(* The logarithms are all zero, or the mean is above zero. *)
Novelty(d, ref, s, p, rank) ==
  Guarded(PopularityChecks(ref, s, p) \o RankingChecks(d, s, p),
    Result(IF \A r \in Recommended(d, p, rank) :
                Popularity(ref, rank[r[1]][r[2]].item, Frac(1, Len(ref[1].rows))) = One
           THEN Zero ELSE Positive, Unbound))

PopularityBias(d, ref, s, p, rank) ==
  LET Of(r) == Popularity(ref, rank[r[1]][r[2]].item, Zero)
  IN Guarded(PopularityChecks(ref, s, p) \o RankingChecks(d, s, p),
             Result(MeanOfSet(Recommended(d, p, rank), Of), Unbound))

(* Mean over the pairs of users of the (squared) cosine of their items. *)
Personalization(d, s, p, rank) ==
  LET Of(u) == ItemsOf(TopK(rank, u, p.k))
      pairs == {pair \in Users(d) \X Users(d) : pair[1] # pair[2]}
      Cosine(pair) ==
        LET a == Of(pair[1])
            b == Of(pair[2])
        IN Frac(Cardinality(a \cap b) * Cardinality(a \cap b), Cardinality(a) * Cardinality(b))
  IN Ranked(d, s, p, IF pairs = {} THEN Zero ELSE Minus(One, MeanOfSet(pairs, Cosine)))

ItemBias(d, s, p, rank) ==
  LET recommended == Recommended(d, p, rank)
      items == SetToSeq({rank[r[1]][r[2]].item : r \in recommended})
  IN Ranked(d, s, p,
       Gini([i \in DOMAIN items |->
               Cardinality({r \in recommended : rank[r[1]][r[2]].item = items[i]})]))

UserBias(d, s, p, rank) ==
  LET users == SetToSeq(Users(d))
  IN Ranked(d, s, p, Gini([i \in DOMAIN users |-> Len(TopK(rank, users[i], p.k))]))

(* The features of an item: those of its first row; Null when it has none. *)
FeatureOf(d, item) ==
  LET Is(r) == r.item = item
      i == SelectInSeq(d.rows, Is)
  IN IF i = 0 THEN Null ELSE d.rows[i].feat

(* params["item_features"] lists p.features. *)
FeatureChecks(d, p) ==
  When(p.k < 1, "ValueError") \o When(p.features = {}, "SchemaError")
  \o When(~(p.features \subseteq d.cols), "SchemaError")
  \o When("item" \notin d.cols, "ColumnNotFoundError")
SchemaCheck(s) == When(s.type # "recsys", "SchemaError")

(* One minus the mean cosine of the pairs of items that have a feature. *)
Diversity(d, s, p, rank) ==
  LET Of(u) ==
        LET top   == TopK(rank, u, p.k)
            known == {i \in DOMAIN top : FeatureOf(d, top[i].item) # 0}
            pairs == {pair \in known \X known : pair[1] # pair[2]}
            Cosine(pair) == IF FeatureOf(d, top[pair[1]].item) = FeatureOf(d, top[pair[2]].item)
                            THEN One ELSE Zero
        IN IF pairs = {} THEN Zero ELSE Minus(One, MeanOfSet(pairs, Cosine))
  IN Guarded(SchemaCheck(s) \o FeatureChecks(d, p) \o RankingChecks(d, s, p),
             Result(MeanOfSet(Users(d), Of), Unbound))

(* What the reference shows of a user: the features of the items that the   *)
(* current window knows.                                                      *)
HistoryOf(d, ref, u) ==
  LET rows == ref[1].rows
      Own(r) == r.user = u /\ FeatureOf(d, r.item) \notin {0, Null}
      own == SelectSeq(rows, Own)
  IN [i \in DOMAIN own |-> FeatureOf(d, own[i].item)]

(* The (squared) cosine of an item and the user's mean vector. *)
Familiarity(past, feature) ==
  LET Square(f, acc) == acc + CountOf(past, f) * CountOf(past, f)
  IN Frac(CountOf(past, feature) * CountOf(past, feature), FoldSet(Square, 0, Range(past)))

(* Without features, or without a known history, an item is a surprise. *)
Unexpectedness(past, feature) ==
  IF feature = 0 \/ past = <<>> THEN One ELSE Minus(One, Familiarity(past, feature))

Serendipity(d, ref, s, p, rank) ==
  LET Of(u) ==
        LET top  == TopK(rank, u, p.k)
            past == HistoryOf(d, ref, u)
            Score(i) == IF top[i].item \in Relevant(rank, u, p.threshold)
                        THEN Unexpectedness(past, FeatureOf(d, top[i].item)) ELSE Zero
        IN MeanOfSet(DOMAIN top, Score)
  IN Guarded(SchemaCheck(s) \o When(ref = <<>>, "SchemaError") \o FeatureChecks(d, p)
               \o When(ref # <<>> /\ ~({"user", "item"} \subseteq ref[1].cols), "SchemaError")
               \o RankingChecks(d, s, p),
             Result(MeanOfSet(Users(d), Of), Unbound))

RankingOf(d, ref, s, p, rank) ==
  [precision |-> PrecisionAtK(d, s, p, rank), recall |-> RecallAtK(d, s, p, rank),
   fbeta |-> FBetaAtK(d, s, p, rank), hit_rate |-> HitRate(d, s, p, rank),
   map |-> MapAtK(d, s, p, rank), ndcg |-> NdcgAtK(d, s, p, rank),
   mrr |-> MrrAtK(d, s, p, rank), novelty |-> Novelty(d, ref, s, p, rank),
   popularity_bias |-> PopularityBias(d, ref, s, p, rank),
   personalization |-> Personalization(d, s, p, rank),
   item_bias |-> ItemBias(d, s, p, rank), user_bias |-> UserBias(d, s, p, rank),
   diversity |-> Diversity(d, s, p, rank), serendipity |-> Serendipity(d, ref, s, p, rank)]

----------------------------------------------------------------------------
(* interactions_from_matrix(): a matrix has its users, its items and a cell *)
(* for each pair; pred is empty for None.                                     *)

Shape(m) == <<Len(m.users), Len(m.items)>>

(* Polars labels its rows with the users of the first matrix: those of the   *)
(* second are not compared, unlike with pandas.                               *)
MatrixChecks(lib, truth, pred) ==
  IF pred = <<>> THEN <<>>
  ELSE When(Shape(truth) # Shape(pred[1]), "SchemaError")
       \o When(truth.items # pred[1].items, "SchemaError")
       \o When(lib = "pandas" /\ truth.users # pred[1].users, "SchemaError")

(* melt() and unpivot(): column after column. *)
Melted(m, users) ==
  FlattenSeq([j \in DOMAIN m.items |->
    [i \in DOMAIN users |-> [user |-> users[i], item |-> m.items[j], cell |-> m.cells[i][j]]]])

PredLong(lib, truth, pred) == Melted(pred, IF lib = "pandas" THEN pred.users ELSE truth.users)

Merged(left, right, Match(_, _)) ==
  FlattenSeq([i \in DOMAIN left |->
    LET hits == Picked(right, {j \in DOMAIN right : Match(left[i], right[j])})
    IN [n \in DOMAIN hits |-> [user |-> left[i].user, item |-> left[i].item,
                              rel |-> left[i].cell, score |-> hits[n].cell, feat |-> 0]]])

(* Mutant of Joined: on the user only. *)
JoinedByUser(lib, truth, pred) ==
  LET Same(l, r) == r.user = l.user
  IN Merged(Melted(truth, truth.users), PredLong(lib, truth, pred), Same)

(* The join on user and item: labels that repeat give a row per pair of rows. *)
Joined(lib, truth, pred) ==
  LET Same(l, r) == r.user = l.user /\ r.item = l.item
  IN Merged(Melted(truth, truth.users), PredLong(lib, truth, pred), Same)

Unscored(truth) ==
  LET left == Melted(truth, truth.users)
  IN [i \in DOMAIN left |-> [user |-> left[i].user, item |-> left[i].item,
                             rel |-> left[i].cell, score |-> 0, feat |-> 0]]

Interactions(lib, truth, pred) ==
  IF pred = <<>> THEN [cols |-> {"user", "item", "rel"}, rows |-> Unscored(truth)]
  ELSE [cols |-> {"user", "item", "rel", "score"}, rows |-> Joined(lib, truth, pred[1])]
=============================================================================
