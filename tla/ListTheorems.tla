---------------------------- MODULE ListTheorems ----------------------------
(***************************************************************************)
(* Facts about the number of occurrences of a value in a sequence, and about *)
(* the elements that are picked from it.                                     *)
(***************************************************************************)
EXTENDS Lists, SequencesExt, FiniteSetTheorems, FunctionTheorems, TLAPS

LEMMA CountUptoType ==
  ASSUME NEW n \in Nat, NEW q, NEW x
  PROVE  IsFiniteSet({k \in 1..n : q[k] = x}) /\ CountUpto(q, n, x) \in Nat
<1>1. IsFiniteSet(1..n)
  BY FS_Interval
<1>2. {k \in 1..n : q[k] = x} \in SUBSET (1..n)
  OBVIOUS
<1>3. IsFiniteSet({k \in 1..n : q[k] = x})
  BY <1>1, <1>2, FS_Subset
<1> QED
  BY <1>3, FS_CardinalityType DEF CountUpto

LEMMA CountUptoZero == ASSUME NEW q, NEW x PROVE CountUpto(q, 0, x) = 0
<1>1. {k \in 1..0 : q[k] = x} = {}
  OBVIOUS
<1> QED
  BY <1>1, FS_EmptySet DEF CountUpto

(* One more element counts if it is the value looked for. *)
LEMMA CountUptoNext ==
  ASSUME NEW n \in Nat, NEW q, NEW x
  PROVE  CountUpto(q, n + 1, x) = CountUpto(q, n, x) + (IF q[n + 1] = x THEN 1 ELSE 0)
<1> DEFINE S == {k \in 1..n : q[k] = x}
           T == {k \in 1..(n + 1) : q[k] = x}
<1>1. IsFiniteSet(S) /\ Cardinality(S) \in Nat
  BY CountUptoType DEF CountUpto
<1>2. CASE q[n + 1] = x
  <2>1. T = S \cup {n + 1} /\ n + 1 \notin S
    BY <1>2
  <2> QED
    BY <1>1, <1>2, <2>1, FS_AddElement DEF CountUpto
<1>3. CASE q[n + 1] # x
  <2>1. T = S
    BY <1>3
  <2> QED
    BY <1>1, <1>3, <2>1 DEF CountUpto
<1> QED
  BY <1>2, <1>3

LEMMA CountIsUpto ==
  ASSUME NEW U, NEW q \in Seq(U), NEW x
  PROVE  /\ Count(q, x) = CountUpto(q, Len(q), x)
         /\ Count(q, x) \in Nat
         /\ IsFiniteSet({k \in DOMAIN q : q[k] = x})
<1>1. DOMAIN q = 1..Len(q) /\ Len(q) \in Nat
  OBVIOUS
<1>2. {k \in DOMAIN q : q[k] = x} = {k \in 1..Len(q) : q[k] = x}
  BY <1>1
<1>3. IsFiniteSet({k \in 1..Len(q) : q[k] = x}) /\ CountUpto(q, Len(q), x) \in Nat
  BY <1>1, CountUptoType
<1>4. Count(q, x) = CountUpto(q, Len(q), x)
  BY <1>2 DEF Count, CountUpto
<1> QED
  BY <1>2, <1>3, <1>4

LEMMA CountEmpty == ASSUME NEW x PROVE Count(<<>>, x) = 0
<1>1. {k \in DOMAIN <<>> : <<>>[k] = x} = {}
  OBVIOUS
<1> QED
  BY <1>1, FS_EmptySet DEF Count

LEMMA CountAppend ==
  ASSUME NEW U, NEW q \in Seq(U), NEW y \in U, NEW x
  PROVE  Count(Append(q, y), x) = Count(q, x) + (IF y = x THEN 1 ELSE 0)
<1> DEFINE r == Append(q, y)
           n == Len(q)
<1>1. r \in Seq(U) /\ Len(r) = n + 1 /\ r[n + 1] = y /\ n \in Nat
  OBVIOUS
<1>2. \A k \in 1..n : r[k] = q[k]
  OBVIOUS
<1>3. {k \in 1..n : r[k] = x} = {k \in 1..n : q[k] = x}
  BY <1>2
<1>4. CountUpto(r, n, x) = CountUpto(q, n, x)
  BY <1>3 DEF CountUpto
<1>5. CountUpto(r, n + 1, x) = CountUpto(q, n, x) + (IF y = x THEN 1 ELSE 0)
  <2> HIDE DEF r, n
  <2>1. CountUpto(r, n + 1, x) = CountUpto(r, n, x) + (IF r[n + 1] = x THEN 1 ELSE 0)
    BY <1>1, CountUptoNext
  <2> QED
    BY <1>1, <1>4, <2>1, CountUptoType
<1> QED
  BY <1>1, <1>5, CountIsUpto

(* Taking the head away removes one occurrence of it. *)
LEMMA CountTail ==
  ASSUME NEW U, NEW q \in Seq(U), q # <<>>, NEW x
  PROVE  Count(q, x) = Count(Tail(q), x) + (IF Head(q) = x THEN 1 ELSE 0)
<1> DEFINE S == {k \in DOMAIN q : q[k] = x}
           T == {k \in DOMAIN Tail(q) : Tail(q)[k] = x}
           f == [k \in T |-> k + 1]
<1>1. /\ Len(q) \in Nat \ {0} /\ Tail(q) \in Seq(U) /\ Len(Tail(q)) = Len(q) - 1
      /\ DOMAIN q = 1..Len(q) /\ DOMAIN Tail(q) = 1..(Len(q) - 1) /\ Head(q) = q[1]
  OBVIOUS
<1>2. \A k \in 1..(Len(q) - 1) : Tail(q)[k] = q[k + 1]
  OBVIOUS
<1>3. IsFiniteSet(S) /\ IsFiniteSet(T)
  BY <1>1, CountIsUpto
<1>4. f \in Bijection(T, S \ {1})
  <2>1. f \in [T -> S \ {1}]
    BY <1>1, <1>2
  <2>2. \A a, b \in T : f[a] = f[b] => a = b
    BY <1>1
  <2>3. \A s \in S \ {1} : \E t \in T : f[t] = s
    <3> SUFFICES ASSUME NEW s \in S \ {1} PROVE s - 1 \in T /\ f[s - 1] = s
      OBVIOUS
    <3>1. s \in 1..Len(q) /\ s - 1 \in 1..(Len(q) - 1) /\ (s - 1) + 1 = s /\ q[s] = x
      BY <1>1
    <3> QED
      BY <1>1, <1>2, <3>1
  <2> QED
    BY <2>1, <2>2, <2>3, Fun_IsBij
<1>5. ExistsBijection(T, S \ {1})
  BY <1>4 DEF ExistsBijection
<1>6. Cardinality(S \ {1}) = Cardinality(T)
  BY <1>3, <1>5, FS_Bijection
<1>7. 1 \in S <=> Head(q) = x
  BY <1>1
<1>8. Cardinality(S \ {1}) = IF 1 \in S THEN Cardinality(S) - 1 ELSE Cardinality(S)
  BY <1>3, FS_RemoveElement
<1> QED
  <2>1. Cardinality(S) \in Nat /\ Count(q, x) = Cardinality(S)
    BY <1>3, FS_CardinalityType DEF Count
  <2>2. Count(Tail(q), x) = Cardinality(T)
    BY DEF Count
  <2> HIDE DEF S, T
  <2>3. 1 \in S => Cardinality(S) = Cardinality(T) + 1
    BY <1>6, <1>8, <2>1
  <2>4. 1 \notin S => Cardinality(S) = Cardinality(T)
    BY <1>6, <1>8
  <2> QED
    BY <1>7, <1>8, <2>1, <2>2, <2>3, <2>4

(* What occurs at most once is in one position at most, and what occurs is  *)
(* in one.                                                                   *)
LEMMA CountPositions ==
  ASSUME NEW U, NEW q \in Seq(U), NEW x
  PROVE  /\ Count(q, x) <= 1 => \A j, k \in DOMAIN q : q[j] = x /\ q[k] = x => j = k
         /\ Count(q, x) = 0 <=> \A k \in DOMAIN q : q[k] # x
<1> DEFINE S == {k \in DOMAIN q : q[k] = x}
<1>1. IsFiniteSet(S) /\ Cardinality(S) \in Nat
  BY CountIsUpto DEF Count
<1>2. Cardinality(S) = 0 <=> S = {}
  BY <1>1, FS_EmptySet
<1>3. Cardinality(S) = 1 => \E k : S = {k}
  BY <1>1, FS_Singleton
<1> QED
  BY <1>1, <1>2, <1>3 DEF Count

(* A sequence of n of the numbers 1 to n, none of them twice, has all of    *)
(* them.                                                                     *)
LEMMA CountAll ==
  ASSUME NEW n \in Nat, NEW q \in Seq(1..n), Len(q) = n,
         \A x \in 1..n : Count(q, x) <= 1
  PROVE  \A x \in 1..n : Count(q, x) = 1
<1>1. q \in [1..n -> 1..n]
  OBVIOUS
<1>2. \A j, k \in 1..n : q[j] = q[k] => j = k
  <2> SUFFICES ASSUME NEW j \in 1..n, NEW k \in 1..n, q[j] = q[k] PROVE j = k
    OBVIOUS
  <2>1. q[j] \in 1..n /\ j \in DOMAIN q /\ k \in DOMAIN q
    BY <1>1
  <2> QED
    BY <2>1, CountPositions
<1>3. q \in Injection(1..n, 1..n)
  BY <1>1, <1>2, Fun_IsInj
<1>4. q \in Surjection(1..n, 1..n)
  <2>1. IsFiniteSet(1..n)
    BY FS_Interval
  <2> QED
    BY <1>3, <2>1, FS_Injection
<1>5. \A x \in 1..n : \E k \in 1..n : q[k] = x
  BY <1>4 DEF Surjection
<1> QED
  <2> SUFFICES ASSUME NEW x \in 1..n PROVE Count(q, x) = 1
    OBVIOUS
  <2>1. Count(q, x) # 0
    BY <1>1, <1>5, CountPositions
  <2>2. Count(q, x) \in Nat
    BY CountIsUpto
  <2> QED
    BY <2>1, <2>2

----------------------------------------------------------------------------
(* Picking. *)

(* How many elements of P there are up to i. *)
Rank(P, i) == Cardinality({j \in P : j <= i})

(* A set of n integers is counted off from the least to the greatest: the   *)
(* number of elements up to each one is a bijection to 1..n.                 *)
LEMMA InOrderProperties ==
  ASSUME NEW P, P \subseteq Int, IsFiniteSet(P)
  PROVE  /\ Cardinality(P) \in Nat
         /\ InOrder(P) \in [1..Cardinality(P) -> P]
         /\ \A i \in P : \E k \in 1..Cardinality(P) : InOrder(P)[k] = i
         /\ \A j, k \in 1..Cardinality(P) : j < k => InOrder(P)[j] < InOrder(P)[k]
         /\ \A k \in 1..Cardinality(P) : Rank(P, InOrder(P)[k]) = k
<1> DEFINE n       == Cardinality(P)
           Upto(i) == {j \in P : j <= i}
           rank    == [i \in P |-> Cardinality(Upto(i))]
<1>1. n \in Nat
  BY FS_CardinalityType
<1>2. \A i \in P : IsFiniteSet(Upto(i)) /\ rank[i] \in 1..n
  <2> SUFFICES ASSUME NEW i \in P PROVE IsFiniteSet(Upto(i)) /\ rank[i] \in 1..n
    OBVIOUS
  <2>1. Upto(i) \in SUBSET P /\ i \in Upto(i)
    OBVIOUS
  <2>2. IsFiniteSet(Upto(i)) /\ Cardinality(Upto(i)) <= n
    BY <2>1, FS_Subset
  <2>3. Cardinality(Upto(i)) \in Nat /\ Cardinality(Upto(i)) # 0
    BY <2>1, <2>2, FS_CardinalityType, FS_EmptySet
  <2> QED
    BY <1>1, <2>2, <2>3
<1>3. \A i, j \in P : i < j => rank[i] < rank[j]
  <2> SUFFICES ASSUME NEW i \in P, NEW j \in P, i < j PROVE rank[i] < rank[j]
    OBVIOUS
  <2>1. Upto(i) \in SUBSET Upto(j) /\ Upto(i) # Upto(j)
    <3>1. \A x \in P : x \in Int
      OBVIOUS
    <3>2. j \in Upto(j) /\ j \notin Upto(i)
      BY <3>1
    <3>3. \A x \in P : x <= i => x <= j
      BY <3>1
    <3> QED
      BY <3>2, <3>3
  <2>2. Cardinality(Upto(i)) <= Cardinality(Upto(j)) /\ Cardinality(Upto(i)) # Cardinality(Upto(j))
    BY <1>2, <2>1, FS_Subset
  <2> QED
    BY <1>1, <1>2, <2>2
<1>4. /\ rank \in [P -> 1..n]
      /\ \A i, j \in P : rank[i] = rank[j] => i = j
  <2>1. rank \in [P -> 1..n]
    BY <1>2
  <2>2. \A i, j \in P : rank[i] = rank[j] => i = j
    BY <1>1, <1>2, <1>3
  <2> QED
    BY <2>1, <2>2
<1>5. rank \in Surjection(P, 1..n)
  <2>1. rank \in Injection(P, 1..n)
    BY <1>4, Fun_IsInj
  <2> QED
    BY <1>1, <2>1, FS_Injection, FS_Interval
<1>6. \A k \in 1..n : \E i \in P : rank[i] = k
  BY <1>5 DEF Surjection
<1>7. \A k \in 1..n : InOrder(P)[k] \in P /\ rank[InOrder(P)[k]] = k
  BY <1>6 DEF InOrder
<1>8. InOrder(P) \in [1..n -> P]
  BY <1>7 DEF InOrder
<1>9. \A i \in P : InOrder(P)[rank[i]] = i
  BY <1>2, <1>4, <1>7
<1>10. \A j, k \in 1..n : j < k => InOrder(P)[j] < InOrder(P)[k]
  <2> SUFFICES ASSUME NEW j \in 1..n, NEW k \in 1..n, j < k, ~(InOrder(P)[j] < InOrder(P)[k])
               PROVE  FALSE
    OBVIOUS
  <2> HIDE DEF rank, n
  <2>1. InOrder(P)[j] \in Int /\ InOrder(P)[k] \in Int
    BY <1>7
  <2>2. rank[InOrder(P)[k]] < rank[InOrder(P)[j]] \/ InOrder(P)[k] = InOrder(P)[j]
    BY <1>3, <1>7, <2>1
  <2>3. rank[InOrder(P)[j]] = j /\ rank[InOrder(P)[k]] = k
    BY <1>7
  <2>4. j \in Int /\ k \in Int
    BY <1>1
  <2> QED
    BY <2>2, <2>3, <2>4
<1> QED
  BY <1>1, <1>2, <1>7, <1>8, <1>9, <1>10 DEF Rank

(* A finite set of integers with a member has a least and a greatest one. *)
LEMMA LeastAndGreatest ==
  ASSUME NEW P, P \subseteq Int, IsFiniteSet(P), P # {}
  PROVE  /\ \E m \in P : \A i \in P : m <= i
         /\ \E m \in P : \A i \in P : m >= i
<1> DEFINE n == Cardinality(P)
           f == InOrder(P)
<1>1. /\ n \in Nat /\ f \in [1..n -> P]
      /\ \A i \in P : \E k \in 1..n : f[k] = i
      /\ \A j, k \in 1..n : j < k => f[j] < f[k]
  BY InOrderProperties
<1>2. n # 0
  BY FS_EmptySet
<1> HIDE DEF n, f
<1>3. f[1] \in P /\ f[n] \in P
  BY <1>1, <1>2
<1>4. \A i \in P : f[1] <= i /\ f[n] >= i
  <2> SUFFICES ASSUME NEW i \in P PROVE f[1] <= i /\ f[n] >= i
    OBVIOUS
  <2>1. PICK k \in 1..n : f[k] = i
    BY <1>1
  <2>2. k = 1 \/ 1 < k
    OBVIOUS
  <2>3. k = n \/ k < n
    BY <1>1
  <2>4. f[1] \in Int /\ f[k] \in Int /\ f[n] \in Int
    BY <1>3, <2>1
  <2> QED
    BY <1>1, <1>2, <2>1, <2>2, <2>3, <2>4
<1> QED
  BY <1>3, <1>4

(* What is picked: the elements at these positions, each once, in order. *)
LEMMA PickFacts ==
  ASSUME NEW S, NEW q \in Seq(S), NEW P, P \subseteq DOMAIN q
  PROVE  /\ Picked(q, P) \in Seq(S)
         /\ Len(Picked(q, P)) \in Nat /\ Len(Picked(q, P)) <= Len(q)
         /\ DOMAIN Picked(q, P) = 1..Len(Picked(q, P))
         /\ \A k \in DOMAIN Picked(q, P) :
              InOrder(P)[k] \in P /\ Picked(q, P)[k] = q[InOrder(P)[k]]
         /\ \A i \in P : \E k \in DOMAIN Picked(q, P) : Picked(q, P)[k] = q[i]
         /\ \A j, k \in DOMAIN Picked(q, P) : j < k => InOrder(P)[j] < InOrder(P)[k]
<1>1. DOMAIN q = 1..Len(q) /\ Len(q) \in Nat /\ IsFiniteSet(1..Len(q))
      /\ Cardinality(1..Len(q)) = Len(q)
  <2>1. DOMAIN q = 1..Len(q) /\ Len(q) \in Nat /\ Len(q) \in Int /\ 1 \in Int
    OBVIOUS
  <2>2. IsFiniteSet(1..Len(q)) /\ Cardinality(1..Len(q)) = IF 1 > Len(q) THEN 0 ELSE Len(q) - 1 + 1
    BY <2>1, FS_Interval
  <2> QED
    BY <2>1, <2>2
<1>2. IsFiniteSet(P) /\ Cardinality(P) <= Len(q) /\ P \subseteq Int
  BY <1>1, FS_Subset
<1>3. /\ Cardinality(P) \in Nat
      /\ InOrder(P) \in [1..Cardinality(P) -> P]
      /\ \A i \in P : \E k \in 1..Cardinality(P) : InOrder(P)[k] = i
      /\ \A j, k \in 1..Cardinality(P) : j < k => InOrder(P)[j] < InOrder(P)[k]
  BY <1>2, InOrderProperties
<1>4. \A k \in 1..Cardinality(P) : InOrder(P)[k] \in P /\ q[InOrder(P)[k]] \in S
  BY <1>1, <1>3
<1>5. Picked(q, P) \in Seq(S) /\ Len(Picked(q, P)) = Cardinality(P)
  BY <1>3, <1>4 DEF Picked
<1>6. DOMAIN Picked(q, P) = 1..Cardinality(P)
  BY DEF Picked
<1>7. \A k \in 1..Cardinality(P) : Picked(q, P)[k] = q[InOrder(P)[k]]
  BY DEF Picked
<1> QED
  BY <1>2, <1>3, <1>4, <1>5, <1>6, <1>7

(* f goes through the numbers of P in order. *)
GoesThrough(f, n, P) ==
  /\ f \in [1..n -> P]
  /\ \A i \in P : \E k \in 1..n : f[k] = i
  /\ \A j, k \in 1..n : j < k => f[j] < f[k]

(* There is one way to go through a finite set of integers in order. *)
LEMMA InOrderIs ==
  ASSUME NEW P, P \subseteq Int, NEW n \in Nat, NEW f, GoesThrough(f, n, P)
  PROVE  IsFiniteSet(P) /\ Cardinality(P) = n /\ \A k \in 1..n : InOrder(P)[k] = f[k]
<1>1. /\ f \in [1..n -> P] /\ \A i \in P : \E k \in 1..n : f[k] = i
      /\ \A j, k \in 1..n : j < k => f[j] < f[k]
      /\ \A i \in P : i \in Int
  BY DEF GoesThrough
<1> DEFINE Upto(i) == {j \in P : j <= i}
<1>2. \A j, k \in 1..n : f[j] \in Int /\ (f[j] <= f[k] <=> j <= k)
  <2> SUFFICES ASSUME NEW j \in 1..n, NEW k \in 1..n
               PROVE  f[j] \in Int /\ (f[j] <= f[k] <=> j <= k)
    OBVIOUS
  <2>1. f[j] \in P /\ f[k] \in P /\ j \in Int /\ k \in Int
    BY <1>1
  <2>2. (j < k => f[j] < f[k]) /\ (k < j => f[k] < f[j])
    BY <1>1
  <2>3. f[j] \in Int /\ f[k] \in Int
    BY <1>1, <2>1
  <2>4. j < k \/ j = k \/ k < j
    BY <2>1
  <2> QED
    BY <2>1, <2>2, <2>3, <2>4
<1>3. ASSUME NEW k \in 0..n, NEW S, S = {f[j] : j \in 1..k}
      PROVE  IsFiniteSet(S) /\ Cardinality(S) = k
  <2> DEFINE g == [j \in 1..k |-> f[j]]
  <2>1. \A i, j \in 1..k : f[i] = f[j] => i = j
    <3>1. \A i, j \in 1..k : f[i] = f[j] => i <= j /\ j <= i
      BY <1>2
    <3> QED
      BY <3>1
  <2>2. g \in Bijection(1..k, S)
    <3>1. g \in [1..k -> S] /\ \A y \in S : \E j \in 1..k : g[j] = y
      BY <1>3
    <3>2. \A i, j \in 1..k : g[i] = g[j] => i = j
      BY <2>1
    <3> HIDE DEF g
    <3> QED
      BY <3>1, <3>2, Fun_IsBij
  <2>3. IsFiniteSet(1..k) /\ Cardinality(1..k) = k
    BY FS_Interval
  <2>4. ExistsBijection(1..k, S)
    BY <2>2 DEF ExistsBijection
  <2> QED
    BY <2>3, <2>4, FS_Bijection
<1>4. \A k \in 1..n : Upto(f[k]) = {f[j] : j \in 1..k}
  <2> SUFFICES ASSUME NEW k \in 1..n PROVE Upto(f[k]) = {f[j] : j \in 1..k}
    OBVIOUS
  <2>1. \A j \in 1..n : j \in 1..k <=> j <= k
    OBVIOUS
  <2>2. 1..k \subseteq 1..n
    OBVIOUS
  <2>3. ASSUME NEW i \in Upto(f[k]) PROVE i \in {f[j] : j \in 1..k}
    <3>1. PICK j \in 1..n : f[j] = i
      BY <1>1
    <3>2. j <= k
      BY <1>2, <3>1
    <3> QED
      BY <2>1, <3>1, <3>2
  <2>4. ASSUME NEW j \in 1..k PROVE f[j] \in Upto(f[k])
    BY <1>1, <1>2, <2>1, <2>2
  <2> QED
    BY <2>3, <2>4
<1>5. IsFiniteSet(P) /\ Cardinality(P) = n
  <2>1. P = {f[j] : j \in 1..n}
    BY <1>1
  <2>2. n \in 0..n
    OBVIOUS
  <2> QED
    BY <1>3, <2>1, <2>2
<1>6. \A k \in 1..n : Cardinality(Upto(f[k])) = k
  <2> SUFFICES ASSUME NEW k \in 1..n PROVE Cardinality(Upto(f[k])) = k
    OBVIOUS
  <2>1. k \in 0..n /\ Upto(f[k]) = {f[j] : j \in 1..k}
    BY <1>4
  <2> QED
    BY <1>3, <2>1
<1> HIDE DEF Upto
<1>7. ASSUME NEW k \in 1..n PROVE InOrder(P)[k] = f[k]
  <2> DEFINE i == CHOOSE x \in P : Cardinality(Upto(x)) = k
  <2>1. InOrder(P)[k] = i
    BY <1>5 DEF InOrder, Upto
  <2>2. i \in P /\ Cardinality(Upto(i)) = k
    BY <1>1, <1>6
  <2> HIDE DEF i
  <2>3. PICK m \in 1..n : f[m] = i
    BY <1>1, <2>2
  <2> QED
    BY <1>6, <2>1, <2>2, <2>3
<1> QED
  BY <1>5, <1>7

LEMMA SameLists ==
  ASSUME NEW S, NEW q \in Seq(S), NEW r \in Seq(S), Len(q) = Len(r),
         \A k \in 1..Len(q) : q[k] = r[k]
  PROVE  q = r
  OBVIOUS

LEMMA PickedGoes ==
  ASSUME NEW S, NEW q \in Seq(S), NEW P, P \subseteq DOMAIN q
  PROVE  /\ Picked(q, P) \in Seq(S) /\ Len(Picked(q, P)) \in Nat
         /\ GoesThrough(InOrder(P), Len(Picked(q, P)), P)
         /\ \A k \in 1..Len(Picked(q, P)) : Picked(q, P)[k] = q[InOrder(P)[k]]
<1>1. DOMAIN q = 1..Len(q) /\ Len(q) \in Int /\ 1 \in Int /\ P \subseteq Int
  OBVIOUS
<1>2. IsFiniteSet(P)
  BY <1>1, FS_Interval, FS_Subset
<1>3. Picked(q, P) \in Seq(S) /\ DOMAIN Picked(q, P) = 1..Cardinality(P)
  BY PickFacts DEF Picked
<1>4. Cardinality(P) \in Nat
  BY <1>2, FS_CardinalityType
<1>5. Len(Picked(q, P)) = Cardinality(P)
  BY <1>3, <1>4
<1>6. GoesThrough(InOrder(P), Cardinality(P), P)
  BY <1>1, <1>2, InOrderProperties DEF GoesThrough
<1>7. \A k \in 1..Cardinality(P) : Picked(q, P)[k] = q[InOrder(P)[k]]
  BY DEF Picked
<1> QED
  BY <1>3, <1>4, <1>5, <1>6, <1>7

LEMMA PickedIs ==
  ASSUME NEW S, NEW q \in Seq(S), NEW P, P \subseteq DOMAIN q,
         NEW f, NEW p \in Seq(S), GoesThrough(f, Len(p), P),
         \A k \in 1..Len(p) : p[k] = q[f[k]]
  PROVE  Picked(q, P) = p
<1>1. P \subseteq Int /\ Len(p) \in Nat
  OBVIOUS
<1>2. Cardinality(P) = Len(p) /\ \A k \in 1..Len(p) : InOrder(P)[k] = f[k]
  BY <1>1, InOrderIs
<1>3. Picked(q, P) \in Seq(S) /\ DOMAIN Picked(q, P) = 1..Len(p)
  BY <1>2, PickFacts DEF Picked
<1>4. Len(Picked(q, P)) = Len(p)
  BY <1>1, <1>3
<1>5. \A k \in 1..Len(p) : Picked(q, P)[k] = p[k]
  BY <1>2 DEF Picked
<1> QED
  BY <1>3, <1>4, <1>5, SameLists

LEMMA PickedNone == ASSUME NEW q PROVE Picked(q, {}) = <<>>
  BY FS_EmptySet DEF Picked

LEMMA PickedAll ==
  ASSUME NEW S, NEW q \in Seq(S)
  PROVE  Picked(q, DOMAIN q) = q
<1> DEFINE f == [k \in DOMAIN q |-> k]
<1>1. GoesThrough(f, Len(q), DOMAIN q)
  BY DEF GoesThrough
<1>2. \A k \in 1..Len(q) : q[k] = q[f[k]]
  OBVIOUS
<1> HIDE DEF f
<1> QED
  BY <1>1, <1>2, PickedIs

(* c is q followed by r, and R the positions P of q and Q of r in it. *)
Follows(q, P, r, Q, c, R) ==
  /\ P \subseteq DOMAIN q /\ Q \subseteq DOMAIN r
  /\ c = q \o r /\ R \subseteq DOMAIN c
  /\ \A i \in DOMAIN q : i \in R <=> i \in P
  /\ \A i \in DOMAIN r : Len(q) + i \in R <=> i \in Q

LEMMA PickedConcat ==
  ASSUME NEW S, NEW q \in Seq(S), NEW r \in Seq(S),
         NEW P, NEW Q, NEW c, NEW R, Follows(q, P, r, Q, c, R)
  PROVE  Picked(c, R) = Picked(q, P) \o Picked(r, Q)
<1> DEFINE p == Picked(q, P)
           s == Picked(r, Q)
           a == Len(p)
           b == Len(s)
           m == Len(q)
           g == InOrder(P)
           h == InOrder(Q)
           d == p \o s
           f == [k \in 1..(a + b) |-> IF k <= a THEN g[k] ELSE m + h[k - a]]
<1>1. /\ P \subseteq DOMAIN q /\ Q \subseteq DOMAIN r
      /\ c = q \o r /\ R \subseteq DOMAIN c
      /\ \A i \in DOMAIN q : i \in R <=> i \in P
      /\ \A i \in DOMAIN r : Len(q) + i \in R <=> i \in Q
  BY DEF Follows
<1>2. p \in Seq(S) /\ a \in Nat /\ GoesThrough(g, a, P) /\ \A k \in 1..a : p[k] = q[g[k]]
  BY <1>1, PickedGoes
<1>3. s \in Seq(S) /\ b \in Nat /\ GoesThrough(h, b, Q) /\ \A k \in 1..b : s[k] = r[h[k]]
  BY <1>1, PickedGoes
<1>4. /\ c \in Seq(S) /\ m \in Nat /\ P \subseteq 1..m /\ Q \subseteq 1..Len(r)
      /\ Len(r) \in Nat /\ DOMAIN c = 1..(m + Len(r))
      /\ \A i \in 1..m : c[i] = q[i]
      /\ \A i \in 1..Len(r) : c[m + i] = r[i]
  BY <1>1
<1>5. /\ R \subseteq 1..(m + Len(r))
      /\ \A i \in 1..m : i \in R <=> i \in P
      /\ \A i \in 1..Len(r) : m + i \in R <=> i \in Q
  BY <1>1, <1>4
<1> HIDE DEF p, s, g, h, m
<1>6. \A i \in R : i \in P \/ \E j \in Q : i = m + j
  <2>1. \A i \in 1..(m + Len(r)) : i \in 1..m \/ (i - m \in 1..Len(r) /\ i = m + (i - m))
    BY <1>4
  <2> QED
    BY <1>5, <2>1
<1>7. P \subseteq R /\ \A j \in Q : m + j \in R
  BY <1>4, <1>5
<1>8. /\ d \in Seq(S) /\ Len(d) = a + b
      /\ \A k \in 1..a : d[k] = p[k]
      /\ \A k \in 1..b : d[a + k] = s[k]
  BY <1>2, <1>3
<1> HIDE DEF a, b, d
<1>9. \A k \in 1..(a + b) : k \in 1..a \/ (k - a \in 1..b /\ a + (k - a) = k /\ ~(k <= a))
  BY <1>2, <1>3
<1>10. /\ \A k \in 1..a : k \in 1..(a + b) /\ k <= a
       /\ \A k \in 1..b : a + k \in 1..(a + b) /\ ~(a + k <= a) /\ (a + k) - a = k
  BY <1>2, <1>3
<1>11. /\ \A k \in 1..a : f[k] = g[k] /\ g[k] \in P
       /\ \A k \in 1..b : f[a + k] = m + h[k] /\ h[k] \in Q
  BY <1>2, <1>3, <1>10 DEF GoesThrough
<1>12. DOMAIN f = 1..(a + b) /\ f = [k \in 1..(a + b) |-> f[k]]
  OBVIOUS
<1> HIDE DEF f
<1>13. GoesThrough(f, a + b, R)
  <2>1. f \in [1..(a + b) -> R]
    <3>1. /\ \A k \in 1..a : f[k] \in R
          /\ \A k \in 1..b : f[a + k] \in R
      BY <1>7, <1>11
    <3>2. \A k \in 1..(a + b) : f[k] \in R
      BY <1>9, <3>1
    <3> QED
      BY <1>12, <3>2
  <2>2. ASSUME NEW i \in R PROVE \E k \in 1..(a + b) : f[k] = i
    <3>1. CASE i \in P
      BY <1>2, <1>10, <1>11, <3>1 DEF GoesThrough
    <3>2. ASSUME NEW j \in Q, i = m + j PROVE \E k \in 1..(a + b) : f[k] = i
      <4>1. PICK k \in 1..b : h[k] = j
        BY <1>3 DEF GoesThrough
      <4> QED
        BY <1>10, <1>11, <3>2, <4>1
    <3> QED
      BY <1>6, <3>1, <3>2
  <2>3. ASSUME NEW j \in 1..(a + b), NEW k \in 1..(a + b), j < k PROVE f[j] < f[k]
    <3>1. CASE k \in 1..a
      <4>1. j \in 1..a
        BY <1>2, <2>3, <3>1
      <4> QED
        BY <1>2, <1>11, <2>3, <3>1, <4>1 DEF GoesThrough
    <3>2. ASSUME j \in 1..a, NEW l \in 1..b, k = a + l PROVE f[j] < f[k]
      <4>1. f[j] \in 1..m /\ f[k] = m + h[l] /\ h[l] \in 1..Len(r)
        BY <1>4, <1>11, <3>2
      <4> QED
        BY <1>4, <4>1
    <3>3. ASSUME NEW i \in 1..b, j = a + i, NEW l \in 1..b, k = a + l PROVE f[j] < f[k]
      <4>1. i < l
        BY <1>2, <2>3, <3>3
      <4>2. h[i] < h[l] /\ h[i] \in 1..Len(r) /\ h[l] \in 1..Len(r)
        BY <1>3, <1>4, <1>11, <4>1 DEF GoesThrough
      <4>3. f[j] = m + h[i] /\ f[k] = m + h[l]
        BY <1>11, <3>3
      <4> QED
        BY <1>4, <4>2, <4>3
    <3> QED
      BY <1>9, <3>1, <3>2, <3>3
  <2> QED
    BY <2>1, <2>2, <2>3 DEF GoesThrough
<1>14. \A k \in 1..(a + b) : d[k] = c[f[k]]
  <2>1. ASSUME NEW k \in 1..a PROVE d[k] = c[f[k]]
    <3>1. d[k] = q[g[k]] /\ f[k] = g[k]
      BY <1>2, <1>8, <1>11
    <3>2. g[k] \in 1..m
      BY <1>4, <1>11
    <3> QED
      BY <1>4, <3>1, <3>2
  <2>2. ASSUME NEW k \in 1..b PROVE d[a + k] = c[f[a + k]]
    <3>1. d[a + k] = r[h[k]] /\ f[a + k] = m + h[k]
      BY <1>3, <1>8, <1>11
    <3>2. h[k] \in 1..Len(r)
      BY <1>4, <1>11
    <3> QED
      BY <1>4, <3>1, <3>2
  <2> QED
    BY <1>9, <2>1, <2>2
<1>15. GoesThrough(f, Len(d), R) /\ \A k \in 1..Len(d) : d[k] = c[f[k]]
  BY <1>8, <1>13, <1>14
<1>16. Picked(c, R) = d
  BY <1>1, <1>4, <1>8, <1>15, PickedIs
<1> QED
  BY <1>16 DEF p, s, d

(* What is picked from what was picked. *)
LEMMA PickedAgain ==
  ASSUME NEW S, NEW q \in Seq(S), NEW P, P \subseteq DOMAIN q,
         NEW Q, Q \subseteq DOMAIN Picked(q, P), NEW R, R \subseteq P,
         \A k \in DOMAIN Picked(q, P) : k \in Q <=> InOrder(P)[k] \in R
  PROVE  Picked(Picked(q, P), Q) = Picked(q, R)
<1> DEFINE p == Picked(q, P)
           s == Picked(p, Q)
           a == Len(p)
           b == Len(s)
           g == InOrder(P)
           h == InOrder(Q)
           f == [k \in 1..b |-> g[h[k]]]
<1>1. p \in Seq(S) /\ a \in Nat /\ GoesThrough(g, a, P) /\ \A k \in 1..a : p[k] = q[g[k]]
  BY PickedGoes
<1>2. DOMAIN p = 1..a
  BY <1>1
<1>3. /\ \A k \in Q : g[k] \in R
      /\ \A i \in R : \E k \in Q : g[k] = i
  <2>1. \A i \in P : \E k \in DOMAIN p : g[k] = i
    BY <1>1, <1>2 DEF GoesThrough
  <2> QED
    BY <2>1
<1> HIDE DEF p, g, a
<1>4. Q \subseteq DOMAIN p
  BY DEF p
<1>5. s \in Seq(S) /\ b \in Nat /\ GoesThrough(h, b, Q) /\ \A k \in 1..b : s[k] = p[h[k]]
  BY <1>1, <1>4, PickedGoes
<1> HIDE DEF s, h, b
<1>6. \A k \in 1..b : h[k] \in Q /\ h[k] \in 1..a
  BY <1>2, <1>4, <1>5 DEF GoesThrough
<1>7. \A k \in 1..b : f[k] = g[h[k]] /\ f[k] \in R
  BY <1>3, <1>6
<1>8. R \subseteq DOMAIN q
  OBVIOUS
<1>9. f = [k \in 1..b |-> f[k]] /\ DOMAIN f = 1..b
  OBVIOUS
<1> HIDE DEF f
<1>10. \A i \in R : \E k \in 1..b : f[k] = i
  <2> SUFFICES ASSUME NEW i \in R PROVE \E k \in 1..b : f[k] = i
    OBVIOUS
  <2>1. PICK j \in Q : g[j] = i
    BY <1>3
  <2>2. PICK k \in 1..b : h[k] = j
    BY <1>5 DEF GoesThrough
  <2> QED
    BY <1>7, <2>2, <2>1
<1>11. \A j, k \in 1..b : j < k => f[j] < f[k]
  <2> SUFFICES ASSUME NEW j \in 1..b, NEW k \in 1..b, j < k PROVE f[j] < f[k]
    OBVIOUS
  <2>1. h[j] < h[k]
    BY <1>5 DEF GoesThrough
  <2> QED
    BY <1>1, <1>6, <1>7, <2>1 DEF GoesThrough
<1>12. GoesThrough(f, b, R)
  BY <1>7, <1>9, <1>10, <1>11 DEF GoesThrough
<1>13. \A k \in 1..b : s[k] = q[f[k]]
  BY <1>1, <1>5, <1>6, <1>7
<1>14. Picked(q, R) = s
  BY <1>5, <1>8, <1>12, <1>13, PickedIs DEF b
<1> QED
  BY <1>14 DEF p, s

----------------------------------------------------------------------------
(* Joining. *)

(* Induction over the numbers up to n: a set of them that has 0, and with    *)
(* each its successor, has them all.                                          *)
LEMMA Upwards ==
  ASSUME NEW n \in Nat, NEW G, 0 \in G, \A k \in 0..n : k # 0 /\ k - 1 \in G => k \in G
  PROVE  0..n \subseteq G
<1> DEFINE B == {k \in 0..n : k \notin G}
<1> SUFFICES ASSUME B # {} PROVE FALSE
  OBVIOUS
<1>1. B \subseteq Int /\ B \subseteq 0..n /\ IsFiniteSet(0..n)
  BY FS_Interval
<1>2. IsFiniteSet(B)
  BY <1>1, FS_Subset
<1>3. PICK m \in B : \A k \in B : m <= k
  BY <1>1, <1>2, LeastAndGreatest
<1>4. m \in 0..n /\ m \notin G /\ m # 0
  OBVIOUS
<1>5. m - 1 \in 0..n /\ ~(m <= m - 1)
  BY <1>4
<1>6. m - 1 \in G
  BY <1>3, <1>5
<1> QED
  BY <1>4, <1>6

(* The sequences of qs, one after another: the first k of them, and all. *)
Joined(qs) ==
  LET joined[k \in 0..Len(qs)] == IF k = 0 THEN <<>> ELSE joined[k - 1] \o qs[k]
  IN  joined

Concat(qs) == Joined(qs)[Len(qs)]

(* q \o r, and h the joined sequences of qs up to the n-th. *)
Then(q, r) == q \o r
Joins(h, qs, n) == h = [k \in 0..n |-> IF k = 0 THEN <<>> ELSE Then(h[k - 1], qs[k])]

LEMMA JoinedIs ==
  ASSUME NEW qs, Len(qs) \in Nat
  PROVE  /\ Joined(qs)[0] = <<>>
         /\ \A k \in 1..Len(qs) : Joined(qs)[k] = Then(Joined(qs)[k - 1], qs[k])
<1> DEFINE n == Len(qs)
           G == {k \in 0..n : \E h : Joins(h, qs, k)}
<1>1. 0 \in G
  <2> DEFINE h == [k \in 0..0 |-> <<>>]
  <2>1. h = [k \in 0..0 |-> IF k = 0 THEN <<>> ELSE Then(h[k - 1], qs[k])]
    OBVIOUS
  <2> HIDE DEF h
  <2>2. Joins(h, qs, 0)
    BY <2>1 DEF Joins
  <2> QED
    BY <2>2
<1>2. ASSUME NEW m \in 0..n, m # 0, m - 1 \in G PROVE m \in G
  <2>1. PICK h : Joins(h, qs, m - 1)
    BY <1>2
  <2> DEFINE g == [k \in 0..m |-> IF k = m THEN Then(h[m - 1], qs[m]) ELSE h[k]]
  <2>2. ASSUME NEW k \in 0..(m - 1)
        PROVE  h[k] = IF k = 0 THEN <<>> ELSE Then(h[k - 1], qs[k])
    BY <2>1 DEF Joins
  <2>3. ASSUME NEW k \in 0..m PROVE g[k] = IF k = 0 THEN <<>> ELSE Then(g[k - 1], qs[k])
    <3>1. CASE k = 0
      BY <1>2, <2>2, <3>1
    <3>2. CASE k = m
      BY <1>2, <3>2
    <3>3. CASE k # 0 /\ k # m
      <4>1. k \in 0..(m - 1) /\ k - 1 \in 0..m /\ k - 1 # m
        BY <3>3
      <4> QED
        BY <2>2, <3>3, <4>1
    <3> QED
      BY <3>1, <3>2, <3>3
  <2>4. g = [k \in 0..m |-> g[k]]
    OBVIOUS
  <2> HIDE DEF g
  <2>5. Joins(g, qs, m)
    BY <2>3, <2>4 DEF Joins
  <2> QED
    BY <2>5
<1> HIDE DEF G
<1>3. n \in G
  <2>1. 0..n \subseteq G
    BY <1>1, <1>2, Upwards
  <2>2. n \in 0..n
    OBVIOUS
  <2> QED
    BY <2>1, <2>2
<1>4. \E h : Joins(h, qs, n)
  BY <1>3 DEF G
<1>5. Joins(Joined(qs), qs, n)
  BY <1>4 DEF Joined, Joins, Then
<1> DEFINE J == Joined(qs)
<1> HIDE DEF J
<1>6. ASSUME NEW k \in 0..n PROVE J[k] = IF k = 0 THEN <<>> ELSE Then(J[k - 1], qs[k])
  BY <1>5 DEF Joins, J
<1> QED
  BY <1>6 DEF J

(* FlattenSeq joins. *)
LEMMA FlattenIsConcat ==
  ASSUME NEW S, NEW qs \in Seq(Seq(S))
  PROVE  FlattenSeq(qs) = Concat(qs)
<1> DEFINE n == Len(qs)
           J == Joined(qs)
           flatten[i \in 1..n] == IF i = 1 THEN qs[i] ELSE flatten[i - 1] \o qs[i]
           f == flatten
           g == [i \in 1..n |-> J[i]]
           Flats(h) == h = [i \in 1..n |-> IF i = 1 THEN qs[i] ELSE Then(h[i - 1], qs[i])]
           G == {k \in 0..n : k = 0 \/ f[k] = J[k]}
<1>1. n \in Nat /\ J[0] = <<>> /\ \A k \in 1..n : J[k] = Then(J[k - 1], qs[k])
  BY JoinedIs
<1>2. CASE n = 0
  BY <1>1, <1>2 DEF FlattenSeq, Concat
<1>3. CASE n # 0
  <2>1. FlattenSeq(qs) = f[n]
    BY <1>3 DEF FlattenSeq
  <2>2. f = CHOOSE h : Flats(h)
    BY DEF Then
  <2>3. \A q \in Seq(S) : Then(<<>>, q) = q
    BY DEF Then
  <2>4. \A k \in 1..n : qs[k] \in Seq(S)
    OBVIOUS
  <2> HIDE DEF f, flatten, J, n
  <2>5. Flats(g)
    <3>1. \A i \in 1..n : i # 1 => i - 1 \in 1..n
      BY <1>1
    <3>2. J[1] = qs[1]
      BY <1>1, <1>3, <2>3, <2>4
    <3> QED
      BY <1>1, <3>1, <3>2
  <2>6. Flats(f)
    <3> HIDE DEF Flats
    <3> QED
      BY <2>2, <2>5
  <2>7. \A i \in 1..n : f[i] = IF i = 1 THEN qs[i] ELSE Then(f[i - 1], qs[i])
    BY <2>6
  <2>8. ASSUME NEW k \in 0..n, k # 0, k - 1 \in G PROVE k \in G
    <3>1. k \in 1..n /\ (k # 1 => f[k - 1] = J[k - 1])
      BY <1>1, <2>8
    <3>2. J[1] = qs[1]
      BY <1>1, <1>3, <2>3, <2>4
    <3> QED
      BY <1>1, <2>7, <3>1, <3>2
  <2> HIDE DEF G
  <2>9. 0..n \subseteq G
    <3>1. 0 \in G
      BY <1>1 DEF G
    <3> QED
      BY <1>1, <2>8, <3>1, Upwards
  <2>10. f[n] = J[n]
    BY <1>1, <1>3, <2>9 DEF G
  <2> QED
    BY <2>1, <2>10 DEF Concat, J, n
<1> QED
  BY <1>2, <1>3

(* x is an element of one of the sequences of qs from the lo-th to the hi-th. *)
ComesFrom(x, qs, lo, hi) == \E j \in lo..hi : \E i \in DOMAIN qs[j] : x = qs[j][i]

(* The first of the joined sequences come first, and the others after them.  *)
LEMMA JoinedFacts ==
  ASSUME NEW S, NEW qs, Len(qs) \in Nat, \A k \in 1..Len(qs) : qs[k] \in Seq(S)
  PROVE  /\ \A k \in 0..Len(qs) : /\ Joined(qs)[k] \in Seq(S) /\ Len(Joined(qs)[k]) \in Nat
                                  /\ Len(Joined(qs)[k]) <= Len(Concat(qs))
         /\ \A k \in 1..Len(qs) : Len(Joined(qs)[k]) = Len(Joined(qs)[k - 1]) + Len(qs[k])
         /\ \A k \in 0..Len(qs) :
              /\ \A i \in 1..Len(Joined(qs)[k]) : ComesFrom(Concat(qs)[i], qs, 1, k)
              /\ \A i \in (Len(Joined(qs)[k]) + 1)..Len(Concat(qs)) :
                   ComesFrom(Concat(qs)[i], qs, k + 1, Len(qs))
<1> DEFINE n    == Len(qs)
           J    == Joined(qs)
           a    == [k \in 0..n |-> Len(J[k])]
           Parted(k, m) == /\ a[k] <= a[m]
                           /\ \A i \in 1..a[k] : ComesFrom(J[m][i], qs, 1, k)
                           /\ \A i \in (a[k] + 1)..a[m] : ComesFrom(J[m][i], qs, k + 1, m)
           G    == {k \in 0..n : J[k] \in Seq(S)}
           H    == {m \in 0..n : \A k \in 0..m : Parted(k, m)}
<1>1. J[0] = <<>> /\ \A k \in 1..n : J[k] = Then(J[k - 1], qs[k])
  BY JoinedIs
<1> HIDE DEF J
<1>2. \A k \in 0..n : J[k] \in Seq(S)
  <2>1. 0 \in G
    <3>1. <<>> \in Seq(S)
      OBVIOUS
    <3>2. J[0] = <<>>
      BY <1>1
    <3>3. J[0] \in Seq(S)
      BY <3>1, <3>2
    <3> QED
      BY <3>3
  <2>2. ASSUME NEW k \in 0..n, k # 0, k - 1 \in G PROVE k \in G
    <3>1. J[k - 1] \in Seq(S) /\ qs[k] \in Seq(S)
      BY <2>2
    <3>2. J[k] = Then(J[k - 1], qs[k])
      BY <1>1, <2>2
    <3>3. \A q, r \in Seq(S) : Then(q, r) \in Seq(S)
      BY DEF Then
    <3> QED
      BY <2>2, <3>1, <3>2, <3>3
  <2> HIDE DEF G
  <2>3. 0..n \subseteq G
    BY <2>1, <2>2, Upwards
  <2> QED
    BY <2>3 DEF G
<1>3. \A k \in 0..n : a[k] \in Nat /\ a[k] = Len(J[k])
  BY <1>2
<1>4. ASSUME NEW k \in 1..n
      PROVE  /\ Len(qs[k]) \in Nat /\ a[k] = a[k - 1] + Len(qs[k])
             /\ \A i \in 1..a[k - 1] : J[k][i] = J[k - 1][i]
             /\ \A i \in (a[k - 1] + 1)..a[k] : ComesFrom(J[k][i], qs, k, k)
  <2>1. J[k] = Then(J[k - 1], qs[k]) /\ J[k - 1] \in Seq(S) /\ qs[k] \in Seq(S)
    <3>1. k \in 0..n /\ k - 1 \in 0..n
      OBVIOUS
    <3> QED
      BY <1>1, <1>2, <3>1
  <2>2. ASSUME NEW q \in Seq(S), NEW r \in Seq(S)
        PROVE  /\ Len(q) \in Nat /\ Len(r) \in Nat /\ Len(Then(q, r)) = Len(q) + Len(r)
               /\ \A i \in 1..Len(q) : Then(q, r)[i] = q[i]
               /\ \A i \in (Len(q) + 1)..(Len(q) + Len(r)) :
                    Then(q, r)[i] = r[i - Len(q)] /\ i - Len(q) \in DOMAIN r
    BY DEF Then
  <2> DEFINE q == J[k - 1]
             r == qs[k]
             s == J[k]
             d == Len(q)
  <2>3. s = Then(q, r) /\ q \in Seq(S) /\ r \in Seq(S)
    BY <2>1
  <2>4. a[k - 1] = d /\ a[k] = Len(s)
    <3>1. k \in 0..n /\ k - 1 \in 0..n
      OBVIOUS
    <3> QED
      BY <1>3, <3>1
  <2> HIDE DEF q, r, s, d
  <2>5. /\ Len(r) \in Nat /\ Len(s) = d + Len(r)
        /\ \A i \in 1..d : s[i] = q[i]
        /\ \A i \in (d + 1)..(d + Len(r)) : s[i] = r[i - d] /\ i - d \in DOMAIN r
    BY <2>2, <2>3 DEF d
  <2>6. \A i \in (d + 1)..(d + Len(r)) : ComesFrom(s[i], qs, k, k)
    <3>1. k \in k..k
      OBVIOUS
    <3> QED
      BY <2>5, <3>1 DEF ComesFrom, r
  <2> QED
    BY <2>4, <2>5, <2>6 DEF q, r, s
<1> HIDE DEF a
<1>5. \A m \in 0..n : \A k \in 0..m : Parted(k, m)
  <2>1. 0 \in H
    <3>1. a[0] = 0
      BY <1>1 DEF a
    <3> QED
      BY <3>1
  <2>2. ASSUME NEW m \in 0..n, m # 0, m - 1 \in H PROVE m \in H
    <3> SUFFICES ASSUME NEW k \in 0..m PROVE Parted(k, m)
      OBVIOUS
    <3>1. \A l \in 0..(m - 1) : Parted(l, m - 1)
      BY <2>2
    <3>2. m \in 1..n /\ m - 1 \in 0..n
      BY <2>2
    <3>3. /\ a[m - 1] \in Nat /\ a[m] \in Nat /\ a[m - 1] <= a[m]
          /\ \A i \in 1..a[m - 1] : J[m][i] = J[m - 1][i]
          /\ \A i \in (a[m - 1] + 1)..a[m] : ComesFrom(J[m][i], qs, m, m)
      BY <1>3, <1>4, <3>2
    <3>4. \A x : \A lo \in 1..m : ComesFrom(x, qs, lo, m - 1) => ComesFrom(x, qs, lo, m)
      BY DEF ComesFrom
    <3>5. \A x : \A lo \in 1..m : ComesFrom(x, qs, m, m) => ComesFrom(x, qs, lo, m)
      BY DEF ComesFrom
    <3>6. CASE k = m
      <4>1. \A i \in 1..a[m - 1] : ComesFrom(J[m - 1][i], qs, 1, m - 1)
        BY <3>1, <3>2
      <4>2. \A i \in 1..a[m] : ComesFrom(J[m][i], qs, 1, m)
        <5> SUFFICES ASSUME NEW i \in 1..a[m] PROVE ComesFrom(J[m][i], qs, 1, m)
          OBVIOUS
        <5>1. i \in 1..a[m - 1] \/ i \in (a[m - 1] + 1)..a[m]
          BY <3>3
        <5> QED
          BY <3>2, <3>3, <3>4, <3>5, <4>1, <5>1
      <4>3. a[m] <= a[m] /\ (a[m] + 1)..a[m] = {}
        BY <3>3
      <4> QED
        BY <3>6, <4>2, <4>3
    <3>7. CASE k # m
      <4>1. k \in 0..(m - 1) /\ k \in 0..n /\ k + 1 \in 1..m
        BY <3>2, <3>7
      <4>2. /\ a[k] \in Nat /\ a[k] <= a[m - 1]
            /\ \A i \in 1..a[k] : ComesFrom(J[m - 1][i], qs, 1, k)
            /\ \A i \in (a[k] + 1)..a[m - 1] : ComesFrom(J[m - 1][i], qs, k + 1, m - 1)
        BY <1>3, <3>1, <4>1
      <4>3. a[k] <= a[m] /\ \A i \in 1..a[k] : ComesFrom(J[m][i], qs, 1, k)
        BY <3>3, <4>2
      <4>4. \A i \in (a[k] + 1)..a[m] : ComesFrom(J[m][i], qs, k + 1, m)
        <5> SUFFICES ASSUME NEW i \in (a[k] + 1)..a[m] PROVE ComesFrom(J[m][i], qs, k + 1, m)
          OBVIOUS
        <5>1. \/ i \in (a[k] + 1)..a[m - 1] /\ i \in 1..a[m - 1]
              \/ i \in (a[m - 1] + 1)..a[m]
          BY <3>3, <4>2
        <5> QED
          BY <3>3, <3>4, <3>5, <4>1, <4>2, <5>1
      <4> QED
        BY <4>3, <4>4
    <3> QED
      BY <3>6, <3>7
  <2> HIDE DEF H
  <2>3. 0..n \subseteq H
    BY <2>1, <2>2, Upwards
  <2> QED
    BY <2>3 DEF H
<1> HIDE DEF Parted
<1>6. \A k \in 0..n : Parted(k, n) /\ n \in 0..n
  BY <1>5
<1>7. \A k \in 0..n : a[k] = Len(J[k]) /\ a[n] = Len(J[n])
  BY <1>3
<1>8. \A k \in 0..n : /\ Len(J[k]) \in Nat /\ Len(J[k]) <= Len(J[n])
                      /\ \A i \in 1..Len(J[k]) : ComesFrom(J[n][i], qs, 1, k)
                      /\ \A i \in (Len(J[k]) + 1)..Len(J[n]) : ComesFrom(J[n][i], qs, k + 1, n)
  BY <1>3, <1>6, <1>7 DEF Parted
<1>9. \A k \in 1..n : Len(J[k]) = Len(J[k - 1]) + Len(qs[k])
  <2> SUFFICES ASSUME NEW k \in 1..n PROVE Len(J[k]) = Len(J[k - 1]) + Len(qs[k])
    OBVIOUS
  <2>1. k \in 0..n /\ k - 1 \in 0..n
    OBVIOUS
  <2> QED
    BY <1>4, <1>7, <2>1
<1> QED
  BY <1>2, <1>8, <1>9 DEF J, Concat

(* The i-th element of the j-th sequence of qs is the x-th of the joined ones. *)
IsAt(qs, x, j, i) ==
  /\ j \in 1..Len(qs) /\ i \in 1..Len(qs[j])
  /\ x = Len(Joined(qs)[j - 1]) + i /\ Concat(qs)[x] = qs[j][i]

(* Every element of the joined sequences has its place in one of them, and  *)
(* the places are gone through in order.                                      *)
LEMMA JoinedPlaces ==
  ASSUME NEW S, NEW qs, Len(qs) \in Nat, \A k \in 1..Len(qs) : qs[k] \in Seq(S)
  PROVE  /\ \A x \in 1..Len(Concat(qs)) : \E j, i : IsAt(qs, x, j, i)
         /\ \A j \in 1..Len(qs) : \A i \in 1..Len(qs[j]) :
              \E x \in 1..Len(Concat(qs)) : IsAt(qs, x, j, i)
         /\ \A x, y, j, k, i, l : IsAt(qs, x, j, i) /\ IsAt(qs, y, k, l) /\ x < y =>
              j < k \/ (j = k /\ i < l)
<1> DEFINE n == Len(qs)
           J == Joined(qs)
           a == [k \in 0..n |-> Len(J[k])]
           Extends(k, m) == a[k] <= a[m] /\ \A x \in 1..a[k] : J[m][x] = J[k][x]
           G == {m \in 0..n : \A k \in 0..m : Extends(k, m)}
           H == {m \in 0..n : \A x \in 1..a[m] : \E j \in 1..m : x \in (a[j - 1] + 1)..a[j]}
<1>1. J[0] = <<>> /\ \A k \in 1..n : J[k] = Then(J[k - 1], qs[k])
  BY JoinedIs
<1>2. \A k \in 0..n : J[k] \in Seq(S) /\ a[k] \in Nat /\ a[k] = Len(J[k])
  BY JoinedFacts
<1>3. a[0] = 0 /\ a[n] = Len(Concat(qs)) /\ J[n] = Concat(qs)
  BY <1>1, <1>2 DEF Concat
<1> HIDE DEF J, a
<1>4. ASSUME NEW k \in 1..n
      PROVE  /\ k - 1 \in 0..n /\ k \in 0..n
             /\ Len(qs[k]) \in Nat /\ a[k] = a[k - 1] + Len(qs[k])
             /\ \A x \in 1..a[k - 1] : J[k][x] = J[k - 1][x]
             /\ \A i \in 1..Len(qs[k]) : J[k][a[k - 1] + i] = qs[k][i]
  <2>1. k - 1 \in 0..n /\ k \in 0..n
    OBVIOUS
  <2>2. /\ J[k] = Then(J[k - 1], qs[k]) /\ J[k - 1] \in Seq(S) /\ qs[k] \in Seq(S)
        /\ a[k] = Len(J[k]) /\ a[k - 1] = Len(J[k - 1])
    BY <1>1, <1>2, <2>1
  <2>3. ASSUME NEW q \in Seq(S), NEW r \in Seq(S)
        PROVE  /\ Len(q) \in Nat /\ Len(r) \in Nat /\ Len(Then(q, r)) = Len(q) + Len(r)
               /\ \A x \in 1..Len(q) : Then(q, r)[x] = q[x]
               /\ \A i \in 1..Len(r) : Then(q, r)[Len(q) + i] = r[i]
    BY DEF Then
  <2> DEFINE q == J[k - 1]
             r == qs[k]
             t == J[k]
  <2>4. /\ q \in Seq(S) /\ r \in Seq(S) /\ t = Then(q, r)
        /\ a[k] = Len(t) /\ a[k - 1] = Len(q)
    BY <2>2
  <2> HIDE DEF q, r, t
  <2>5. /\ Len(r) \in Nat /\ a[k] = a[k - 1] + Len(r)
        /\ \A x \in 1..a[k - 1] : t[x] = q[x]
        /\ \A i \in 1..Len(r) : t[a[k - 1] + i] = r[i]
    <3>1. /\ Len(q) \in Nat /\ Len(r) \in Nat /\ Len(Then(q, r)) = Len(q) + Len(r)
          /\ \A x \in 1..Len(q) : Then(q, r)[x] = q[x]
          /\ \A i \in 1..Len(r) : Then(q, r)[Len(q) + i] = r[i]
      BY <2>3, <2>4
    <3>2. t = Then(q, r) /\ a[k] = Len(t) /\ a[k - 1] = Len(q)
      BY <2>4
    <3> QED
      BY <3>1, <3>2
  <2> QED
    BY <2>1, <2>5 DEF q, r, t
<1>5. \A m \in 0..n : \A k \in 0..m : Extends(k, m)
  <2>1. 0 \in G
    BY <1>3
  <2>2. ASSUME NEW m \in 0..n, m # 0, m - 1 \in G PROVE m \in G
    <3> SUFFICES ASSUME NEW k \in 0..m PROVE Extends(k, m)
      OBVIOUS
    <3>1. CASE k = m
      BY <1>2, <3>1
    <3>2. CASE k # m
      <4>1. k \in 0..(m - 1) /\ m \in 1..n /\ k \in 0..n /\ m - 1 \in 0..n
        BY <3>2
      <4>2. Extends(k, m - 1) /\ a[k] \in Nat /\ a[m - 1] \in Nat /\ a[m] \in Nat
        BY <1>2, <2>2, <4>1
      <4> QED
        BY <1>4, <4>1, <4>2
    <3> QED
      BY <3>1, <3>2
  <2> HIDE DEF G
  <2>3. 0..n \subseteq G
    BY <2>1, <2>2, Upwards
  <2> QED
    BY <2>3 DEF G
<1>6. \A x \in 1..a[n] : \E j \in 1..n : x \in (a[j - 1] + 1)..a[j]
  <2>1. 0 \in H
    BY <1>3
  <2>2. ASSUME NEW m \in 0..n, m # 0, m - 1 \in H PROVE m \in H
    <3> SUFFICES ASSUME NEW x \in 1..a[m]
                 PROVE  \E j \in 1..m : x \in (a[j - 1] + 1)..a[j]
      OBVIOUS
    <3>1. m \in 1..m /\ m - 1 \in 0..n /\ a[m - 1] \in Nat /\ a[m] \in Nat
      BY <1>2, <2>2
    <3>2. x \in 1..a[m - 1] \/ x \in (a[m - 1] + 1)..a[m]
      BY <3>1
    <3>3. 1..(m - 1) \subseteq 1..m
      OBVIOUS
    <3> QED
      BY <2>2, <3>1, <3>2, <3>3
  <2> HIDE DEF H
  <2>3. 0..n \subseteq H
    BY <2>1, <2>2, Upwards
  <2>4. n \in 0..n
    OBVIOUS
  <2> QED
    BY <2>3, <2>4 DEF H
<1>7. \A j \in 1..n : \A i \in 1..Len(qs[j]) :
        a[j - 1] + i \in 1..Len(Concat(qs)) /\ Concat(qs)[a[j - 1] + i] = qs[j][i]
  <2> SUFFICES ASSUME NEW j \in 1..n, NEW i \in 1..Len(qs[j])
               PROVE  /\ a[j - 1] + i \in 1..Len(Concat(qs))
                      /\ Concat(qs)[a[j - 1] + i] = qs[j][i]
    OBVIOUS
  <2>1. n \in 0..n /\ j \in 0..n /\ j - 1 \in 0..n
    OBVIOUS
  <2>2. Extends(j, n) /\ a[j - 1] \in Nat /\ a[j] \in Nat /\ a[n] \in Nat
    BY <1>2, <1>5, <2>1
  <2>3. a[j - 1] + i \in 1..a[j] /\ J[j][a[j - 1] + i] = qs[j][i]
    BY <1>4, <2>2
  <2> QED
    BY <1>3, <2>2, <2>3
<1>8. \A j \in 1..n : a[j - 1] = Len(J[j - 1])
  BY <1>2
<1>9. ASSUME NEW x \in 1..Len(Concat(qs)) PROVE \E j, i : IsAt(qs, x, j, i)
  <2>1. PICK j \in 1..n : x \in (a[j - 1] + 1)..a[j]
    BY <1>3, <1>6
  <2>2. a[j - 1] \in Nat /\ a[j] = a[j - 1] + Len(qs[j]) /\ Len(qs[j]) \in Nat
    BY <1>2, <1>4
  <2>3. x - a[j - 1] \in 1..Len(qs[j]) /\ x = a[j - 1] + (x - a[j - 1])
    BY <2>1, <2>2
  <2>4. IsAt(qs, x, j, x - a[j - 1])
    BY <1>7, <1>8, <2>3 DEF IsAt, J
  <2> QED
    BY <2>4
<1>10. ASSUME NEW x, NEW y, NEW j, NEW k, NEW i, NEW l,
              IsAt(qs, x, j, i), IsAt(qs, y, k, l), x < y
       PROVE  j < k \/ (j = k /\ i < l)
  <2>1. /\ j \in 1..n /\ k \in 1..n /\ i \in 1..Len(qs[j]) /\ l \in 1..Len(qs[k])
        /\ x = a[j - 1] + i /\ y = a[k - 1] + l
    BY <1>8, <1>10 DEF IsAt, J
  <2>2. CASE k < j
    <3>1. k \in 0..(j - 1) /\ j - 1 \in 0..n /\ k - 1 \in 0..n /\ k \in 0..n
      BY <2>1, <2>2
    <3>2. a[k] <= a[j - 1] /\ a[k] = a[k - 1] + Len(qs[k]) /\ Len(qs[k]) \in Nat
          /\ a[j - 1] \in Nat /\ a[k - 1] \in Nat
      BY <1>2, <1>4, <1>5, <2>1, <3>1
    <3> QED
      BY <1>10, <2>1, <3>2
  <2>3. CASE j = k
    <3>1. a[k - 1] \in Nat
      BY <1>2, <2>1
    <3> QED
      BY <1>10, <2>1, <2>3, <3>1
  <2> QED
    BY <2>1, <2>2, <2>3
<1>11. ASSUME NEW j \in 1..n, NEW i \in 1..Len(qs[j])
       PROVE  \E x \in 1..Len(Concat(qs)) : IsAt(qs, x, j, i)
  <2>1. /\ a[j - 1] + i \in 1..Len(Concat(qs)) /\ Concat(qs)[a[j - 1] + i] = qs[j][i]
        /\ a[j - 1] = Len(Joined(qs)[j - 1])
    BY <1>7, <1>8 DEF J
  <2>2. IsAt(qs, a[j - 1] + i, j, i)
    BY <2>1 DEF IsAt
  <2> QED
    BY <2>1, <2>2
<1> QED
  BY <1>9, <1>10, <1>11

Evenly(qs, c) == \A k \in 0..Len(qs) : Len(Joined(qs)[k]) = k * c

(* Of sequences of the same length, the joined ones have a multiple of it. *)
LEMMA JoinedEvenly ==
  ASSUME NEW S, NEW qs, Len(qs) \in Nat, NEW c \in Nat,
         \A k \in 1..Len(qs) : qs[k] \in Seq(S) /\ Len(qs[k]) = c
  PROVE  Evenly(qs, c) /\ Len(Concat(qs)) = Len(qs) * c
<1> DEFINE n == Len(qs)
           a == [k \in 0..n |-> Len(Joined(qs)[k])]
           G == {k \in 0..n : a[k] = k * c}
<1>1. \A k \in 1..n : Len(Joined(qs)[k]) = Len(Joined(qs)[k - 1]) + Len(qs[k])
  BY JoinedFacts
<1>2. \A k \in 1..n : a[k] = a[k - 1] + c
  <2> SUFFICES ASSUME NEW k \in 1..n PROVE a[k] = a[k - 1] + c
    OBVIOUS
  <2>1. k \in 0..n /\ k - 1 \in 0..n /\ Len(qs[k]) = c
    OBVIOUS
  <2> QED
    BY <1>1, <2>1
<1>3. a[0] = 0 * c
  BY JoinedIs
<1> HIDE DEF a
<1>4. ASSUME NEW k \in 0..n, k # 0, k - 1 \in G PROVE k \in G
  <2>1. a[k] = a[k - 1] + c /\ a[k - 1] = (k - 1) * c
    BY <1>2, <1>4
  <2>2. (k - 1) * c + c = k * c
    OBVIOUS
  <2> QED
    BY <2>1, <2>2
<1>5. 0 \in G
  BY <1>3
<1> HIDE DEF G
<1>6. 0..n \subseteq G
  BY <1>4, <1>5, Upwards
<1>7. \A k \in 0..n : a[k] = k * c
  BY <1>6 DEF G
<1>8. \A k \in 0..n : Len(Joined(qs)[k]) = k * c
  BY <1>7 DEF a
<1>9. n \in 0..n
  OBVIOUS
<1> QED
  BY <1>8, <1>9 DEF Concat, Evenly
=============================================================================
