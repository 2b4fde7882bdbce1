----------------------------- MODULE Risk_proofs -----------------------------
(***************************************************************************)
(* What holds of every threshold matrix, every closed contract and the     *)
(* indicators of every tender.  Sorting, summing and merging are folds     *)
(* and choices; the lemmas say of each, by induction over a set of numbers *)
(* or of subsets, that what it is defined by exists and what it returns.   *)
(***************************************************************************)
EXTENDS Risk, FiniteSetTheorems, FunctionTheorems, TLAPS

\* Of the bands that cover the floor of one that does, the highest are those that start there.
LEMMA RoutedAtFloor ==
  ASSUME NEW t, WellFormed(t), NEW r \in next_higher(t), covers(r, r.min_amount)
  PROVE  determine_body(t.rules, r.min_amount, NoRule)
           = {_match_body(s.approval_body) :
                s \in {q \in active(t) : q.min_amount = r.min_amount /\ covers(q, q.min_amount)}}
<1> DEFINE floor == r.min_amount
           covering == {s \in t.rules : s.is_active /\ covers(s, floor)}
           starting == {q \in active(t) : q.min_amount = floor /\ covers(q, q.min_amount)}
<1>1. r \in t.rules /\ r.is_active
  BY DEF next_higher
<1>2. floor \in Int /\ \A s \in t.rules : s.min_amount \in Int
  BY <1>1 DEF WellFormed
<1>3. r \in covering
  BY <1>1
<1>4. \A s \in covering : s.min_amount <= floor
  BY <1>2 DEF covers
<1>5. starting = {s \in covering : s.min_amount = floor}
  BY DEF active
<1>6. determine_body(t.rules, floor, NoRule) = {_match_body(s.approval_body) : s \in Highest(covering)}
  BY <1>3 DEF determine_body
<1> HIDE DEF covering, starting
<1>7. \A s \in covering : s.min_amount \in Int
  BY <1>2 DEF covering
<1>8. Highest(covering) = starting
  BY <1>2, <1>3, <1>4, <1>5, <1>7 DEF Highest
<1> QED BY <1>6, <1>8 DEF starting

\* Where all active bands are of one year, the routing and that year's page agree.
LEMMA CorrectApproval ==
  ASSUME NEW t, WellFormed(t), t.rule = NoRule, is_correct(t), NEW fy,
         active(t) = rules_page(t, fy),
         {r \in rules_page(t, fy) : covers(r, value_checked(t))} # {}
  PROVE  \E r \in {s \in rules_page(t, fy) : covers(s, value_checked(t))} :
           /\ _match_body(r.approval_body) = "AO"
           /\ \A s \in {q \in rules_page(t, fy) : covers(q, value_checked(t))} : s.min_amount <= r.min_amount
<1> DEFINE value == value_checked(t)
           covering == {s \in t.rules : s.is_active /\ covers(s, value)}
<1> HIDE DEF value
<1>1. covering = {r \in rules_page(t, fy) : covers(r, value)}
  BY DEF active
<1>2. covering # {}
  BY <1>1 DEF value
<1>3. determine_body(t.rules, value, t.rule) = {_match_body(s.approval_body) : s \in Highest(covering)}
  BY <1>2 DEF determine_body
<1>4. "AO" \in determine_body(t.rules, value, t.rule)
  BY DEF is_correct, route_approval, approved_by_body, value
<1>5. PICK r \in Highest(covering) : _match_body(r.approval_body) = "AO"
  BY <1>3, <1>4
<1>6. r \in covering /\ \A s \in covering : s.min_amount <= r.min_amount
  BY <1>5 DEF Highest
<1> QED BY <1>1, <1>5, <1>6 DEF value

LEMMA ScoresOnScale ==
  ASSUME NEW n \in Nat
  PROVE  /\ timeliness(n) \in 0..100 /\ (n >= 5 => timeliness(n) <= 50)
         /\ quality(n) \in 0..100 /\ (n >= 4 => quality(n) <= 60)
         /\ variation(n) \in 0..100 /\ (n >= 13 => variation(n) <= 35)
  BY DEF timeliness, quality, variation, AtLeastZero

LEMMA GradeEarned ==
  ASSUME NEW c \in [kind : {"record"}, missed : Nat, snags : Nat, growth : Int], c.growth >= 0
  PROVE  /\ composite(c) \in 0..10000
         /\ grade(c) = "A" => c.growth <= 12 /\ c.snags <= 3 /\ c.missed <= 4
<1> DEFINE t == timeliness(c.missed)
           q == quality(c.snags)
           v == variation(c.growth)
<1>1. c.missed \in Nat /\ c.snags \in Nat /\ c.growth \in Nat
  OBVIOUS
<1>2. /\ t \in 0..100 /\ (c.missed >= 5 => t <= 50)
      /\ q \in 0..100 /\ (c.snags >= 4 => q <= 60)
      /\ v \in 0..100 /\ (c.growth >= 13 => v <= 35)
  BY <1>1, ScoresOnScale
<1>3. composite(c) = 35 * t + 40 * q + 25 * v
  BY DEF composite
<1> HIDE DEF t, q, v
<1>4. composite(c) \in 0..10000
  BY <1>2, <1>3
<1>5. composite(c) >= 8500 => c.growth <= 12 /\ c.snags <= 3 /\ c.missed <= 4
  BY <1>1, <1>2, <1>3
<1>6. grade(c) = "A" => composite(c) >= 8500
  BY DEF grade
<1> QED BY <1>4, <1>5, <1>6

-----------------------------------------------------------------------------
\* Induction over the natural numbers, for a set of them in place of a predicate.
LEMMA SetOfNumbers ==
  ASSUME NEW X, 0 \in X, \A n \in Nat : n \in X => n + 1 \in X
  PROVE  Nat \subseteq X
<1> DEFINE L == {ss \in Nat \X Nat : ss[1] < ss[2]}
           T == Nat \ X
<1> SUFFICES ASSUME T # {} PROVE FALSE
  OBVIOUS
<1>1. \E x \in T : \A y \in T : ~(<<y, x>> \in L)
  <2>1. IsWellFoundedOn(L, Nat)
    BY NatLessThanWellFounded, Zenon DEF OpToRel
  <2>2. T \subseteq Nat
    OBVIOUS
  <2> HIDE DEF L, T
  <2> QED BY <2>1, <2>2, WFMin
<1>2. PICK x \in T : \A y \in T : ~(<<y, x>> \in L)
  BY <1>1
<1>3. x \in Nat /\ x # 0 /\ x - 1 \in Nat
  OBVIOUS
<1>4. <<x - 1, x>> \in L
  BY <1>3
<1>5. x - 1 \in X
  BY <1>2, <1>3, <1>4
<1> QED BY <1>3, <1>5

\* What the inductions need to know of sizes.
LEMMA Sizes ==
  ASSUME NEW D, IsFiniteSet(D), NEW S \in SUBSET D
  PROVE  /\ IsFiniteSet(S)
         /\ Cardinality(S) \in Nat
         /\ Cardinality(S) = 0 <=> S = {}
         /\ \A x \in S : Cardinality(S \ {x}) = Cardinality(S) - 1
<1>1. IsFiniteSet(S)
  BY FS_Subset
<1>2. Cardinality(S) \in Nat
  BY <1>1, FS_CardinalityType
<1>3. Cardinality(S) = 0 <=> S = {}
  BY <1>1, FS_EmptySet
<1>4. ASSUME NEW x \in S PROVE Cardinality(S \ {x}) = Cardinality(S) - 1
  <2>1. Cardinality(S \ {x}) = IF x \in S THEN Cardinality(S) - 1 ELSE Cardinality(S)
    BY <1>1, FS_RemoveElement
  <2> QED BY <2>1
<1> QED BY <1>1, <1>2, <1>3, <1>4

\* The same for the subsets of a finite set, growing by one element at a time.
LEMMA SetOfSubsets ==
  ASSUME NEW D, IsFiniteSet(D), NEW X, {} \in X,
         \A S \in SUBSET D : \A x \in D \ S : S \in X => S \cup {x} \in X
  PROVE  \A S \in SUBSET D : S \in X
<1> DEFINE Y == {n \in Nat : \A S \in SUBSET D : Cardinality(S) = n => S \in X}
<1>0. \A S \in SUBSET D : IsFiniteSet(S) /\ Cardinality(S) \in Nat
  BY Sizes
<1>1. 0 \in Y
  BY Sizes
<1>2. ASSUME NEW n \in Nat, n \in Y PROVE n + 1 \in Y
  <2> SUFFICES ASSUME NEW S \in SUBSET D, Cardinality(S) = n + 1 PROVE S \in X
    OBVIOUS
  <2>1. S # {}
    BY Sizes
  <2>2. PICK x \in S : TRUE
    BY <2>1
  <2>3. Cardinality(S \ {x}) = n
    <3>1. Cardinality(S \ {x}) = Cardinality(S) - 1
      BY Sizes
    <3> QED BY <3>1
  <2>4. S \ {x} \in X
    BY <1>2, <2>3
  <2>5. (S \ {x}) \cup {x} \in X
    BY <2>4
  <2>6. (S \ {x}) \cup {x} = S
    OBVIOUS
  <2> QED BY <2>5, <2>6
<1>3. Nat \subseteq Y
  <2> HIDE DEF Y
  <2> QED BY <1>1, <1>2, SetOfNumbers
<1> QED BY <1>0, <1>3

LEMMA Extremes ==
  ASSUME NEW S, IsFiniteSet(S), S # {}, S \subseteq Int
  PROVE  /\ Max(S) \in S /\ \A y \in S : y <= Max(S)
         /\ Min(S) \in S /\ \A y \in S : Min(S) <= y
<1> DEFINE X == {T \in SUBSET S : T # {} => /\ \E x \in T : \A y \in T : x >= y
                                            /\ \E x \in T : \A y \in T : x =< y}
<1>1. {} \in X
  OBVIOUS
<1>2. ASSUME NEW T \in SUBSET S, NEW z \in S \ T, T \in X PROVE T \cup {z} \in X
  <2>1. CASE T = {}
    BY <2>1
  <2>2. CASE T # {}
    <3>1. PICK x \in T : \A y \in T : x >= y
      BY <1>2, <2>2
    <3>2. PICK w \in T : \A y \in T : w =< y
      BY <1>2, <2>2
    <3>3. \E u \in T \cup {z} : \A y \in T \cup {z} : u >= y
      <4>1. CASE x >= z
        BY <3>1, <4>1
      <4>2. CASE ~(x >= z)
        BY <3>1, <4>2
      <4> QED BY <4>1, <4>2
    <3>4. \E u \in T \cup {z} : \A y \in T \cup {z} : u =< y
      <4>1. CASE w =< z
        BY <3>2, <4>1
      <4>2. CASE ~(w =< z)
        BY <3>2, <4>2
      <4> QED BY <4>1, <4>2
    <3> QED BY <3>3, <3>4
  <2> QED BY <2>1, <2>2
<1>3. \A T \in SUBSET S : T \in X
  <2> HIDE DEF X
  <2> QED BY <1>1, <1>2, SetOfSubsets
<1>4. /\ \E x \in S : \A y \in S : x >= y
      /\ \E x \in S : \A y \in S : x =< y
  BY <1>3
<1> QED BY <1>4 DEF Max, Min

\* The largest of 1..k is taken off first.
LEMMA LastOfPrefix ==
  ASSUME NEW k \in Nat, k # 0
  PROVE  Max(1..k) = k /\ (1..k) \ {k} = 1..(k - 1)
<1>1. IsFiniteSet(1..k) /\ k \in 1..k /\ 1..k \subseteq Int
  BY FS_Interval
<1>2. Max(1..k) \in 1..k /\ \A y \in 1..k : y <= Max(1..k)
  BY <1>1, Extremes
<1> QED BY <1>1, <1>2

-----------------------------------------------------------------------------
(* T01: sorting. *)

Sorts(p, S, v) ==
  /\ p \in Bijection(1..Cardinality(S), S)
  /\ \A i, j \in DOMAIN p : i < j => v[p[i]] <= v[p[j]]

LEMMA SortExists ==
  ASSUME NEW D, IsFiniteSet(D), NEW v, \A b \in D : v[b] \in Int
  PROVE  \E p : Sorts(p, D, v)
<1> DEFINE Y == {n \in Nat : \A S \in SUBSET D : Cardinality(S) = n => \E p : Sorts(p, S, v)}
<1>1. 0 \in Y
  <2> SUFFICES ASSUME NEW S \in SUBSET D, Cardinality(S) = 0 PROVE \E p : Sorts(p, S, v)
    OBVIOUS
  <2>1. S = {}
    BY Sizes
  <2> DEFINE p == [i \in 1..0 |-> i]
  <2>2. p \in Bijection(1..0, {}) /\ DOMAIN p = {}
    BY DEF Bijection, Injection, IsInjective, Surjection
  <2> HIDE DEF p
  <2>3. Sorts(p, S, v)
    BY <2>1, <2>2 DEF Sorts
  <2> QED BY <2>3
<1>2. ASSUME NEW n \in Nat, n \in Y PROVE n + 1 \in Y
  <2> SUFFICES ASSUME NEW S \in SUBSET D, Cardinality(S) = n + 1 PROVE \E p : Sorts(p, S, v)
    OBVIOUS
  <2>1. PICK m \in S : \A b \in S : v[b] <= v[m]
    <3> DEFINE V == {v[b] : b \in S}
    <3>1. IsFiniteSet(S) /\ S # {}
      BY Sizes
    <3>2. IsFiniteSet(V)
      <4> DEFINE f == [b \in S |-> v[b]]
      <4>1. f \in Surjection(S, V)
        BY DEF Surjection
      <4> HIDE DEF f, V
      <4> QED BY <3>1, <4>1, FS_Surjection
    <3>3. V # {} /\ V \subseteq Int
      BY <3>1
    <3>4. Max(V) \in V /\ \A y \in V : y <= Max(V)
      <4> HIDE DEF V
      <4> QED BY <3>2, <3>3, Extremes
    <3> QED BY <3>4
  <2>2. S \ {m} \in SUBSET D /\ Cardinality(S \ {m}) = n
    <3>1. Cardinality(S \ {m}) = Cardinality(S) - 1
      BY Sizes
    <3> QED BY <3>1
  <2>3. PICK q : Sorts(q, S \ {m}, v)
    BY <1>2, <2>2
  <2>4. /\ q \in [1..n -> S \ {m}]
        /\ \A i, j \in 1..n : q[i] = q[j] => i = j
        /\ \A b \in S \ {m} : \E i \in 1..n : q[i] = b
        /\ \A i, j \in 1..n : i < j => v[q[i]] <= v[q[j]]
    BY <2>2, <2>3 DEF Sorts, Bijection, Injection, IsInjective, Surjection
  <2> DEFINE p == [i \in 1..(n + 1) |-> IF i = n + 1 THEN m ELSE q[i]]
  <2>5. p \in [1..(n + 1) -> S]
    BY <2>4
  <2>6. /\ \A i \in 1..n : p[i] = q[i]
        /\ p[n + 1] = m /\ n + 1 \in 1..(n + 1)
        /\ \A i \in 1..(n + 1) : i = n + 1 \/ i \in 1..n
        /\ \A i \in 1..n : i \in 1..(n + 1)
    OBVIOUS
  <2> HIDE DEF p
  <2>7. \A i, j \in 1..(n + 1) : p[i] = p[j] => i = j
    BY <2>4, <2>6
  <2>8. \A b \in S : \E i \in 1..(n + 1) : p[i] = b
    BY <2>4, <2>6
  <2>9. \A i, j \in 1..(n + 1) : i < j => v[p[i]] <= v[p[j]]
    <3> SUFFICES ASSUME NEW i \in 1..(n + 1), NEW j \in 1..(n + 1), i < j
                 PROVE  v[p[i]] <= v[p[j]]
      OBVIOUS
    <3>1. i \in 1..n
      OBVIOUS
    <3>2. CASE j = n + 1
      BY <2>1, <2>4, <2>6, <3>1, <3>2
    <3>3. CASE j \in 1..n
      BY <2>4, <2>6, <3>1, <3>3
    <3> QED BY <2>6, <3>2, <3>3
  <2>10. DOMAIN p = 1..(n + 1)
    BY <2>5
  <2>11. p \in Bijection(1..(n + 1), S)
    BY <2>5, <2>7, <2>8, <2>10, Zenon DEF Bijection, Injection, IsInjective, Surjection
  <2>12. Sorts(p, S, v)
    BY <2>9, <2>10, <2>11 DEF Sorts
  <2> QED BY <2>12
<1>3. Nat \subseteq Y
  <2> HIDE DEF Y
  <2> QED BY <1>1, <1>2, SetOfNumbers
<1> QED BY <1>3, Sizes

\* Three members make three, and three there are among three or more.
LEMMA Three ==
  ASSUME NEW S, IsFiniteSet(S)
  PROVE  Cardinality(S) >= 3 <=> \E a, b, c \in S : a # b /\ a # c /\ b # c
<1>0. Cardinality(S) \in Nat
  BY FS_CardinalityType
<1>1. ASSUME Cardinality(S) >= 3 PROVE \E a, b, c \in S : a # b /\ a # c /\ b # c
  <2>1. PICK a \in S : TRUE
    BY <1>0, <1>1, Sizes
  <2>2. Cardinality(S \ {a}) = Cardinality(S) - 1 /\ IsFiniteSet(S \ {a})
    BY <2>1, Sizes
  <2>3. PICK b \in S \ {a} : TRUE
    BY <1>0, <1>1, <2>2, Sizes
  <2>4. Cardinality((S \ {a}) \ {b}) = Cardinality(S \ {a}) - 1 /\ IsFiniteSet((S \ {a}) \ {b})
    BY <2>2, <2>3, Sizes
  <2>5. PICK c \in (S \ {a}) \ {b} : TRUE
    BY <1>0, <1>1, <2>2, <2>4, Sizes
  <2> QED BY <2>1, <2>3, <2>5
<1>2. ASSUME NEW a \in S, NEW b \in S, NEW c \in S, a # b, a # c, b # c
      PROVE  Cardinality(S) >= 3
  <2>1. Cardinality(S \ {a}) = Cardinality(S) - 1 /\ IsFiniteSet(S \ {a})
    BY Sizes
  <2>2. Cardinality((S \ {a}) \ {b}) = Cardinality(S \ {a}) - 1 /\ IsFiniteSet((S \ {a}) \ {b})
    BY <1>2, <2>1, Sizes
  <2>3. Cardinality((S \ {a}) \ {b}) # 0 /\ Cardinality((S \ {a}) \ {b}) \in Nat
    BY <1>2, <2>2, Sizes
  <2> QED BY <1>0, <2>1, <2>2, <2>3
<1> QED BY <1>1, <1>2

\* What amounts() is: the amounts disclosed, by some order of their bids.
Sorted(t, n, p) ==
  /\ n \in Nat /\ p \in [1..n -> disclosed(t)]
  /\ \A i, j \in 1..n : p[i] = p[j] => i = j
  /\ \A b \in disclosed(t) : \E i \in 1..n : p[i] = b
  /\ \A i, j \in 1..n : i < j => t.amount[p[i]] <= t.amount[p[j]]
  /\ amounts(t) = [i \in 1..n |-> t.amount[p[i]]]

LEMMA Bids ==
  ASSUME NEW t, WellFormed(t)
  PROVE  /\ IsFiniteSet(DOMAIN t.amount)
         /\ \A b \in DOMAIN t.amount : t.amount[b] \in Nat
<1>1. t.amount \in Seq(Nat)
  BY DEF WellFormed
<1>2. DOMAIN t.amount = 1..Len(t.amount) /\ Len(t.amount) \in Nat
  BY <1>1
<1>3. IsFiniteSet(DOMAIN t.amount)
  <2>1. \A n \in Nat : IsFiniteSet(1..n)
    BY FS_Interval
  <2> QED BY <1>2, <2>1
<1> QED BY <1>1, <1>3

LEMMA AmountsSorted ==
  ASSUME NEW t, WellFormed(t)
  PROVE  \E n, p : Sorted(t, n, p)
<1> DEFINE S == disclosed(t)
           n == Cardinality(S)
           p == InOrder(S, t.amount)
<1>1. IsFiniteSet(S) /\ \A b \in S : t.amount[b] \in Int
  BY Bids, FS_Subset DEF disclosed
<1>2. n \in Nat
  BY <1>1, FS_CardinalityType
<1>3. \E q : Sorts(q, S, t.amount)
  <2> HIDE DEF S
  <2> QED BY <1>1, SortExists
<1>4. Sorts(p, S, t.amount)
  BY <1>3, Zenon DEF InOrder, Sorts
<1>5. amounts(t) = [i \in DOMAIN p |-> t.amount[p[i]]]
  BY DEF amounts
<1> HIDE DEF p, n
<1>6. /\ p \in [1..n -> S]
      /\ \A i, j \in 1..n : p[i] = p[j] => i = j
      /\ \A b \in S : \E i \in 1..n : p[i] = b
      /\ \A i, j \in 1..n : i < j => t.amount[p[i]] <= t.amount[p[j]]
  BY <1>4 DEF Sorts, Bijection, Injection, IsInjective, Surjection, n
<1>7. DOMAIN p = 1..n
  BY <1>6
<1>8. Sorted(t, n, p)
  BY <1>2, <1>5, <1>6, <1>7 DEF Sorted
<1> QED BY <1>8

\* The extremes of three numbers in order.
LEMMA Window ==
  ASSUME NEW a \in Nat, NEW b \in Nat, NEW c \in Nat, a <= b, b <= c
  PROVE  Clustered({a, b, c}) <=> (c - a) * 200 <= a
<1>1. Max({a, b, c}) = c
  <2>1. c \in {a, b, c} /\ \A y \in {a, b, c} : c >= y
    OBVIOUS
  <2>2. \A x \in {a, b, c} : (\A y \in {a, b, c} : x >= y) => x = c
    OBVIOUS
  <2> QED BY <2>1, <2>2 DEF Max
<1>2. Min({a, b, c}) = a
  <2>1. a \in {a, b, c} /\ \A y \in {a, b, c} : a =< y
    OBVIOUS
  <2>2. \A x \in {a, b, c} : (\A y \in {a, b, c} : x =< y) => x = a
    OBVIOUS
  <2> QED BY <2>1, <2>2 DEF Min
<1> QED BY <1>1, <1>2 DEF Clustered

\* A cluster anywhere among the bids is one of three neighbours in the sorted amounts.
LEMMA ClusterFound ==
  ASSUME NEW t, WellFormed(t)
  PROVE  t01(t) <=> SomeCluster(t)
<1>1. PICK n, p : Sorted(t, n, p)
  BY AmountsSorted
<1> DEFINE s == amounts(t)
           D == DOMAIN t.amount
<1>2. /\ n \in Nat /\ p \in [1..n -> disclosed(t)]
      /\ \A i, j \in 1..n : p[i] = p[j] => i = j
      /\ \A b \in disclosed(t) : \E i \in 1..n : p[i] = b
      /\ \A i, j \in 1..n : i < j => t.amount[p[i]] <= t.amount[p[j]]
      /\ s = [i \in 1..n |-> t.amount[p[i]]]
  BY <1>1 DEF Sorted
<1>3. disclosed(t) \subseteq D /\ \A b \in disclosed(t) : t.amount[b] \in Nat /\ t.amount[b] # NoValue
  BY Bids DEF disclosed
<1>4. /\ Len(s) = n
      /\ \A i \in 1..n : s[i] \in Nat /\ s[i] = t.amount[p[i]]
      /\ \A i, j \in 1..n : i <= j => s[i] <= s[j]
  <2>1. \A i \in 1..n : s[i] \in Nat /\ s[i] = t.amount[p[i]]
    BY <1>2, <1>3
  <2>2. \A i, j \in 1..n : i <= j => s[i] <= s[j]
    <3> SUFFICES ASSUME NEW i \in 1..n, NEW j \in 1..n, i <= j PROVE s[i] <= s[j]
      OBVIOUS
    <3>1. CASE i = j
      BY <2>1, <3>1
    <3>2. CASE i < j
      BY <1>2, <2>1, <3>2
    <3> QED BY <1>2, <3>1, <3>2
  <2>3. Len(s) = n
    BY <1>2
  <2> QED BY <2>1, <2>2, <2>3
<1> HIDE DEF s
<1>5. t01(t) <=> \E i \in 1..(n - 2) : (s[i + 2] - s[i]) * 200 <= s[i]
  <2>1. t01(t) <=> \E i \in 1..(n - 2) : Clustered({s[i], s[i + 1], s[i + 2]})
    BY <1>4 DEF t01, s
  <2>2. ASSUME NEW i \in 1..(n - 2)
        PROVE  Clustered({s[i], s[i + 1], s[i + 2]}) <=> (s[i + 2] - s[i]) * 200 <= s[i]
    <3>1. i \in 1..n /\ i + 1 \in 1..n /\ i + 2 \in 1..n
      BY <1>2
    <3>2. s[i] \in Nat /\ s[i + 1] \in Nat /\ s[i + 2] \in Nat /\ s[i] <= s[i + 1] /\ s[i + 1] <= s[i + 2]
      BY <1>4, <3>1
    <3> QED BY <3>2, Window
  <2> QED BY <2>1, <2>2
<1>6. ASSUME NEW i \in 1..(n - 2), Clustered({s[i], s[i + 1], s[i + 2]}) PROVE SomeCluster(t)
  <2> DEFINE bs == {p[i], p[i + 1], p[i + 2]}
  <2>1. i \in 1..n /\ i + 1 \in 1..n /\ i + 2 \in 1..n /\ i # i + 1 /\ i # i + 2 /\ i + 1 # i + 2
    BY <1>2
  <2>2. bs \in SUBSET disclosed(t)
    BY <1>2, <2>1
  <2>3. IsFiniteSet(bs)
    BY <1>3, <2>2, Bids, FS_Subset
  <2>4. p[i] # p[i + 1] /\ p[i] # p[i + 2] /\ p[i + 1] # p[i + 2]
    BY <1>2, <2>1
  <2>5. Cardinality(bs) >= 3
    BY <2>3, <2>4, Three
  <2>6. {t.amount[b] : b \in bs} = {s[i], s[i + 1], s[i + 2]}
    BY <1>4, <2>1
  <2> HIDE DEF bs
  <2> QED BY <1>3, <1>6, <2>2, <2>5, <2>6 DEF SomeCluster
<1>7. ASSUME NEW bs \in SUBSET D, Cardinality(bs) >= 3, \A b \in bs : t.amount[b] # NoValue,
             Clustered({t.amount[b] : b \in bs})
      PROVE  \E i \in 1..(n - 2) : (s[i + 2] - s[i]) * 200 <= s[i]
  <2> DEFINE V == {t.amount[b] : b \in bs}
             P == {k \in 1..n : p[k] \in bs}
  <2>1. bs \subseteq disclosed(t)
    BY <1>7 DEF disclosed
  <2>2. V = {s[k] : k \in P}
    BY <1>2, <1>4, <2>1
  <2>3. PICK i, j, k \in P : i # j /\ i # k /\ j # k
    <3>1. IsFiniteSet(bs)
      BY Bids, FS_Subset
    <3>2. PICK a, b, c \in bs : a # b /\ a # c /\ b # c
      BY <1>7, <3>1, Three
    <3>3. \A x \in bs : \E m \in P : p[m] = x
      BY <1>2, <2>1
    <3> QED BY <3>2, <3>3
  <2>4. PICK m \in P : \A x \in P : m <= x
    <3>1. IsFiniteSet(1..n)
      BY <1>2, FS_Interval
    <3>2. P \subseteq 1..n /\ P # {} /\ P \subseteq Int
      BY <2>3
    <3> HIDE DEF P
    <3>3. IsFiniteSet(P)
      BY <3>1, <3>2, FS_Subset
    <3>4. Min(P) \in P /\ \A y \in P : Min(P) <= y
      BY <3>2, <3>3, Extremes
    <3> QED BY <3>4
  <2>5. PICK x \in P : m + 2 <= x
    BY <2>3, <2>4
  <2>6. m \in 1..(n - 2) /\ m \in 1..n /\ m + 2 \in 1..n /\ x \in 1..n
    BY <1>2, <2>4, <2>5
  <2>7. s[m + 2] <= s[x] /\ s[m] \in Nat /\ s[m + 2] \in Nat /\ s[x] \in Nat
    BY <1>4, <2>5, <2>6
  <2>8. s[m] \in V /\ s[x] \in V /\ \A y \in V : y \in Nat /\ s[m] <= y
    BY <1>4, <2>2, <2>4, <2>6
  <2>9. IsFiniteSet(V)
    <3> DEFINE f == [b \in bs |-> t.amount[b]]
    <3>1. f \in Surjection(bs, V)
      BY DEF Surjection
    <3>2. IsFiniteSet(bs)
      BY Bids, FS_Subset
    <3> HIDE DEF f, V
    <3> QED BY <3>1, <3>2, FS_Surjection
  <2> HIDE DEF V, P
  <2>10. /\ Max(V) \in V /\ \A y \in V : y <= Max(V)
         /\ Min(V) \in V /\ \A y \in V : Min(V) <= y
    <3>1. V # {} /\ V \subseteq Int
      BY <2>8
    <3> QED BY <2>9, <3>1, Extremes
  <2>11. Min(V) = s[m] /\ s[x] <= Max(V) /\ Max(V) \in Nat
    BY <2>7, <2>8, <2>10
  <2>12. (Max(V) - Min(V)) * 200 <= Min(V)
    BY <1>7 DEF Clustered, V
  <2>13. (s[m + 2] - s[m]) * 200 <= s[m]
    BY <2>7, <2>11, <2>12
  <2> QED BY <2>6, <2>13
<1>8. t01(t) => SomeCluster(t)
  BY <1>4, <1>6 DEF t01, s
<1>9. SomeCluster(t) => t01(t)
  BY <1>5, <1>7 DEF SomeCluster
<1>10. t01(t) \in BOOLEAN /\ SomeCluster(t) \in BOOLEAN
  BY DEF t01, SomeCluster
<1> QED BY <1>8, <1>9, <1>10

-----------------------------------------------------------------------------
(* Folding.  The folds of the library are recursive functions on the       *)
(* subsets of a domain, from which one element is taken off at a time.     *)

Folds(G, D, A, base, step, pick) ==
  /\ G \in [SUBSET D -> A]
  /\ \A S \in SUBSET D : G[S] = IF S = {} THEN base ELSE step[<<G[S \ {pick[S]}], pick[S]>>]

LEMMA FoldExists ==
  ASSUME NEW D, IsFiniteSet(D), NEW A, NEW base \in A, NEW step \in [A \X D -> A],
         NEW pick, \A S \in SUBSET D : S # {} => pick[S] \in S
  PROVE  \E G : Folds(G, D, A, base, step, pick)
<1> DEFINE Rhs(G, S) == IF S = {} THEN base ELSE step[<<G[S \ {pick[S]}], pick[S]>>]
           Upto(G, n) == \A S \in SUBSET D : Cardinality(S) <= n => G[S] = Rhs(G, S)
           Y == {n \in Nat : \E G \in [SUBSET D -> A] : Upto(G, n)}
<1>0. \A S \in SUBSET D : IsFiniteSet(S) /\ Cardinality(S) \in Nat
  BY Sizes
<1>1. 0 \in Y
  <2> DEFINE G == [S \in SUBSET D |-> base]
  <2>1. G \in [SUBSET D -> A]
    OBVIOUS
  <2>2. \A S \in SUBSET D : Cardinality(S) <= 0 => S = {}
    BY <1>0, Sizes
  <2>3. Upto(G, 0)
    BY <2>2
  <2> HIDE DEF G, Upto
  <2> QED BY <2>1, <2>3
<1>2. ASSUME NEW n \in Nat, n \in Y PROVE n + 1 \in Y
  <2>1. PICK G \in [SUBSET D -> A] : Upto(G, n)
    BY <1>2
  <2> DEFINE H == [S \in SUBSET D |-> Rhs(G, S)]
  <2>2. H \in [SUBSET D -> A]
    <3> SUFFICES ASSUME NEW S \in SUBSET D PROVE Rhs(G, S) \in A
      OBVIOUS
    <3>1. CASE S = {}
      BY <3>1
    <3>2. CASE S # {}
      <4>1. pick[S] \in D /\ G[S \ {pick[S]}] \in A
        BY <3>2
      <4> QED BY <3>2, <4>1
    <3> QED BY <3>1, <3>2
  <2>3. ASSUME NEW S \in SUBSET D, Cardinality(S) <= n + 1
        PROVE  H[S] = Rhs(H, S)
    <3>1. CASE S = {}
      BY <3>1
    <3>2. CASE S # {}
      <4>1. pick[S] \in S
        BY <3>2
      <4>2. Cardinality(S \ {pick[S]}) <= n
        <5>1. Cardinality(S \ {pick[S]}) = Cardinality(S) - 1
          BY <4>1, Sizes
        <5> QED BY <5>1, <1>0, <2>3
      <4>3. G[S \ {pick[S]}] = H[S \ {pick[S]}]
        BY <2>1, <4>2
      <4>4. H[S] = step[<<G[S \ {pick[S]}], pick[S]>>]
        BY <3>2
      <4> QED BY <3>2, <4>3, <4>4
    <3> QED BY <3>1, <3>2
  <2> HIDE DEF H, Rhs
  <2>4. Upto(H, n + 1)
    BY <2>3
  <2> HIDE DEF Upto
  <2> QED BY <2>2, <2>4
<1>3. Nat \subseteq Y
  <2> HIDE DEF Y
  <2> QED BY <1>1, <1>2, SetOfNumbers
<1>4. Cardinality(D) \in Y
  BY <1>0, <1>3
<1>5. PICK G \in [SUBSET D -> A] : Upto(G, Cardinality(D))
  BY <1>4
<1>6. \A S \in SUBSET D : G[S] = Rhs(G, S)
  BY <1>0, <1>5, FS_Subset
<1>7. Folds(G, D, A, base, step, pick)
  BY <1>6 DEF Folds
<1> QED BY <1>7

\* FoldSeq of value_checked: the sum of the awards is a number.
SumOf(w) == FoldSeq(LAMBDA a, sum : a + sum, 0, w)
Chosen(S) == CHOOSE x \in S : TRUE
AwardsRecursion(g, w, D) ==
  g = [S \in SUBSET D |-> IF S = {} THEN 0 ELSE w[Chosen(S)] + g[S \ {Chosen(S)}]]

LEMMA AwardsSum ==
  ASSUME NEW w \in Seq(Nat)
  PROVE  SumOf(w) \in Int
<1> DEFINE D == DOMAIN w
           H == CHOOSE g : g = [S \in SUBSET D |->
                    IF S = {} THEN 0
                    ELSE w[CHOOSE x \in S : TRUE] + g[S \ {CHOOSE x \in S : TRUE}]]
<1>1. SumOf(w) = H[D]
  BY Zenon DEF SumOf, FoldSeq, FoldFunction, FoldFunctionOnSet, MapThenFoldSet
<1>2. IsFiniteSet(D) /\ \A i \in D : w[i] \in Nat
  <2>1. \A n \in Nat : IsFiniteSet(1..n)
    BY FS_Interval
  <2>2. D = 1..Len(w) /\ Len(w) \in Nat
    OBVIOUS
  <2>3. \A i \in D : w[i] \in Nat
    OBVIOUS
  <2> QED BY <2>1, <2>2, <2>3
<1> HIDE DEF D
<1>3. \A S \in SUBSET D : S # {} => Chosen(S) \in S
  BY DEF Chosen
<1>4. \E g : AwardsRecursion(g, w, D)
  <2> DEFINE step == [x \in Int \X D |-> w[x[2]] + x[1]]
             pick == [S \in SUBSET D |-> Chosen(S)]
  <2>1. step \in [Int \X D -> Int]
    BY <1>2
  <2>2. \A S \in SUBSET D : S # {} => pick[S] \in S
    BY <1>3
  <2>3. PICK g : Folds(g, D, Int, 0, step, pick)
    <3> HIDE DEF step, pick
    <3>1. 0 \in Int
      OBVIOUS
    <3> QED BY <1>2, <2>1, <2>2, <3>1, FoldExists
  <2>4. g \in [SUBSET D -> Int]
    BY <2>3 DEF Folds
  <2>5. ASSUME NEW S \in SUBSET D
        PROVE  g[S] = IF S = {} THEN 0 ELSE w[Chosen(S)] + g[S \ {Chosen(S)}]
    <3>1. g[S] = IF S = {} THEN 0 ELSE step[<<g[S \ {pick[S]}], pick[S]>>]
      BY <2>3 DEF Folds
    <3>2. CASE S = {}
      BY <3>1, <3>2
    <3>3. CASE S # {}
      <4>1. pick[S] = Chosen(S) /\ Chosen(S) \in D /\ g[S \ {Chosen(S)}] \in Int
        BY <1>3, <2>4, <3>3
      <4>2. step[<<g[S \ {Chosen(S)}], Chosen(S)>>] = w[Chosen(S)] + g[S \ {Chosen(S)}]
        BY <4>1
      <4> QED BY <3>1, <3>3, <4>1, <4>2
    <3> QED BY <3>2, <3>3
  <2>6. AwardsRecursion(g, w, D)
    BY <2>4, <2>5 DEF AwardsRecursion
  <2> QED BY <2>6
<1>5. AwardsRecursion(H, w, D)
  BY <1>4, Zenon DEF AwardsRecursion, Chosen
<1> HIDE DEF H
<1> DEFINE Y == {n \in Nat : \A S \in SUBSET D : Cardinality(S) = n => H[S] \in Int}
<1>6. 0 \in Y
  <2> SUFFICES ASSUME NEW S \in SUBSET D, Cardinality(S) = 0 PROVE H[S] \in Int
    OBVIOUS
  <2>1. S = {}
    BY <1>2, Sizes
  <2> QED BY <1>5, <2>1 DEF AwardsRecursion
<1>7. ASSUME NEW n \in Nat, n \in Y PROVE n + 1 \in Y
  <2> SUFFICES ASSUME NEW S \in SUBSET D, Cardinality(S) = n + 1 PROVE H[S] \in Int
    OBVIOUS
  <2>1. S # {}
    BY <1>2, Sizes
  <2>2. Chosen(S) \in S
    BY <1>3, <2>1
  <2>3. Cardinality(S \ {Chosen(S)}) = n
    <3>1. Cardinality(S \ {Chosen(S)}) = Cardinality(S) - 1
      BY <1>2, <2>2, Sizes
    <3> QED BY <3>1
  <2>4. H[S \ {Chosen(S)}] \in Int
    BY <1>7, <2>3
  <2>5. H[S] = w[Chosen(S)] + H[S \ {Chosen(S)}]
    BY <1>5, <2>1 DEF AwardsRecursion
  <2>6. w[Chosen(S)] \in Int
    BY <1>2, <2>2
  <2> QED BY <2>4, <2>5, <2>6
<1>8. Nat \subseteq Y
  <2> HIDE DEF Y
  <2> QED BY <1>6, <1>7, SetOfNumbers
<1>9. Cardinality(D) \in Nat
  BY <1>2, FS_CardinalityType
<1> QED BY <1>1, <1>8, <1>9

-----------------------------------------------------------------------------
(* T03 and T06. *)

\* If any boundary is shaved, the nearest one above the value is.
LEMMA BoundaryFound ==
  ASSUME NEW t, WellFormed(t)
  PROVE  t03(t) <=> SomeBoundaryShaved(t)
<1> DEFINE v == value_checked(t)
           above == {r \in t.rules : r.is_active /\ r.goods = goods(t) /\ r.min_amount > v}
<1>1. v \in Int
  <2>1. v = IF SumOf(t.awards) # NoValue THEN SumOf(t.awards) ELSE t.est_value
    BY Zenon DEF value_checked, SumOf
  <2>2. SumOf(t.awards) \in Int /\ t.est_value \in Int
    BY AwardsSum DEF WellFormed
  <2> QED BY <2>1, <2>2
<1>2. \A r \in t.rules : r.min_amount \in Int
  BY DEF WellFormed
<1>3. next_higher(t) = {r \in above : \A s \in above : r.min_amount <= s.min_amount}
  BY DEF next_higher
<1>4. t03(t) <=> v > 0 /\ \E r \in next_higher(t) : (r.min_amount - v) * 100 <= r.min_amount
  BY DEF t03
<1>5. SomeBoundaryShaved(t) <=>
        \E r \in t.rules : /\ r.is_active /\ r.goods = goods(t)
                           /\ 0 < v /\ v < r.min_amount
                           /\ v * 100 >= 99 * r.min_amount
  BY DEF SomeBoundaryShaved, active
<1> HIDE DEF v
<1>6. ASSUME v > 0, NEW r \in next_higher(t), (r.min_amount - v) * 100 <= r.min_amount
      PROVE  SomeBoundaryShaved(t)
  <2>1. r \in t.rules /\ r.is_active /\ r.goods = goods(t) /\ r.min_amount > v /\ r.min_amount \in Int
    BY <1>2, <1>3
  <2>2. v * 100 >= 99 * r.min_amount
    BY <1>1, <1>6, <2>1
  <2>3. 0 < v /\ v < r.min_amount
    BY <1>1, <1>6, <2>1
  <2> QED BY <1>5, <2>1, <2>2, <2>3
<1>7. ASSUME NEW r \in above, v > 0 PROVE next_higher(t) # {}
  <2> SUFFICES ASSUME next_higher(t) = {} PROVE FALSE
    OBVIOUS
  <2> DEFINE Y == {n \in Nat : \A s \in above : s.min_amount > n}
  <2>1. \A s \in above : s.min_amount \in Nat /\ \E q \in above : q.min_amount < s.min_amount
    <3> SUFFICES ASSUME NEW s \in above
                 PROVE  s.min_amount \in Nat /\ \E q \in above : q.min_amount < s.min_amount
      OBVIOUS
    <3>1. s.min_amount \in Nat
      BY <1>1, <1>2, <1>7
    <3>2. PICK q \in above : ~(s.min_amount <= q.min_amount)
      BY <1>3
    <3>3. q.min_amount \in Int
      BY <1>2
    <3> QED BY <3>1, <3>2, <3>3
  <2>2. 0 \in Y
    BY <1>1, <1>2, <1>7
  <2>3. ASSUME NEW n \in Nat, n \in Y PROVE n + 1 \in Y
    <3> SUFFICES ASSUME NEW s \in above PROVE s.min_amount > n + 1
      OBVIOUS
    <3>1. PICK q \in above : q.min_amount < s.min_amount
      BY <2>1
    <3>2. q.min_amount > n /\ q.min_amount \in Nat /\ s.min_amount \in Nat
      BY <2>1, <2>3
    <3> QED BY <3>1, <3>2
  <2>4. Nat \subseteq Y
    <3> HIDE DEF Y
    <3> QED BY <2>2, <2>3, SetOfNumbers
  <2>5. r.min_amount \in Nat
    BY <2>1
  <2>6. r.min_amount > r.min_amount
    BY <2>4, <2>5
  <2> QED BY <2>5, <2>6
<1>8. ASSUME NEW r \in t.rules, r.is_active, r.goods = goods(t), 0 < v, v < r.min_amount,
             v * 100 >= 99 * r.min_amount
      PROVE  t03(t)
  <2>1. r \in above /\ v > 0
    BY <1>1, <1>2, <1>8
  <2>2. PICK q \in next_higher(t) : TRUE
    BY <1>7, <2>1
  <2>3. q.min_amount \in Int /\ r.min_amount \in Int /\ q.min_amount <= r.min_amount
    BY <1>2, <1>3, <2>1
  <2>4. (q.min_amount - v) * 100 <= q.min_amount
    BY <1>1, <1>8, <2>3
  <2> QED BY <1>4, <2>1, <2>4
<1>9. t03(t) \in BOOLEAN /\ SomeBoundaryShaved(t) \in BOOLEAN
  BY DEF t03, SomeBoundaryShaved
<1> QED BY <1>4, <1>5, <1>6, <1>8, <1>9

LEMMA Two ==
  ASSUME NEW S, IsFiniteSet(S)
  PROVE  Cardinality(S) >= 2 <=> \E a, b \in S : a # b
<1>0. Cardinality(S) \in Nat
  BY FS_CardinalityType
<1>1. ASSUME Cardinality(S) >= 2 PROVE \E a, b \in S : a # b
  <2>1. PICK a \in S : TRUE
    BY <1>0, <1>1, Sizes
  <2>2. Cardinality(S \ {a}) = Cardinality(S) - 1
    BY <2>1, Sizes
  <2>3. S \ {a} # {}
    BY <1>0, <1>1, <2>2, Sizes
  <2> QED BY <2>1, <2>3
<1>2. ASSUME NEW a \in S, NEW b \in S, a # b PROVE Cardinality(S) >= 2
  <2>1. Cardinality(S \ {a}) = Cardinality(S) - 1 /\ IsFiniteSet(S \ {a})
    BY Sizes
  <2>2. Cardinality(S \ {a}) # 0 /\ Cardinality(S \ {a}) \in Nat
    BY <1>2, <2>1, Sizes
  <2> QED BY <1>0, <2>1, <2>2
<1> QED BY <1>1, <1>2

LEMMA SharedFound ==
  ASSUME NEW t, WellFormed(t)
  PROVE  /\ IsFiniteSet(t06(t))
         /\ t06(t) # {} <=> SomeSharedDetail(t)
<1> DEFINE D == DOMAIN t.amount
<1>1. IsFiniteSet(D) /\ \A b \in D : IsFiniteSet(t.details[b])
  BY Bids DEF WellFormed
<1>2. IsFiniteSet(registered(t))
  <2> DEFINE DD == {t.details[b] : b \in D}
             f == [b \in D |-> t.details[b]]
  <2>1. f \in Surjection(D, DD)
    BY DEF Surjection
  <2>2. IsFiniteSet(DD)
    <3> HIDE DEF f, DD
    <3> QED BY <1>1, <2>1, FS_Surjection
  <2>3. \A T \in DD : IsFiniteSet(T)
    BY <1>1
  <2>4. registered(t) = UNION DD
    BY DEF registered
  <2> HIDE DEF DD
  <2> QED BY <2>2, <2>3, <2>4, FS_UNION
<1>3. IsFiniteSet(t06(t))
  <2>1. t06(t) \subseteq registered(t)
    BY DEF t06
  <2> QED BY <1>2, <2>1, FS_Subset
<1>4. ASSUME NEW d PROVE Cardinality(names_with(t, d)) >= 2 <=> \E m, n \in names_with(t, d) : m # n
  <2> DEFINE B == {c \in D : d \in t.details[c]}
             f == [b \in B |-> t.legal_name[b]]
  <2>1. f \in Surjection(B, names_with(t, d))
    BY DEF Surjection, names_with
  <2>2. IsFiniteSet(B)
    BY <1>1, FS_Subset
  <2>3. IsFiniteSet(names_with(t, d))
    <3> HIDE DEF f, B
    <3> QED BY <2>1, <2>2, FS_Surjection
  <2> QED BY <2>3, Two
<1>5. ASSUME NEW d \in t06(t) PROVE SomeSharedDetail(t)
  <2>1. PICK m, n \in names_with(t, d) : m # n
    BY <1>4, <1>5 DEF t06
  <2>2. PICK b \in D : d \in t.details[b] /\ m = t.legal_name[b]
    BY <2>1 DEF names_with
  <2>3. PICK c \in D : d \in t.details[c] /\ n = t.legal_name[c]
    BY <2>1 DEF names_with
  <2> QED BY <2>1, <2>2, <2>3 DEF SomeSharedDetail
<1>6. ASSUME SomeSharedDetail(t) PROVE t06(t) # {}
  <2>1. PICK b, c \in D : t.legal_name[b] # t.legal_name[c] /\ t.details[b] \cap t.details[c] # {}
    BY <1>6 DEF SomeSharedDetail
  <2>2. PICK d : d \in t.details[b] /\ d \in t.details[c]
    BY <2>1
  <2>3. t.legal_name[b] \in names_with(t, d) /\ t.legal_name[c] \in names_with(t, d)
    BY <2>1, <2>2 DEF names_with
  <2>4. Cardinality(names_with(t, d)) >= 2
    BY <1>4, <2>1, <2>3
  <2>5. d \in registered(t)
    BY <2>1, <2>2 DEF registered
  <2> QED BY <2>4, <2>5 DEF t06
<1> QED BY <1>3, <1>5, <1>6

-----------------------------------------------------------------------------
(* The merging of hits. *)

Codes == {"T01", "T02", "T03", "T04", "T06", "T11"}
Hits == [code : Codes, severity : {"LOW", "MEDIUM", "HIGH"}]
Findings == [code : Codes, severity : {"LOW", "MEDIUM", "HIGH"}, occurrences : Nat]

CodesOf(s) == {s[i].code : i \in DOMAIN s}

SegmentsOf(n, D) ==
  /\ IsFiniteSet(D)
  /\ \A S \in SUBSET D : S # {} => Max(S) \in S
  /\ \A k \in 0..n : 1..k \in SUBSET D /\ (k = 0 <=> 1..k = {})
  /\ \A k \in 1..n : Max(1..k) = k /\ (1..k) \ {k} = 1..(k - 1)

LEMMA InitialSegments ==
  ASSUME NEW n \in Nat
  PROVE  SegmentsOf(n, 1..n)
<1>1. IsFiniteSet(1..n)
  BY FS_Interval
<1>2. ASSUME NEW S \in SUBSET (1..n), S # {} PROVE Max(S) \in S
  <2>1. IsFiniteSet(S)
    BY <1>1, FS_Subset
  <2>2. S \subseteq Int
    OBVIOUS
  <2> QED BY <1>2, <2>1, <2>2, Extremes
<1>3. \A k \in 0..n : 1..k \in SUBSET (1..n) /\ (k = 0 <=> 1..k = {})
  <2> SUFFICES ASSUME NEW k \in 0..n PROVE 1..k \in SUBSET (1..n) /\ (k = 0 <=> 1..k = {})
    OBVIOUS
  <2>1. k # 0 => k \in 1..k
    OBVIOUS
  <2> QED BY <2>1
<1>4. \A k \in 1..n : Max(1..k) = k /\ (1..k) \ {k} = 1..(k - 1)
  BY LastOfPrefix
<1> QED BY <1>1, <1>2, <1>3, <1>4, Zenon DEF SegmentsOf

\* FoldLeft of _dedupe, hit by hit.
MergedRecursion(g, hs, D) ==
  g = [S \in SUBSET D |-> IF S = {} THEN <<>> ELSE Merged(g[S \ {Max(S)}], hs[Max(S)])]
MergedRun(F, hs) ==
  /\ F[0] = <<>>
  /\ \A k \in 1..Len(hs) : F[k] = Merged(F[k - 1], hs[k])

LEMMA MergedType ==
  ASSUME NEW fs \in Seq(Findings), NEW hit \in Hits
  PROVE  Merged(fs, hit) \in Seq(Findings)
<1> DEFINE Up(f) == [f EXCEPT !.occurrences = @ + 1,
                              !.severity = IF SEVERITY_ORDER[hit.severity] > SEVERITY_ORDER[@]
                                           THEN hit.severity ELSE @]
<1>1. ASSUME NEW f \in Findings PROVE Up(f) \in Findings
  <2> DEFINE s == IF SEVERITY_ORDER[hit.severity] > SEVERITY_ORDER[f.severity] THEN hit.severity ELSE f.severity
  <2>1. s \in {"LOW", "MEDIUM", "HIGH"} /\ f.occurrences + 1 \in Nat
    BY DEF Hits, Findings
  <2>2. Up(f) = [f EXCEPT !.occurrences = f.occurrences + 1, !.severity = s]
    OBVIOUS
  <2> HIDE DEF Up, s
  <2> QED BY <2>1, <2>2 DEF Findings
<1>2. DOMAIN fs = 1..Len(fs) /\ Len(fs) \in Nat /\ \A i \in DOMAIN fs : fs[i] \in Findings
  OBVIOUS
<1>3. CASE \E i \in DOMAIN fs : fs[i].code = hit.code
  <2>1. Merged(fs, hit) = [i \in DOMAIN fs |-> IF fs[i].code # hit.code THEN fs[i] ELSE Up(fs[i])]
    BY <1>3, Zenon DEF Merged
  <2> HIDE DEF Up
  <2>2. [i \in 1..Len(fs) |-> IF fs[i].code # hit.code THEN fs[i] ELSE Up(fs[i])] \in Seq(Findings)
    BY <1>1, <1>2
  <2> QED BY <1>2, <2>1, <2>2
<1>4. CASE ~\E i \in DOMAIN fs : fs[i].code = hit.code
  <2>1. Merged(fs, hit) = Append(fs, [code |-> hit.code, severity |-> hit.severity, occurrences |-> 1])
    BY <1>4 DEF Merged
  <2>2. [code |-> hit.code, severity |-> hit.severity, occurrences |-> 1] \in Findings
    BY DEF Hits, Findings
  <2> QED BY <2>1, <2>2
<1> QED BY <1>3, <1>4

LEMMA DedupeRuns ==
  ASSUME NEW hs \in Seq(Hits)
  PROVE  \E F : MergedRun(F, hs) /\ _dedupe(hs) = F[Len(hs)]
<1> DEFINE n == Len(hs)
           D == 1..n
           A == Seq(Findings)
           H == CHOOSE g : g = [S \in SUBSET DOMAIN hs |->
                    IF S = {} THEN <<>> ELSE Merged(g[S \ {Max(S)}], hs[Max(S)])]
<1>1. _dedupe(hs) = H[DOMAIN hs]
  BY Zenon DEF _dedupe, FoldLeft, MapThenFoldSet
<1>2. n \in Nat /\ DOMAIN hs = D /\ \A i \in D : hs[i] \in Hits
  OBVIOUS
<1>3. /\ IsFiniteSet(D)
      /\ \A S \in SUBSET D : S # {} => Max(S) \in S
      /\ \A k \in 0..n : 1..k \in SUBSET D /\ (k = 0 <=> 1..k = {})
      /\ \A k \in 1..n : Max(1..k) = k /\ (1..k) \ {k} = 1..(k - 1)
  <2> HIDE DEF H, n
  <2>1. SegmentsOf(n, D)
    BY <1>2, InitialSegments
  <2> QED BY <2>1 DEF SegmentsOf
<1>4. \E g : MergedRecursion(g, hs, D)
  <2> DEFINE step == [x \in A \X D |-> Merged(x[1], hs[x[2]])]
             pick == [S \in SUBSET D |-> Max(S)]
  <2>1. step \in [A \X D -> A]
    BY <1>2, MergedType
  <2>2. \A S \in SUBSET D : S # {} => pick[S] \in S
    BY <1>3
  <2>3. PICK g : Folds(g, D, A, <<>>, step, pick)
    <3>1. <<>> \in A
      OBVIOUS
    <3> HIDE DEF step, pick, D, A
    <3> QED BY <1>3, <2>1, <2>2, <3>1, FoldExists
  <2>4. g \in [SUBSET D -> A]
    BY <2>3 DEF Folds
  <2>5. ASSUME NEW S \in SUBSET D
        PROVE  g[S] = IF S = {} THEN <<>> ELSE Merged(g[S \ {Max(S)}], hs[Max(S)])
    <3>1. g[S] = IF S = {} THEN <<>> ELSE step[<<g[S \ {pick[S]}], pick[S]>>]
      BY <2>3 DEF Folds
    <3>2. CASE S = {}
      BY <3>1, <3>2
    <3>3. CASE S # {}
      <4>1. pick[S] = Max(S) /\ Max(S) \in D /\ g[S \ {Max(S)}] \in A
        BY <1>3, <2>4, <3>3
      <4>2. step[<<g[S \ {Max(S)}], Max(S)>>] = Merged(g[S \ {Max(S)}], hs[Max(S)])
        BY <4>1
      <4> HIDE DEF step, pick
      <4> QED BY <3>1, <3>3, <4>1, <4>2
    <3> QED BY <3>2, <3>3
  <2>6. MergedRecursion(g, hs, D)
    BY <2>4, <2>5 DEF MergedRecursion
  <2> QED BY <2>6
<1>5. MergedRecursion(H, hs, D)
  <2>1. MergedRecursion(H, hs, DOMAIN hs)
    BY <1>2, <1>4, Zenon DEF MergedRecursion
  <2> QED BY <1>2, <2>1
<1> HIDE DEF H
<1> DEFINE F == [k \in 0..n |-> H[1..k]]
<1>6. F[0] = <<>>
  <2>1. 0 \in 0..n /\ 1..0 \in SUBSET D /\ 1..0 = {}
    BY <1>2, <1>3
  <2> QED BY <1>5, <2>1 DEF MergedRecursion
<1>7. ASSUME NEW k \in 1..n PROVE F[k] = Merged(F[k - 1], hs[k])
  <2>1. k \in 0..n /\ k - 1 \in 0..n /\ k # 0
    BY <1>2
  <2>2. 1..k \in SUBSET D /\ 1..k # {} /\ Max(1..k) = k /\ (1..k) \ {k} = 1..(k - 1)
    BY <1>3, <2>1
  <2>3. H[1..k] = Merged(H[1..(k - 1)], hs[k])
    BY <1>5, <2>2, Zenon DEF MergedRecursion
  <2> QED BY <2>1, <2>3
<1>8. F[n] = H[DOMAIN hs]
  BY <1>2
<1> HIDE DEF F
<1>9. MergedRun(F, hs)
  BY <1>6, <1>7 DEF MergedRun
<1> QED BY <1>1, <1>8, <1>9

\* FoldLeft of the occurrences, finding by finding.
Occurrences(fs) == FoldLeft(LAMBDA n, f : n + f.occurrences, 0, fs)
OccurrencesRecursion(g, fs, D) ==
  g = [S \in SUBSET D |-> IF S = {} THEN 0 ELSE g[S \ {Max(S)}] + fs[Max(S)].occurrences]
Running(q, fs) ==
  /\ q[0] = 0
  /\ \A k \in 1..Len(fs) : q[k] = q[k - 1] + fs[k].occurrences

LEMMA OccurrencesRun ==
  ASSUME NEW fs \in Seq(Findings)
  PROVE  \E q : Running(q, fs) /\ Occurrences(fs) = q[Len(fs)]
<1> DEFINE n == Len(fs)
           D == 1..n
           H == CHOOSE g : g = [S \in SUBSET DOMAIN fs |->
                    IF S = {} THEN 0 ELSE g[S \ {Max(S)}] + fs[Max(S)].occurrences]
<1>1. Occurrences(fs) = H[DOMAIN fs]
  BY Zenon DEF Occurrences, FoldLeft, MapThenFoldSet
<1>2. n \in Nat /\ DOMAIN fs = D /\ \A i \in D : fs[i] \in Findings
  OBVIOUS
<1>3. /\ IsFiniteSet(D)
      /\ \A S \in SUBSET D : S # {} => Max(S) \in S
      /\ \A k \in 0..n : 1..k \in SUBSET D /\ (k = 0 <=> 1..k = {})
      /\ \A k \in 1..n : Max(1..k) = k /\ (1..k) \ {k} = 1..(k - 1)
  <2> HIDE DEF H, n
  <2>1. SegmentsOf(n, D)
    BY <1>2, InitialSegments
  <2> QED BY <2>1 DEF SegmentsOf
<1>4. \E g : OccurrencesRecursion(g, fs, D)
  <2> DEFINE step == [x \in Nat \X D |-> x[1] + fs[x[2]].occurrences]
             pick == [S \in SUBSET D |-> Max(S)]
  <2>1. step \in [Nat \X D -> Nat]
    BY <1>2 DEF Findings
  <2>2. \A S \in SUBSET D : S # {} => pick[S] \in S
    BY <1>3
  <2>3. PICK g : Folds(g, D, Nat, 0, step, pick)
    <3>1. 0 \in Nat
      OBVIOUS
    <3> HIDE DEF step, pick, D
    <3> QED BY <1>3, <2>1, <2>2, <3>1, FoldExists
  <2>4. g \in [SUBSET D -> Nat]
    BY <2>3 DEF Folds
  <2>5. ASSUME NEW S \in SUBSET D
        PROVE  g[S] = IF S = {} THEN 0 ELSE g[S \ {Max(S)}] + fs[Max(S)].occurrences
    <3>1. g[S] = IF S = {} THEN 0 ELSE step[<<g[S \ {pick[S]}], pick[S]>>]
      BY <2>3 DEF Folds
    <3>2. CASE S = {}
      BY <3>1, <3>2
    <3>3. CASE S # {}
      <4>1. pick[S] = Max(S) /\ Max(S) \in D /\ g[S \ {Max(S)}] \in Nat
        BY <1>3, <2>4, <3>3
      <4>2. step[<<g[S \ {Max(S)}], Max(S)>>] = g[S \ {Max(S)}] + fs[Max(S)].occurrences
        BY <4>1
      <4> HIDE DEF step, pick
      <4> QED BY <3>1, <3>3, <4>1, <4>2
    <3> QED BY <3>2, <3>3
  <2>6. OccurrencesRecursion(g, fs, D)
    BY <2>4, <2>5 DEF OccurrencesRecursion
  <2> QED BY <2>6
<1>5. OccurrencesRecursion(H, fs, D)
  <2>1. OccurrencesRecursion(H, fs, DOMAIN fs)
    BY <1>2, <1>4, Zenon DEF OccurrencesRecursion
  <2> QED BY <1>2, <2>1
<1> HIDE DEF H
<1> DEFINE q == [k \in 0..n |-> H[1..k]]
<1>6. q[0] = 0
  <2>1. 0 \in 0..n /\ 1..0 \in SUBSET D /\ 1..0 = {}
    BY <1>2, <1>3
  <2> QED BY <1>5, <2>1 DEF OccurrencesRecursion
<1>7. ASSUME NEW k \in 1..n PROVE q[k] = q[k - 1] + fs[k].occurrences
  <2>1. k \in 0..n /\ k - 1 \in 0..n /\ k # 0
    BY <1>2
  <2>2. 1..k \in SUBSET D /\ 1..k # {} /\ Max(1..k) = k /\ (1..k) \ {k} = 1..(k - 1)
    BY <1>3, <2>1
  <2>3. H[1..k] = H[1..(k - 1)] + fs[k].occurrences
    BY <1>5, <2>2, Zenon DEF OccurrencesRecursion
  <2> QED BY <2>1, <2>3
<1>8. q[n] = H[DOMAIN fs]
  BY <1>2
<1> HIDE DEF q
<1>9. Running(q, fs)
  BY <1>6, <1>7 DEF Running
<1> QED BY <1>1, <1>8, <1>9

\* What one hit does to the findings: an entry more for its code, or one occurrence more.
LEMMA MergedUpdates ==
  ASSUME NEW fs \in Seq(Findings), NEW hit \in Hits, \E i \in DOMAIN fs : fs[i].code = hit.code
  PROVE  /\ Len(Merged(fs, hit)) = Len(fs)
         /\ \A j \in 1..Len(fs) :
              /\ Merged(fs, hit)[j].code = fs[j].code
              /\ Merged(fs, hit)[j].occurrences =
                   IF fs[j].code = hit.code THEN fs[j].occurrences + 1 ELSE fs[j].occurrences
<1> DEFINE Up(f) == [f EXCEPT !.occurrences = @ + 1,
                              !.severity = IF SEVERITY_ORDER[hit.severity] > SEVERITY_ORDER[@]
                                           THEN hit.severity ELSE @]
           m == [i \in DOMAIN fs |-> IF fs[i].code # hit.code THEN fs[i] ELSE Up(fs[i])]
<1>1. Merged(fs, hit) = m
  BY Zenon DEF Merged
<1>2. ASSUME NEW f \in Findings
      PROVE  Up(f).code = f.code /\ Up(f).occurrences = f.occurrences + 1
  BY DEF Findings
<1>3. DOMAIN fs = 1..Len(fs) /\ Len(fs) \in Nat /\ \A i \in DOMAIN fs : fs[i] \in Findings
  OBVIOUS
<1>4. Merged(fs, hit) \in Seq(Findings)
  BY MergedType
<1>5. Len(m) = Len(fs)
  <2>1. m \in Seq(Findings) /\ DOMAIN m = 1..Len(fs)
    BY <1>1, <1>3, <1>4
  <2> HIDE DEF m
  <2> QED BY <1>3, <2>1
<1> HIDE DEF Up
<1>6. \A j \in 1..Len(fs) : m[j] = IF fs[j].code # hit.code THEN fs[j] ELSE Up(fs[j])
  BY <1>3
<1> HIDE DEF m
<1>7. ASSUME NEW j \in 1..Len(fs)
      PROVE  /\ m[j].code = fs[j].code
             /\ m[j].occurrences =
                  IF fs[j].code = hit.code THEN fs[j].occurrences + 1 ELSE fs[j].occurrences
  BY <1>2, <1>3, <1>6
<1> QED BY <1>1, <1>5, <1>7

LEMMA MergedAppends ==
  ASSUME NEW fs \in Seq(Findings), NEW hit \in Hits, ~\E i \in DOMAIN fs : fs[i].code = hit.code
  PROVE  /\ Len(Merged(fs, hit)) = Len(fs) + 1
         /\ \A j \in 1..Len(fs) : Merged(fs, hit)[j] = fs[j]
         /\ Merged(fs, hit)[Len(fs) + 1].code = hit.code
         /\ Merged(fs, hit)[Len(fs) + 1].occurrences = 1
<1> DEFINE f == [code |-> hit.code, severity |-> hit.severity, occurrences |-> 1]
<1>1. Merged(fs, hit) = Append(fs, f)
  BY DEF Merged
<1>2. f \in Findings /\ f.code = hit.code /\ f.occurrences = 1
  BY DEF Hits, Findings
<1> HIDE DEF f
<1>3. /\ Len(Append(fs, f)) = Len(fs) + 1
      /\ \A j \in 1..Len(fs) : Append(fs, f)[j] = fs[j]
      /\ Append(fs, f)[Len(fs) + 1] = f
  BY <1>2
<1> QED BY <1>1, <1>2, <1>3

\* The findings after k of the hits: each code of those k hits once, and k occurrences.
Once(s) == \A i, j \in DOMAIN s : s[i].code = s[j].code => i = j
CountsTo(q, fs, total) == q \in [0..Len(fs) -> Nat] /\ Running(q, fs) /\ q[Len(fs)] = total
Tally(fs, hs, k) ==
  /\ fs \in Seq(Findings)
  /\ Once(fs)
  /\ CodesOf(fs) = {hs[i].code : i \in 1..k}
  /\ \E q : CountsTo(q, fs, k)

LEMMA MergedOnce ==
  ASSUME NEW fs \in Seq(Findings), NEW hit \in Hits, Once(fs)
  PROVE  Once(Merged(fs, hit)) /\ CodesOf(Merged(fs, hit)) = CodesOf(fs) \cup {hit.code}
<1> DEFINE m == Merged(fs, hit)
           n == Len(fs)
<1>1. /\ DOMAIN fs = 1..n /\ n \in Nat
      /\ m \in Seq(Findings) /\ DOMAIN m = 1..Len(m)
  BY MergedType
<1>2. CASE \E i \in DOMAIN fs : fs[i].code = hit.code
  <2>1. Len(m) = n /\ \A j \in 1..n : m[j].code = fs[j].code
    BY <1>2, MergedUpdates
  <2>2. CodesOf(m) = CodesOf(fs)
    <3> HIDE DEF m, n
    <3> QED BY <1>1, <2>1 DEF CodesOf
  <2>3. hit.code \in CodesOf(fs)
    BY <1>2 DEF CodesOf
  <2>4. Once(m)
    <3> HIDE DEF m, n
    <3> QED BY <1>1, <2>1 DEF Once
  <2> QED BY <2>2, <2>3, <2>4
<1>3. CASE ~\E i \in DOMAIN fs : fs[i].code = hit.code
  <2>1. /\ Len(m) = n + 1
        /\ \A j \in 1..n : m[j] = fs[j]
        /\ m[n + 1].code = hit.code
    BY <1>3, MergedAppends
  <2> HIDE DEF m, n
  <2>2. /\ DOMAIN m = 1..(n + 1)
        /\ \A j \in 1..(n + 1) : j \in 1..n \/ j = n + 1
        /\ n + 1 \in 1..(n + 1) /\ 1..n \subseteq 1..(n + 1)
    BY <1>1, <2>1
  <2>3. CodesOf(m) = CodesOf(fs) \cup {hit.code}
    BY <1>1, <2>1, <2>2 DEF CodesOf
  <2>4. Once(m)
    BY <1>1, <1>3, <2>1, <2>2 DEF Once
  <2> QED BY <2>3, <2>4 DEF m
<1> QED BY <1>2, <1>3

LEMMA MergedCounts ==
  ASSUME NEW fs \in Seq(Findings), NEW hit \in Hits, Once(fs),
         NEW q, NEW k \in Nat, CountsTo(q, fs, k)
  PROVE  \E p : CountsTo(p, Merged(fs, hit), k + 1)
<1> DEFINE m == Merged(fs, hit)
           n == Len(fs)
<1>1. /\ DOMAIN fs = 1..n /\ n \in Nat
      /\ q \in [0..n -> Nat] /\ q[0] = 0 /\ q[n] = k
      /\ \A j \in 1..n : q[j] = q[j - 1] + fs[j].occurrences /\ fs[j].occurrences \in Nat
  <2>1. DOMAIN fs = 1..n /\ n \in Nat /\ \A j \in 1..n : fs[j] \in Findings
    OBVIOUS
  <2>2. \A f \in Findings : f.occurrences \in Nat
    BY DEF Findings
  <2>3. /\ q \in [0..n -> Nat] /\ q[0] = 0 /\ q[n] = k
        /\ \A j \in 1..n : q[j] = q[j - 1] + fs[j].occurrences
    BY DEF CountsTo, Running
  <2> QED BY <2>1, <2>2, <2>3
<1>2. CASE \E i \in DOMAIN fs : fs[i].code = hit.code
  <2>1. PICK i \in 1..n : fs[i].code = hit.code
    BY <1>1, <1>2
  <2>2. \A j \in 1..n : fs[j].code = hit.code <=> j = i
    BY <1>1, <2>1 DEF Once
  <2>3. /\ Len(m) = n
        /\ \A j \in 1..n : m[j].occurrences =
             IF j = i THEN fs[j].occurrences + 1 ELSE fs[j].occurrences
    BY <1>2, <2>2, MergedUpdates
  <2> DEFINE p == [j \in 0..n |-> IF j >= i THEN q[j] + 1 ELSE q[j]]
  <2> HIDE DEF m, n
  <2>4. p \in [0..n -> Nat] /\ p[0] = 0 /\ p[n] = k + 1
    BY <1>1, <2>1
  <2>5. ASSUME NEW j \in 1..n PROVE p[j] = p[j - 1] + m[j].occurrences
    <3>1. j \in 0..n /\ j - 1 \in 0..n /\ j \in Int /\ i \in Int
      BY <1>1, <2>1
    <3>2. /\ p[j] = IF j >= i THEN q[j] + 1 ELSE q[j]
          /\ p[j - 1] = IF j - 1 >= i THEN q[j - 1] + 1 ELSE q[j - 1]
      BY <3>1
    <3>3. q[j] \in Nat /\ q[j - 1] \in Nat
      BY <1>1, <3>1
    <3> HIDE DEF p
    <3>4. q[j] = q[j - 1] + fs[j].occurrences /\ fs[j].occurrences \in Nat
      BY <1>1
    <3>5. m[j].occurrences = IF j = i THEN fs[j].occurrences + 1 ELSE fs[j].occurrences
      BY <2>3
    <3>6. CASE j < i
      <4>1. ~(j >= i) /\ ~(j - 1 >= i) /\ j # i
        BY <3>1, <3>6
      <4> QED BY <3>2, <3>4, <3>5, <4>1
    <3>7. CASE j = i
      <4>1. j >= i /\ ~(j - 1 >= i)
        BY <3>1, <3>7
      <4>2. p[j] = q[j] + 1 /\ p[j - 1] = q[j - 1] /\ m[j].occurrences = fs[j].occurrences + 1
        BY <3>2, <3>5, <3>7, <4>1
      <4> QED BY <3>3, <3>4, <4>2
    <3>8. CASE j > i
      <4>1. j >= i /\ j - 1 >= i /\ j # i
        BY <3>1, <3>8
      <4>2. p[j] = q[j] + 1 /\ p[j - 1] = q[j - 1] + 1 /\ m[j].occurrences = fs[j].occurrences
        BY <3>2, <3>5, <4>1
      <4> QED BY <3>3, <3>4, <4>2
    <3> QED BY <3>1, <3>6, <3>7, <3>8
  <2> HIDE DEF p
  <2>6. CountsTo(p, m, k + 1)
    BY <2>3, <2>4, <2>5 DEF CountsTo, Running
  <2> QED BY <2>6 DEF m
<1>3. CASE ~\E i \in DOMAIN fs : fs[i].code = hit.code
  <2>1. /\ Len(m) = n + 1
        /\ \A j \in 1..n : m[j] = fs[j]
        /\ m[n + 1].occurrences = 1
    BY <1>3, MergedAppends
  <2> DEFINE p == [j \in 0..(n + 1) |-> IF j = n + 1 THEN k + 1 ELSE q[j]]
  <2> HIDE DEF m, n
  <2>2. p \in [0..(n + 1) -> Nat] /\ p[0] = 0 /\ p[n + 1] = k + 1
    BY <1>1
  <2>3. ASSUME NEW j \in 1..(n + 1) PROVE p[j] = p[j - 1] + m[j].occurrences
    <3>1. CASE j = n + 1
      <4>1. p[n + 1] = k + 1 /\ p[n] = k
        BY <1>1
      <4> HIDE DEF p
      <4> QED BY <1>1, <2>1, <3>1, <4>1
    <3>2. CASE j # n + 1
      <4>1. j \in 1..n /\ j - 1 \in 0..n
        BY <1>1, <3>2
      <4>2. p[j] = q[j] /\ p[j - 1] = q[j - 1]
        BY <1>1, <4>1
      <4> HIDE DEF p
      <4> QED BY <1>1, <2>1, <4>1, <4>2
    <3> QED BY <3>1, <3>2
  <2> HIDE DEF p
  <2>4. CountsTo(p, m, k + 1)
    BY <2>1, <2>2, <2>3 DEF CountsTo, Running
  <2> QED BY <2>4 DEF m
<1> QED BY <1>2, <1>3

LEMMA Tallies ==
  ASSUME NEW hs \in Seq(Hits)
  PROVE  Tally(_dedupe(hs), hs, Len(hs))
<1>1. PICK F : MergedRun(F, hs) /\ _dedupe(hs) = F[Len(hs)]
  BY DedupeRuns
<1> DEFINE n == Len(hs)
           X == {k \in Nat : k <= n => Tally(F[k], hs, k)}
<1>2. n \in Nat /\ \A k \in 1..n : hs[k] \in Hits
  OBVIOUS
<1>3. 0 \in X
  <2> DEFINE q == [j \in 0..0 |-> 0]
  <2>1. F[0] = <<>> /\ <<>> \in Seq(Findings) /\ Len(<<>>) = 0 /\ DOMAIN <<>> = {}
    BY <1>1 DEF MergedRun
  <2>2. CountsTo(q, <<>>, 0)
    BY DEF CountsTo, Running
  <2>3. Once(<<>>) /\ CodesOf(<<>>) = {}
    BY <2>1 DEF Once, CodesOf
  <2>4. {hs[i].code : i \in 1..0} = {}
    OBVIOUS
  <2> HIDE DEF q
  <2>5. Tally(<<>>, hs, 0)
    BY <2>1, <2>2, <2>3, <2>4 DEF Tally
  <2> QED BY <2>1, <2>5
<1>4. ASSUME NEW k \in Nat, k \in X PROVE k + 1 \in X
  <2> SUFFICES ASSUME k + 1 <= n PROVE Tally(F[k + 1], hs, k + 1)
    OBVIOUS
  <2>1. Tally(F[k], hs, k) /\ k + 1 \in 1..n
    BY <1>2, <1>4
  <2>2. F[k + 1] = Merged(F[k], hs[k + 1]) /\ hs[k + 1] \in Hits
    <3>1. (k + 1) - 1 = k
      OBVIOUS
    <3> QED BY <1>1, <1>2, <2>1, <3>1 DEF MergedRun
  <2> DEFINE fs == F[k]
             hit == hs[k + 1]
  <2> HIDE DEF fs, hit, n, X
  <2>3. fs \in Seq(Findings) /\ Once(fs) /\ CodesOf(fs) = {hs[i].code : i \in 1..k}
    BY <2>1 DEF Tally, fs
  <2>4. PICK q : CountsTo(q, fs, k)
    BY <2>1 DEF Tally, fs
  <2>5. hit \in Hits
    BY <2>2 DEF hit
  <2>6. Merged(fs, hit) \in Seq(Findings)
    BY <2>3, <2>5, MergedType
  <2>7. Once(Merged(fs, hit)) /\ CodesOf(Merged(fs, hit)) = CodesOf(fs) \cup {hit.code}
    BY <2>3, <2>5, MergedOnce
  <2>8. \E p : CountsTo(p, Merged(fs, hit), k + 1)
    BY <2>3, <2>4, <2>5, MergedCounts
  <2>9. {hs[i].code : i \in 1..(k + 1)} = {hs[i].code : i \in 1..k} \cup {hs[k + 1].code}
    <3>1. 1..(k + 1) = (1..k) \cup {k + 1}
      OBVIOUS
    <3> QED BY <3>1
  <2>10. CodesOf(Merged(fs, hit)) = {hs[i].code : i \in 1..(k + 1)}
    BY <2>3, <2>7, <2>9 DEF hit
  <2>11. Tally(Merged(fs, hit), hs, k + 1)
    BY <2>6, <2>7, <2>8, <2>10 DEF Tally
  <2> QED BY <2>2, <2>11 DEF fs, hit
<1>5. n \in X
  <2> HIDE DEF X
  <2> QED BY <1>2, <1>3, <1>4, SetOfNumbers
<1> QED BY <1>1, <1>2, <1>5

\* The running sum of a sequence of findings is unique, and so is what FoldLeft makes of it.
LEMMA OccurrencesCounted ==
  ASSUME NEW fs \in Seq(Findings), NEW q, NEW total, CountsTo(q, fs, total)
  PROVE  Occurrences(fs) = total
<1>1. PICK p : Running(p, fs) /\ Occurrences(fs) = p[Len(fs)]
  BY OccurrencesRun
<1> DEFINE n == Len(fs)
           X == {k \in Nat : k <= n => p[k] = q[k]}
<1>2. n \in Nat
  OBVIOUS
<1>3. 0 \in X
  BY <1>1 DEF Running, CountsTo
<1>4. ASSUME NEW k \in Nat, k \in X PROVE k + 1 \in X
  <2> SUFFICES ASSUME k + 1 <= n PROVE p[k + 1] = q[k + 1]
    OBVIOUS
  <2>1. k + 1 \in 1..n /\ (k + 1) - 1 = k /\ p[k] = q[k]
    BY <1>2, <1>4
  <2>2. p[k + 1] = p[k] + fs[k + 1].occurrences /\ q[k + 1] = q[k] + fs[k + 1].occurrences
    BY <1>1, <2>1 DEF Running, CountsTo
  <2> QED BY <2>1, <2>2
<1>5. n \in X
  <2> HIDE DEF X
  <2> QED BY <1>2, <1>3, <1>4, SetOfNumbers
<1> QED BY <1>1, <1>2, <1>5 DEF CountsTo

LEMMA CodesOnce ==
  ASSUME NEW fs \in Seq(Findings), Once(fs)
  PROVE  Cardinality(CodesOf(fs)) = Len(fs)
<1> DEFINE n == Len(fs)
           f == [i \in 1..n |-> fs[i].code]
<1>1. n \in Nat /\ DOMAIN fs = 1..n
  OBVIOUS
<1>2. f \in Bijection(1..n, CodesOf(fs))
  <2>1. f \in [1..n -> CodesOf(fs)]
    BY <1>1 DEF CodesOf
  <2>2. \A i, j \in 1..n : f[i] = f[j] => i = j
    BY <1>1 DEF Once
  <2>3. \A c \in CodesOf(fs) : \E i \in 1..n : f[i] = c
    BY <1>1 DEF CodesOf
  <2> HIDE DEF f
  <2> QED BY <2>1, <2>2, <2>3 DEF Bijection, Injection, Surjection, IsInjective
<1>3. IsFiniteSet(1..n) /\ Cardinality(1..n) = n
  <2>1. 1 \in Int /\ n \in Int
    BY <1>1
  <2> QED BY <1>1, <2>1, FS_Interval
<1>4. ExistsBijection(1..n, CodesOf(fs))
  BY <1>2 DEF ExistsBijection
<1>5. Cardinality(CodesOf(fs)) = Cardinality(1..n)
  <2> HIDE DEF n, f
  <2> QED BY <1>3, <1>4, FS_Bijection
<1> QED BY <1>3, <1>5

-----------------------------------------------------------------------------
(* The hits of one tender. *)

LEMMA Joined ==
  ASSUME NEW a \in Seq(Hits), NEW b \in Seq(Hits)
  PROVE  a \o b \in Seq(Hits) /\ CodesOf(a \o b) = CodesOf(a) \cup CodesOf(b)
<1> DEFINE m == Len(a)
           n == Len(b)
           c == a \o b
<1>1. /\ m \in Nat /\ n \in Nat /\ DOMAIN a = 1..m /\ DOMAIN b = 1..n
      /\ c \in Seq(Hits) /\ DOMAIN c = 1..(m + n)
      /\ \A i \in 1..m : c[i] = a[i]
      /\ \A i \in 1..n : c[m + i] = b[i]
  OBVIOUS
<1> HIDE DEF m, n, c
<1>2. ASSUME NEW i \in 1..(m + n) PROVE i \in 1..m \/ \E j \in 1..n : i = m + j
  <2>1. CASE i <= m
    BY <1>1, <2>1
  <2>2. CASE i > m
    <3>1. i - m \in 1..n /\ i = m + (i - m)
      BY <1>1, <2>2
    <3> QED BY <3>1
  <2> QED BY <1>1, <2>1, <2>2
<1>3. CodesOf(c) \subseteq CodesOf(a) \cup CodesOf(b)
  <2> SUFFICES ASSUME NEW i \in 1..(m + n) PROVE c[i].code \in CodesOf(a) \cup CodesOf(b)
    BY <1>1 DEF CodesOf
  <2>1. CASE i \in 1..m
    BY <1>1, <2>1 DEF CodesOf
  <2>2. CASE \E j \in 1..n : i = m + j
    BY <1>1, <2>2 DEF CodesOf
  <2> QED BY <1>2, <2>1, <2>2
<1>4. ASSUME NEW i \in 1..m PROVE a[i].code \in CodesOf(c)
  <2>1. i \in 1..(m + n)
    BY <1>1
  <2> QED BY <1>1, <2>1 DEF CodesOf
<1>5. ASSUME NEW j \in 1..n PROVE b[j].code \in CodesOf(c)
  <2>1. m + j \in 1..(m + n)
    BY <1>1
  <2> QED BY <1>1, <2>1 DEF CodesOf
<1>6. CodesOf(a) \cup CodesOf(b) \subseteq CodesOf(c)
  BY <1>1, <1>4, <1>5 DEF CodesOf
<1> QED BY <1>1, <1>3, <1>6 DEF c

\* An indicator that is there once or not at all, and one that is there as often as its set says.
LEMMA Single ==
  ASSUME NEW condition, NEW hit \in Hits
  PROVE  /\ When(condition, hit) \in Seq(Hits)
         /\ CodesOf(When(condition, hit)) = IF condition THEN {hit.code} ELSE {}
<1>1. CASE condition
  <2>1. When(condition, hit) = <<hit>>
    BY <1>1 DEF When
  <2>2. <<hit>> \in Seq(Hits) /\ DOMAIN <<hit>> = {1} /\ <<hit>>[1] = hit
    OBVIOUS
  <2>3. CodesOf(<<hit>>) = {hit.code}
    BY <2>2 DEF CodesOf
  <2> QED BY <1>1, <2>1, <2>2, <2>3
<1>2. CASE ~condition
  <2>1. When(condition, hit) = <<>>
    BY <1>2 DEF When
  <2>2. <<>> \in Seq(Hits) /\ DOMAIN <<>> = {}
    OBVIOUS
  <2>3. CodesOf(<<>>) = {}
    BY <2>2 DEF CodesOf
  <2> QED BY <1>2, <2>1, <2>2, <2>3
<1> QED BY <1>1, <1>2

Copies(n, hit) == [i \in 1..n |-> hit]

LEMMA Many ==
  ASSUME NEW S, IsFiniteSet(S), NEW hit \in Hits
  PROVE  /\ Copies(Cardinality(S), hit) \in Seq(Hits)
         /\ CodesOf(Copies(Cardinality(S), hit)) = IF S # {} THEN {hit.code} ELSE {}
<1> DEFINE n == Cardinality(S)
           s == Copies(n, hit)
<1>1. n \in Nat /\ (n = 0 <=> S = {})
  BY FS_CardinalityType, FS_EmptySet
<1> HIDE DEF n
<1>2. s \in Seq(Hits) /\ DOMAIN s = 1..n /\ \A i \in 1..n : s[i] = hit
  BY <1>1 DEF Copies
<1>3. 1..n # {} <=> S # {}
  <2>1. n # 0 => 1 \in 1..n
    BY <1>1
  <2> QED BY <1>1, <2>1
<1> HIDE DEF s
<1>4. CodesOf(s) = IF S # {} THEN {hit.code} ELSE {}
  BY <1>2, <1>3 DEF CodesOf
<1> QED BY <1>2, <1>4 DEF s, n

LEMMA HitsFound ==
  ASSUME NEW t, WellFormed(t)
  PROVE  /\ hits(t) \in Seq(Hits)
         /\ "T01" \in CodesOf(hits(t)) <=> t01(t)
         /\ "T03" \in CodesOf(hits(t)) <=> t03(t)
         /\ "T06" \in CodesOf(hits(t)) <=> t06(t) # {}
<1>1. /\ Hit("T01", "HIGH") \in Hits /\ Hit("T02", "MEDIUM") \in Hits /\ Hit("T03", "HIGH") \in Hits
      /\ Hit("T04", "LOW") \in Hits /\ Hit("T06", "HIGH") \in Hits /\ Hit("T11", "HIGH") \in Hits
  BY DEF Hit, Hits, Codes
<1>2. /\ Hit("T01", "HIGH").code = "T01" /\ Hit("T02", "MEDIUM").code = "T02"
      /\ Hit("T03", "HIGH").code = "T03" /\ Hit("T04", "LOW").code = "T04"
      /\ Hit("T06", "HIGH").code = "T06" /\ Hit("T11", "HIGH").code = "T11"
  BY DEF Hit
<1>3. IsFiniteSet(t02(t))
  <2>1. t.awards \in Seq(Nat)
    BY DEF WellFormed
  <2>2. DOMAIN t.awards = 1..Len(t.awards) /\ 1 \in Int /\ Len(t.awards) \in Int
    BY <2>1
  <2>3. IsFiniteSet(DOMAIN t.awards)
    BY <2>2, FS_Interval
  <2>4. t02(t) \subseteq DOMAIN t.awards
    BY DEF t02
  <2> QED BY <2>3, <2>4, FS_Subset
<1>4. IsFiniteSet(t06(t))
  BY SharedFound
<1> DEFINE h1 == When(t01(t), Hit("T01", "HIGH"))
           h2 == Copies(Cardinality(t02(t)), Hit("T02", "MEDIUM"))
           h3 == When(t03(t), Hit("T03", "HIGH"))
           h4 == When(t04(t), Hit("T04", "LOW"))
           h6 == Copies(Cardinality(t06(t)), Hit("T06", "HIGH"))
           h11 == When(t11(t), Hit("T11", "HIGH"))
<1>5. h1 \in Seq(Hits) /\ CodesOf(h1) = IF t01(t) THEN {"T01"} ELSE {}
  BY <1>1, <1>2, Single
<1>6. h2 \in Seq(Hits) /\ CodesOf(h2) = IF t02(t) # {} THEN {"T02"} ELSE {}
  <2> DEFINE S == t02(t)
             hit == Hit("T02", "MEDIUM")
  <2>1. IsFiniteSet(S) /\ hit \in Hits /\ hit.code = "T02"
    BY <1>1, <1>2, <1>3
  <2> HIDE DEF S, hit
  <2>2. /\ Copies(Cardinality(S), hit) \in Seq(Hits)
        /\ CodesOf(Copies(Cardinality(S), hit)) = IF S # {} THEN {hit.code} ELSE {}
    BY <2>1, Many
  <2> QED BY <2>1, <2>2, Zenon DEF S, hit
<1>7. h3 \in Seq(Hits) /\ CodesOf(h3) = IF t03(t) THEN {"T03"} ELSE {}
  BY <1>1, <1>2, Single
<1>8. h4 \in Seq(Hits) /\ CodesOf(h4) = IF t04(t) THEN {"T04"} ELSE {}
  BY <1>1, <1>2, Single
<1>9. h6 \in Seq(Hits) /\ CodesOf(h6) = IF t06(t) # {} THEN {"T06"} ELSE {}
  <2> DEFINE S == t06(t)
             hit == Hit("T06", "HIGH")
  <2>1. IsFiniteSet(S) /\ hit \in Hits /\ hit.code = "T06"
    BY <1>1, <1>2, <1>4
  <2> HIDE DEF S, hit
  <2>2. /\ Copies(Cardinality(S), hit) \in Seq(Hits)
        /\ CodesOf(Copies(Cardinality(S), hit)) = IF S # {} THEN {hit.code} ELSE {}
    BY <2>1, Many
  <2> QED BY <2>1, <2>2, Zenon DEF S, hit
<1>10. h11 \in Seq(Hits) /\ CodesOf(h11) = IF t11(t) THEN {"T11"} ELSE {}
  BY <1>1, <1>2, Single
<1>11. hits(t) = ((((h1 \o h2) \o h3) \o h4) \o h6) \o h11
  BY Zenon DEF hits, Copies
<1> HIDE DEF h1, h2, h3, h4, h6, h11
<1>12. h1 \o h2 \in Seq(Hits) /\ CodesOf(h1 \o h2) = CodesOf(h1) \cup CodesOf(h2)
  BY <1>5, <1>6, Joined
<1> DEFINE s2 == h1 \o h2
<1> HIDE DEF s2
<1>13. s2 \o h3 \in Seq(Hits) /\ CodesOf(s2 \o h3) = CodesOf(s2) \cup CodesOf(h3)
  BY <1>7, <1>12, Joined DEF s2
<1> DEFINE s3 == s2 \o h3
<1> HIDE DEF s3
<1>14. s3 \o h4 \in Seq(Hits) /\ CodesOf(s3 \o h4) = CodesOf(s3) \cup CodesOf(h4)
  BY <1>8, <1>13, Joined DEF s3
<1> DEFINE s4 == s3 \o h4
<1> HIDE DEF s4
<1>15. s4 \o h6 \in Seq(Hits) /\ CodesOf(s4 \o h6) = CodesOf(s4) \cup CodesOf(h6)
  BY <1>9, <1>14, Joined DEF s4
<1> DEFINE s6 == s4 \o h6
<1> HIDE DEF s6
<1>16. s6 \o h11 \in Seq(Hits) /\ CodesOf(s6 \o h11) = CodesOf(s6) \cup CodesOf(h11)
  BY <1>10, <1>15, Joined DEF s6
<1>17. hits(t) = s6 \o h11
  BY <1>11, Zenon DEF s6, s4, s3, s2
<1>18. /\ CodesOf(s6) = CodesOf(s4) \cup CodesOf(h6) /\ CodesOf(s4) = CodesOf(s3) \cup CodesOf(h4)
       /\ CodesOf(s3) = CodesOf(s2) \cup CodesOf(h3) /\ CodesOf(s2) = CodesOf(h1) \cup CodesOf(h2)
  BY <1>12, <1>13, <1>14, <1>15, Zenon DEF s2, s3, s4, s6
<1>19. CodesOf(hits(t)) = CodesOf(h1) \cup CodesOf(h2) \cup CodesOf(h3)
                            \cup CodesOf(h4) \cup CodesOf(h6) \cup CodesOf(h11)
  BY <1>16, <1>17, <1>18
<1>20. "T01" \in CodesOf(hits(t)) <=> t01(t)
  BY <1>5, <1>6, <1>7, <1>8, <1>9, <1>10, <1>19
<1>21. "T03" \in CodesOf(hits(t)) <=> t03(t)
  BY <1>5, <1>6, <1>7, <1>8, <1>9, <1>10, <1>19
<1>22. "T06" \in CodesOf(hits(t)) <=> t06(t) # {}
  BY <1>5, <1>6, <1>7, <1>8, <1>9, <1>10, <1>19
<1> QED BY <1>16, <1>17, <1>20, <1>21, <1>22

FlagsOf(t) ==
  LET findings == evaluate_tender(t)
  IN /\ "T01" \in CodesOf(findings) <=> SomeCluster(t)
     /\ "T03" \in CodesOf(findings) <=> SomeBoundaryShaved(t)
     /\ "T06" \in CodesOf(findings) <=> SomeSharedDetail(t)
     /\ Cardinality(CodesOf(findings)) = Len(findings)
     /\ Occurrences(findings) = Len(hits(t))

LEMMA FlagsFound ==
  ASSUME NEW t, WellFormed(t)
  PROVE  FlagsOf(t)
<1> DEFINE fs == evaluate_tender(t)
           hs == hits(t)
<1>1. /\ hs \in Seq(Hits)
      /\ "T01" \in CodesOf(hs) <=> t01(t)
      /\ "T03" \in CodesOf(hs) <=> t03(t)
      /\ "T06" \in CodesOf(hs) <=> t06(t) # {}
  BY HitsFound
<1>2. fs = _dedupe(hs)
  BY DEF evaluate_tender
<1> HIDE DEF fs, hs
<1>3. Tally(fs, hs, Len(hs))
  BY <1>1, <1>2, Tallies
<1>4. fs \in Seq(Findings) /\ Once(fs) /\ CodesOf(fs) = CodesOf(hs)
  <2>1. DOMAIN hs = 1..Len(hs)
    BY <1>1
  <2> QED BY <1>3, <2>1 DEF Tally, CodesOf
<1>5. Occurrences(fs) = Len(hs)
  BY <1>3, <1>4, OccurrencesCounted DEF Tally
<1>6. Cardinality(CodesOf(fs)) = Len(fs)
  BY <1>4, CodesOnce
<1>7. "T01" \in CodesOf(fs) <=> SomeCluster(t)
  BY <1>1, <1>4, ClusterFound
<1>8. "T03" \in CodesOf(fs) <=> SomeBoundaryShaved(t)
  BY <1>1, <1>4, BoundaryFound
<1>9. "T06" \in CodesOf(fs) <=> SomeSharedDetail(t)
  BY <1>1, <1>4, SharedFound
<1> QED BY <1>5, <1>6, <1>7, <1>8, <1>9 DEF fs, hs, FlagsOf

-----------------------------------------------------------------------------
\* For every tender, T01 is raised exactly where its published definition holds, and T03
\* and T06 where theirs do as far as the code goes (one class of bands; phone, e-mail,
\* numbers and owners of bidders of different names), though evaluate_tender() only looks
\* at neighbours in the sorted amounts and at the nearest boundary; and merging names each
\* indicator once and loses no occurrence.
THEOREM FlagsMeanWhatIsPublished == Spec => []FlagsAsDefined
<1> DEFINE Flags == input.kind = "tender" => FlagsOf(input)
<1>1. Flags <=> FlagsAsDefined
  BY Zenon DEF FlagsOf, FlagsAsDefined, CodesOf, Occurrences
<1>2. Init => Flags
  <2> SUFFICES ASSUME Init, input.kind = "tender" PROVE FlagsOf(input)
    OBVIOUS
  <2>1. WellFormed(input)
    BY MatrixAssumption, RecordAssumption DEF Init
  <2> QED BY <2>1, FlagsFound
<1>3. Flags /\ UNCHANGED input => Flags'
  OBVIOUS
<1> QED BY <1>1, <1>2, <1>3, PTL DEF Spec, Next


-----------------------------------------------------------------------------
\* In every matrix the database accepts, whatever its years, classes and methods, the
\* routing of a flagged boundary's amount asks for the authorities of the bands that start
\* there; and where the active bands are of one year, an approval published as correct is
\* the one that year's page asks for.
THEOREM AuthoritiesAgree == Spec => []FlagNamesEscapedBody
<1>1. Init => FlagNamesEscapedBody
  <2> SUFFICES ASSUME Init, input.kind = "tender" PROVE FlagNamesEscapedBody
    BY DEF FlagNamesEscapedBody
  <2>1. WellFormed(input)
    BY MatrixAssumption, RecordAssumption DEF Init
  <2>2. ASSUME NEW r \in next_higher(input), covers(r, r.min_amount)
        PROVE  determine_body(input.rules, r.min_amount, NoRule)
                 = {_match_body(s.approval_body) :
                      s \in {q \in active(input) : q.min_amount = r.min_amount /\ covers(q, q.min_amount)}}
    BY <2>1, <2>2, RoutedAtFloor
  <2>3. ASSUME input.rule = NoRule, is_correct(input), NEW fy, active(input) = rules_page(input, fy),
               {r \in rules_page(input, fy) : covers(r, value_checked(input))} # {}
        PROVE  \E r \in {s \in rules_page(input, fy) : covers(s, value_checked(input))} :
                 /\ _match_body(r.approval_body) = "AO"
                 /\ \A s \in {q \in rules_page(input, fy) : covers(q, value_checked(input))} :
                      s.min_amount <= r.min_amount
    BY <2>1, <2>3, CorrectApproval
  <2> QED BY <2>2, <2>3, Zenon DEF FlagNamesEscapedBody
<1>2. FlagNamesEscapedBody /\ UNCHANGED input => FlagNamesEscapedBody'
  BY DEF FlagNamesEscapedBody
<1> QED BY <1>1, <1>2, PTL DEF Spec, Next

\* No record of a contract whose price did not fall earns a grade A with growth above 12%,
\* four snags or five missed milestones.
THEOREM GradesAreEarned == Spec => []GradesEarned
<1>1. Init => GradesEarned
  <2> SUFFICES ASSUME Init, input.kind = "record", input.growth >= 0
               PROVE  /\ composite(input) \in 0..10000
                      /\ grade(input) = "A" =>
                           input.growth <= 12 /\ input.snags <= 3 /\ input.missed <= 4
    BY DEF GradesEarned
  <2>1. input \in Records
    BY MatrixAssumption DEF Init, WellFormed
  <2> QED BY <2>1, RecordAssumption, GradeEarned
<1>2. GradesEarned /\ UNCHANGED input => GradesEarned'
  BY DEF GradesEarned
<1> QED BY <1>1, <1>2, PTL DEF Spec, Next
==============================================================================
