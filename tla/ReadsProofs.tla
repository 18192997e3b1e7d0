---------------------------- MODULE ReadsProofs -----------------------------
(***************************************************************************)
(* What Reads promises for any roster, log of trades, set of wallets,      *)
(* windows and limit of the ranking, however the statements of the pages   *)
(* and the writers interleave: a page whose statements saw one state holds *)
(* together, and pages of one state and interval agree.                    *)
(*                                                                         *)
(* First sums: in parts, by groups, along a sequence.  Then orders, cards, *)
(* ranking and board, calendar; last the pages while they are put together.*)
(***************************************************************************)
EXTENDS FiguresProofs, Reads

-----------------------------------------------------------------------------
(* Sums in parts and by groups.                                            *)

\* Any member can be taken out.
LEMMA OneOut ==
    ASSUME NEW S, IsFiniteSet(S), NEW g \in [S -> Int], NEW f, Sums(f, g, S), NEW s \in SUBSET S, NEW x \in s
    PROVE  f[s] = g[x] + f[s \ {x}]
  BY AnyOrder

LEMMA OneAlone ==
    ASSUME NEW S, IsFiniteSet(S), NEW g \in [S -> Int], NEW f, Sums(f, g, S), NEW x \in S
    PROVE  f[{x}] = g[x]
<1>1. PICK q : q = {x}
  OBVIOUS
<1>2. PICK e : e = {}
  OBVIOUS
<1>3. q \in SUBSET S /\ e \in SUBSET S /\ q # {} /\ q \ {x} = e
  BY <1>1, <1>2
<1>4. TakenOut(q) = x
  BY <1>1, NextIs
<1>5. f[q] = g[x] + f[e]
  BY <1>3, <1>4 DEF Sums, Adds
<1>6. f[e] = 0
  BY <1>2, <1>3 DEF Sums, Adds
<1> QED
  BY <1>1, <1>5, <1>6

Alone(f, g, S) == \A x \in S : f[{x}] = g[x]

LEMMA AllAlone ==
    ASSUME NEW S, IsFiniteSet(S), NEW g \in [S -> Int], NEW f, Sums(f, g, S)
    PROVE  Alone(f, g, S)
<1>1. ASSUME NEW x \in S PROVE f[{x}] = g[x]
  BY OneAlone
<1> QED
  BY <1>1 DEF Alone

\* A sum of two parts that share nothing.
LEMMA TwoParts ==
    ASSUME NEW S, IsFiniteSet(S), NEW g \in [S -> Int], NEW f, Sums(f, g, S),
           NEW A \in SUBSET S, NEW B \in SUBSET S, A \cap B = {}
    PROVE  f[A \cup B] = f[A] + f[B]
<1> DEFINE Good == {s \in SUBSET S : s \cap A = {} => f[A \cup s] = f[A] + f[s]}
<1>0. \A s \in SUBSET S : f[s] \in Int
  BY DEF Sums
<1>1. ASSUME NEW s \in SUBSET S, \A t \in SUBSET S : t \subseteq s /\ t # s => t \in Good
      PROVE  s \in Good
  <2> SUFFICES ASSUME s \cap A = {} PROVE f[A \cup s] = f[A] + f[s]
    OBVIOUS
  <2>1. CASE s = {}
    <3>1. f[s] = 0
      BY <2>1 DEF Sums, Adds
    <3>2. A \cup s = A
      BY <2>1
    <3>3. f[A] \in Int
      BY <1>0
    <3>4. f[A] + f[s] = f[A]
      BY <3>1, <3>3
    <3> QED
      BY <3>2, <3>4
  <2>2. CASE s # {}
    <3>1. PICK x \in s : TRUE
      BY <2>2
    <3> DEFINE r == s \ {x}
    <3>2. r \in Good /\ r \cap A = {} /\ r \in SUBSET S
      <4>1. r \in SUBSET S /\ r \subseteq s /\ r # s /\ r \cap A = {}
        BY <3>1
      <4> HIDE DEF Good, r
      <4> QED
        BY <4>1, <1>1
    <3>3. f[A \cup r] = f[A] + f[r]
      BY <3>2
    <3>4. f[s] = g[x] + f[r]
      BY <3>1, AnyOrder
    <3>5. f[A \cup s] = g[x] + f[(A \cup s) \ {x}]
      <4>1. A \cup s \in SUBSET S /\ x \in A \cup s
        BY <3>1
      <4> QED
        BY <4>1, AnyOrder
    <3>6. (A \cup s) \ {x} = A \cup r
      BY <3>1
    <3>7. g[x] \in Int /\ f[r] \in Int /\ f[A] \in Int
      BY <3>1, <3>2, <1>0
    <3> HIDE DEF r
    <3>8. f[A \cup s] = g[x] + (f[A] + f[r])
      BY <3>3, <3>5, <3>6
    <3>9. \A a, b, c \in Int : a + (b + c) = b + (a + c)
      OBVIOUS
    <3>10. g[x] + (f[A] + f[r]) = f[A] + (g[x] + f[r])
      BY <3>7, <3>9
    <3> QED
      BY <3>4, <3>8, <3>10
  <2> QED
    BY <2>1, <2>2
<1>2. Good \in SUBSET (SUBSET S)
  OBVIOUS
<1>3. \A s \in SUBSET S : s \in Good
  <2> HIDE DEF Good
  <2> QED
    BY <1>1, <1>2, SubsetInduction
<1> QED
  BY <1>3

\* Each term of h is what f says of its group.
Groups(key, S, T, f, h) == key \in [S -> T] /\ \A t \in T : h[t] = f[{x \in S : key[x] = t}]

\* A sum by groups: each term of the second sum is the sum of the members of its group.
LEMMA ByGroups ==
    ASSUME NEW S, IsFiniteSet(S), NEW g \in [S -> Int], NEW f, Sums(f, g, S),
           NEW T, IsFiniteSet(T), NEW h \in [T -> Int], NEW k, Sums(k, h, T),
           NEW key, Groups(key, S, T, f, h)
    PROVE  f[S] = k[T]
<1> DEFINE Of(U) == {x \in S : key[x] \in U}
           Good == {U \in SUBSET T : f[Of(U)] = k[U]}
<1>0. key \in [S -> T] /\ \A t \in T : h[t] = f[{x \in S : key[x] = t}]
  BY DEF Groups
<1>1. ASSUME NEW s \in SUBSET T, \A t \in SUBSET T : t \subseteq s /\ t # s => t \in Good
      PROVE  s \in Good
  <2> SUFFICES f[Of(s)] = k[s]
    OBVIOUS
  <2>1. CASE s = {}
    <3>1. Of(s) = {} /\ {} \in SUBSET S
      BY <2>1
    <3>2. f[{}] = 0 /\ k[s] = 0
      BY <3>1, <2>1 DEF Sums, Adds
    <3> QED
      BY <3>1, <3>2
  <2>2. CASE s # {}
    <3>1. PICK x \in s : TRUE
      BY <2>2
    <3> DEFINE r == s \ {x}
               G == {y \in S : key[y] = x}
    <3>2. r \in SUBSET T /\ r \subseteq s /\ r # s
      BY <3>1
    <3>3. f[Of(r)] = k[r]
      <4>1. r \in Good
        <5> HIDE DEF Good, r
        <5> QED
          BY <3>2, <1>1
      <4> QED
        BY <4>1
    <3>4. k[s] = h[x] + k[r]
      BY <3>1, OneOut, Z3
    <3>5. f[G \cup Of(r)] = f[G] + f[Of(r)]
      <4> DEFINE O == Of(r)
      <4>1. G \in SUBSET S
        OBVIOUS
      <4>2. O \in SUBSET S
        OBVIOUS
      <4>3. \A y \in G : y \notin O
        OBVIOUS
      <4>4. f[G \cup O] = f[G] + f[O]
        <5> HIDE DEF G, O
        <5>1. G \cap O = {}
          BY <4>3
        <5> QED
          BY <4>1, <4>2, <5>1, TwoParts
      <4> QED
        BY <4>4
    <3>6. G \cup Of(r) = Of(s)
      BY <3>1
    <3>7. h[x] = f[G]
      BY <1>0, <3>1
    <3> HIDE DEF G, Of, r
    <3> QED
      BY <3>3, <3>4, <3>5, <3>6, <3>7
  <2> QED
    BY <2>1, <2>2
<1>2. Good \in SUBSET (SUBSET T)
  OBVIOUS
<1>3. \A s \in SUBSET T : s \in Good
  <2> HIDE DEF Good
  <2> QED
    BY <1>1, <1>2, SubsetInduction
<1>4. f[Of(T)] = k[T]
  BY <1>3
<1>5. Of(T) = S
  BY <1>0
<1> QED
  BY <1>4, <1>5

\* TotalSol of some rows is a sum of theirs, whatever set of rows it is part of.
LEMMA SolAdds ==
    ASSUME NEW S, IsFiniteSet(S), NEW g \in [S -> Int], NEW f, Sums(f, g, S),
           NEW Q \in SUBSET S, \A x \in Q : g[x] = x.sol
    PROVE  TotalSol(Q) = f[Q] /\ TotalSol(Q) \in Int
<1> DEFINE Fold(h) == h = [s \in SUBSET Q |->
                           IF s = {} THEN 0 ELSE (CHOOSE x \in s : TRUE).sol + h[s \ {CHOOSE x \in s : TRUE}]]
           h0 == CHOOSE h : Fold(h)
           e == [s \in SUBSET Q |-> f[s]]
<1>1. ASSUME NEW s \in SUBSET Q, s # {}
      PROVE  g[CHOOSE x \in s : TRUE] = (CHOOSE x \in s : TRUE).sol /\ s \ {CHOOSE x \in s : TRUE} \in SUBSET Q
  BY <1>1
<1>2. Fold(e)
  <2>1. ASSUME NEW s \in SUBSET Q
        PROVE  e[s] = IF s = {} THEN 0 ELSE (CHOOSE x \in s : TRUE).sol + e[s \ {CHOOSE x \in s : TRUE}]
    <3>1. s \in SUBSET S
      OBVIOUS
    <3>2. f[s] = IF s = {} THEN 0 ELSE g[CHOOSE x \in s : TRUE] + f[s \ {CHOOSE x \in s : TRUE}]
      BY <3>1 DEF Sums, Adds, TakenOut
    <3> QED
      BY <3>2, <1>1
  <2> HIDE DEF e
  <2>2. e = [s \in SUBSET Q |-> e[s]]
    BY DEF e
  <2> QED
    BY <2>1, <2>2
<1>3. Fold(h0)
  <2> HIDE DEF Fold
  <2> QED
    BY <1>2
<1>4. TotalSol(Q) = h0[Q]
  BY DEF TotalSol, MapThenSumSet, MapThenFoldSet
<1>5. Adds(h0, g, Q)
  <2> HIDE DEF h0
  <2> QED
    BY <1>1, <1>3 DEF Adds, TakenOut
<1> HIDE DEF h0
<1>7. Adds(f, g, S)
  BY DEF Sums
<1>8. \A u \in SUBSET (Q \cap S) : h0[u] = f[u]
  BY <1>5, <1>7, SumsAgree
<1>9. f[Q] \in Int
  BY DEF Sums
<1> QED
  BY <1>4, <1>8, <1>9

\* The same of their dollars.
LEMMA UsdAdds ==
    ASSUME NEW S, IsFiniteSet(S), NEW g \in [S -> Int], NEW f, Sums(f, g, S),
           NEW Q \in SUBSET S, \A x \in Q : g[x] = x.usd
    PROVE  TotalUsd(Q) = f[Q] /\ TotalUsd(Q) \in Int
<1> DEFINE Fold(h) == h = [s \in SUBSET Q |->
                           IF s = {} THEN 0 ELSE (CHOOSE x \in s : TRUE).usd + h[s \ {CHOOSE x \in s : TRUE}]]
           h0 == CHOOSE h : Fold(h)
           e == [s \in SUBSET Q |-> f[s]]
<1>1. ASSUME NEW s \in SUBSET Q, s # {}
      PROVE  g[CHOOSE x \in s : TRUE] = (CHOOSE x \in s : TRUE).usd /\ s \ {CHOOSE x \in s : TRUE} \in SUBSET Q
  BY <1>1
<1>2. Fold(e)
  <2>1. ASSUME NEW s \in SUBSET Q
        PROVE  e[s] = IF s = {} THEN 0 ELSE (CHOOSE x \in s : TRUE).usd + e[s \ {CHOOSE x \in s : TRUE}]
    <3>1. s \in SUBSET S
      OBVIOUS
    <3>2. f[s] = IF s = {} THEN 0 ELSE g[CHOOSE x \in s : TRUE] + f[s \ {CHOOSE x \in s : TRUE}]
      BY <3>1 DEF Sums, Adds, TakenOut
    <3> QED
      BY <3>2, <1>1
  <2> HIDE DEF e
  <2>2. e = [s \in SUBSET Q |-> e[s]]
    BY DEF e
  <2> QED
    BY <2>1, <2>2
<1>3. Fold(h0)
  <2> HIDE DEF Fold
  <2> QED
    BY <1>2
<1>4. TotalUsd(Q) = h0[Q]
  BY DEF TotalUsd, MapThenSumSet, MapThenFoldSet
<1>5. Adds(h0, g, Q)
  <2> HIDE DEF h0
  <2> QED
    BY <1>1, <1>3 DEF Adds, TakenOut
<1> HIDE DEF h0
<1>7. Adds(f, g, S)
  BY DEF Sums
<1>8. \A u \in SUBSET (Q \cap S) : h0[u] = f[u]
  BY <1>5, <1>7, SumsAgree
<1>9. f[Q] \in Int
  BY DEF Sums
<1> QED
  BY <1>4, <1>8, <1>9

\* What the rows at some places of a sequence say.
SolAt(r, Q) == MapThenSumSet(LAMBDA i : r[i].sol, Q)

\* The same of rows by their place in a sequence.
LEMMA PlaceAdds ==
    ASSUME NEW S, IsFiniteSet(S), NEW g \in [S -> Int], NEW f, Sums(f, g, S),
           NEW Q \in SUBSET S, NEW r, \A x \in Q : g[x] = r[x].sol
    PROVE  SolAt(r, Q) = f[Q] /\ SolAt(r, Q) \in Int
<1> DEFINE Fold(h) == h = [s \in SUBSET Q |->
                           IF s = {} THEN 0 ELSE r[CHOOSE x \in s : TRUE].sol + h[s \ {CHOOSE x \in s : TRUE}]]
           h0 == CHOOSE h : Fold(h)
           e == [s \in SUBSET Q |-> f[s]]
<1>1. ASSUME NEW s \in SUBSET Q, s # {}
      PROVE  g[CHOOSE x \in s : TRUE] = r[CHOOSE x \in s : TRUE].sol /\ s \ {CHOOSE x \in s : TRUE} \in SUBSET Q
  BY <1>1
<1>2. Fold(e)
  <2>1. ASSUME NEW s \in SUBSET Q
        PROVE  e[s] = IF s = {} THEN 0 ELSE r[CHOOSE x \in s : TRUE].sol + e[s \ {CHOOSE x \in s : TRUE}]
    <3>1. s \in SUBSET S
      OBVIOUS
    <3>2. f[s] = IF s = {} THEN 0 ELSE g[CHOOSE x \in s : TRUE] + f[s \ {CHOOSE x \in s : TRUE}]
      BY <3>1 DEF Sums, Adds, TakenOut
    <3> QED
      BY <3>2, <1>1
  <2> HIDE DEF e
  <2>2. e = [s \in SUBSET Q |-> e[s]]
    BY DEF e
  <2> QED
    BY <2>1, <2>2
<1>3. Fold(h0)
  <2> HIDE DEF Fold
  <2> QED
    BY <1>2
<1>4. SolAt(r, Q) = h0[Q]
  BY DEF SolAt, MapThenSumSet, MapThenFoldSet
<1>5. Adds(h0, g, Q)
  <2> HIDE DEF h0
  <2> QED
    BY <1>1, <1>3 DEF Adds, TakenOut
<1> HIDE DEF h0
<1>7. Adds(f, g, S)
  BY DEF Sums
<1>8. \A u \in SUBSET (Q \cap S) : h0[u] = f[u]
  BY <1>5, <1>7, SumsAgree
<1>9. f[Q] \in Int
  BY DEF Sums
<1> QED
  BY <1>4, <1>8, <1>9

LEMMA MaxIs ==
    ASSUME NEW S, IsFiniteSet(S), S \subseteq Int, S # {}
    PROVE  Max(S) \in S /\ \A y \in S : y <= Max(S)
<1>1. PICK x \in S : \A y \in S : y <= x
  BY Greatest
<1>2. \A y \in S : x >= y
  BY <1>1
<1>3. Max(S) \in S /\ \A y \in S : Max(S) >= y
  BY <1>2 DEF Max
<1> QED
  BY <1>3

\* A running total in the order of a sequence is the sum of its rows.
RunningSol(r) == FoldLeft(LAMBDA sum, point : sum + point.sol, 0, r)

OfInts(D) == D \subseteq Int

LEMMA RunningAdds ==
    ASSUME NEW D, IsFiniteSet(D), OfInts(D), NEW r, DOMAIN r = D,
           NEW g \in [D -> Int], \A i \in D : g[i] = r[i].sol,
           NEW f, Sums(f, g, D)
    PROVE  RunningSol(r) = f[D]
<1> DEFINE Fold(h) == h = [s \in SUBSET D |->
                           IF s = {} THEN 0 ELSE h[s \ {Max(s)}] + r[Max(s)].sol]
           h0 == CHOOSE h : Fold(h)
<1>2. ASSUME NEW s \in SUBSET D, s # {} PROVE Max(s) \in s
  <2>1. IsFiniteSet(s) /\ s \subseteq Int
    BY FS_Subset DEF OfInts
  <2> QED
    BY <1>2, <2>1, MaxIs
<1>3. ASSUME NEW s \in SUBSET D
      PROVE  f[s] = IF s = {} THEN 0 ELSE f[s \ {Max(s)}] + r[Max(s)].sol
  <2>1. CASE s = {}
    BY <2>1 DEF Sums, Adds
  <2>2. CASE s # {}
    <3>1. PICK m : m = Max(s)
      OBVIOUS
    <3>2. m \in s
      BY <2>2, <3>1, <1>2
    <3>3. f[s] = g[m] + f[s \ {m}]
      BY <3>2, OneOut
    <3>4. g[m] = r[m].sol /\ g[m] \in Int /\ f[s \ {m}] \in Int
      BY <3>2 DEF Sums
    <3>5. f[s] = f[s \ {m}] + r[m].sol
      BY <3>3, <3>4
    <3> QED
      BY <2>2, <3>1, <3>5
  <2> QED
    BY <2>1, <2>2
<1>4. Fold(f)
  <2>1. f = [s \in SUBSET D |-> f[s]]
    BY DEF Sums
  <2> QED
    BY <1>3, <2>1
<1>5. Fold(h0)
  <2> HIDE DEF Fold
  <2> QED
    BY <1>4
<1>6. RunningSol(r) = h0[D]
  BY DEF RunningSol, FoldLeft, MapThenFoldSet
<1> DEFINE Good == {s \in SUBSET D : h0[s] = f[s]}
<1>7. ASSUME NEW s \in SUBSET D, \A t \in SUBSET D : t \subseteq s /\ t # s => t \in Good
      PROVE  s \in Good
  <2> SUFFICES h0[s] = f[s]
    OBVIOUS
  <2>1. h0[s] = IF s = {} THEN 0 ELSE h0[s \ {Max(s)}] + r[Max(s)].sol
    <3> HIDE DEF h0
    <3> QED
      BY <1>5
  <2>2. CASE s = {}
    BY <2>1, <2>2, <1>3
  <2>3. CASE s # {}
    <3>1. PICK m : m = Max(s)
      OBVIOUS
    <3>2. m \in s
      BY <2>3, <3>1, <1>2
    <3>3. s \ {m} \in Good
      <4>1. s \ {m} \in SUBSET D /\ s \ {m} \subseteq s /\ s \ {m} # s
        BY <3>2
      <4> HIDE DEF Good
      <4> QED
        BY <4>1, <1>7
    <3>4. h0[s \ {m}] = f[s \ {m}]
      BY <3>3
    <3> HIDE DEF h0, Good
    <3> QED
      BY <2>1, <2>3, <3>1, <3>4, <1>3
  <2> QED
    BY <2>2, <2>3
<1>8. Good \in SUBSET (SUBSET D)
  OBVIOUS
<1>9. \A s \in SUBSET D : s \in Good
  <2> HIDE DEF Good, h0, Fold
  <2>1. \A s \in SUBSET D : (\A t \in SUBSET D : t \subseteq s /\ t # s => t \in Good) => s \in Good
    BY <1>7
  <2>2. IsFiniteSet(D)
    OBVIOUS
  <2> QED
    BY <1>8, <2>1, <2>2, SubsetInduction
<1>10. h0[D] = f[D]
  <2> HIDE DEF h0
  <2> QED
    BY <1>9
<1> QED
  BY <1>6, <1>10

-----------------------------------------------------------------------------
(* Rows in an order.                                                       *)

\* s has every member of S in one place.
Lists(s, S) ==
    /\ Cardinality(S) \in Nat /\ s \in [1 .. Cardinality(S) -> S]
    /\ \A x \in S : \E i \in 1 .. Cardinality(S) : s[i] = x
    /\ \A i, j \in 1 .. Cardinality(S) : s[i] = s[j] => i = j

\* A strict order of all of S.
Orders(R, S) ==
    /\ \A x \in S : <<x, x>> \notin R
    /\ \A x, y \in S : x # y => <<x, y>> \in R \/ <<y, x>> \in R
    /\ \A x, y, z \in S : <<x, y>> \in R /\ <<y, z>> \in R => <<x, z>> \in R

\* B are those that come before each, and s counts them.
Befores(B, R, S) == B \in [S -> SUBSET S] /\ \A x \in S : B[x] = {y \in S : <<y, x>> \in R}

Counts(s, B, S) ==
    /\ DOMAIN s = 1 .. Cardinality(S) /\ s = [i \in DOMAIN s |-> s[i]]
    /\ \A i \in 1 .. Cardinality(S) :
          (\E x \in S : Cardinality(B[x]) = i - 1) => s[i] \in S /\ Cardinality(B[s[i]]) = i - 1

\* Where the i-th is the one that i - 1 come before, everyone has one place.
LEMMA CountingOrders ==
    ASSUME NEW S, IsFiniteSet(S), NEW R, Orders(R, S), NEW B, Befores(B, R, S), NEW s, Counts(s, B, S)
    PROVE  Lists(s, S)
<1> DEFINE n == Cardinality(S)
           c == [x \in S |-> Cardinality(B[x])]
<1>0. /\ B \in [S -> SUBSET S] /\ \A x \in S : B[x] = {y \in S : <<y, x>> \in R}
      /\ DOMAIN s = 1 .. n /\ s = [i \in DOMAIN s |-> s[i]]
      /\ \A i \in 1 .. n :
            (\E x \in S : Cardinality(B[x]) = i - 1) => s[i] \in S /\ Cardinality(B[s[i]]) = i - 1
  BY DEF Befores, Counts
<1>1. n \in Nat
  BY FS_CardinalityType
<1>2. ASSUME NEW x \in S PROVE IsFiniteSet(B[x]) /\ c[x] \in 0 .. n - 1
  <2>1. B[x] \in SUBSET S
    BY <1>0
  <2>2. IsFiniteSet(B[x]) /\ Cardinality(B[x]) <= n /\ (n = Cardinality(B[x]) => S = B[x])
    BY <2>1, FS_Subset
  <2>3. Cardinality(B[x]) \in Nat
    BY <2>2, FS_CardinalityType
  <2>4. x \notin B[x]
    <3>1. <<x, x>> \notin R
      BY DEF Orders
    <3>2. B[x] = {y \in S : <<y, x>> \in R}
      BY <1>0
    <3> QED
      BY <3>1, <3>2
  <2> QED
    BY <1>1, <2>2, <2>3, <2>4
<1>3. ASSUME NEW x \in S, NEW y \in S, <<x, y>> \in R PROVE c[x] < c[y]
  <2>1. B[x] \in SUBSET B[y]
    BY <1>0, <1>3 DEF Orders
  <2>2. x \in B[y] /\ x \notin B[x]
    <3>1. <<x, x>> \notin R
      BY DEF Orders
    <3>2. B[x] = {z \in S : <<z, x>> \in R} /\ B[y] = {z \in S : <<z, y>> \in R}
      BY <1>0
    <3> QED
      BY <1>3, <3>1, <3>2
  <2>3. IsFiniteSet(B[y])
    BY <1>2
  <2>4. Cardinality(B[x]) <= Cardinality(B[y]) /\ (Cardinality(B[y]) = Cardinality(B[x]) => B[y] = B[x])
    BY <2>1, <2>3, FS_Subset
  <2>5. Cardinality(B[x]) \in Int /\ Cardinality(B[y]) \in Int
    BY <1>2
  <2> QED
    BY <2>2, <2>4, <2>5
<1>4. \A x, y \in S : c[x] = c[y] => x = y
  <2> SUFFICES ASSUME NEW x \in S, NEW y \in S, c[x] = c[y], x # y PROVE FALSE
    OBVIOUS
  <2>1. <<x, y>> \in R \/ <<y, x>> \in R
    BY DEF Orders
  <2>2. c[x] \in Int /\ c[y] \in Int
    BY <1>2
  <2> HIDE DEF c
  <2>3. c[x] < c[y] \/ c[y] < c[x]
    BY <2>1, <1>3
  <2> QED
    BY <2>2, <2>3
<1>5. \A k \in 0 .. n - 1 : \E x \in S : c[x] = k
  <2> DEFINE T == 0 .. n - 1
  <2>1. c \in [S -> T]
    BY <1>2
  <2>2. c \in Injection(S, T)
    <3> HIDE DEF c, T
    <3> QED
      BY <1>4, <2>1 DEF Injection, IsInjective
  <2>3. IsFiniteSet(T) /\ Cardinality(T) = n
    <3> HIDE DEF n
    <3>1. 0 \in Int /\ n - 1 \in Int
      BY <1>1
    <3>2. IsFiniteSet(0 .. n - 1) /\ Cardinality(0 .. n - 1) = IF 0 > n - 1 THEN 0 ELSE n - 1 - 0 + 1
      BY <3>1, FS_Interval
    <3> QED
      BY <1>1, <3>2
  <2>4. c \in Surjection(S, T)
    <3> HIDE DEF c, T
    <3>1. IsFiniteSet(T)
      BY <2>3
    <3> QED
      BY <2>2, <2>3, <3>1, FS_Injection
  <2>5. \A t \in T : \E x \in S : c[x] = t
    <3> HIDE DEF c, T
    <3> QED
      BY <2>4 DEF Surjection
  <2> QED
    BY <2>5
<1>6. ASSUME NEW i \in 1 .. n PROVE s[i] \in S /\ c[s[i]] = i - 1
  <2>1. i - 1 \in 0 .. n - 1
    BY <1>1
  <2>2. \E x \in S : Cardinality(B[x]) = i - 1
    BY <1>5, <2>1
  <2> QED
    BY <1>0, <2>2
<1>7. ASSUME NEW x \in S PROVE \E i \in 1 .. n : s[i] = x
  <2>1. c[x] + 1 \in 1 .. n /\ (c[x] + 1) - 1 = c[x]
    BY <1>1, <1>2
  <2> HIDE DEF c, n
  <2>2. s[c[x] + 1] \in S /\ c[s[c[x] + 1]] = c[x]
    BY <1>6, <2>1
  <2> QED
    BY <1>4, <2>1, <2>2
<1>8. \A i, j \in 1 .. n : s[i] = s[j] => i = j
  <2> SUFFICES ASSUME NEW i \in 1 .. n, NEW j \in 1 .. n, s[i] = s[j] PROVE i = j
    OBVIOUS
  <2> HIDE DEF c, n
  <2>1. i - 1 = j - 1
    BY <1>6
  <2> QED
    BY <2>1, <1>1
<1>9. s \in [1 .. n -> S]
  BY <1>0, <1>6
<1> QED
  BY <1>1, <1>7, <1>8, <1>9 DEF Lists

\* The four orders: of the ranking, of a card's chains, of the days and of the board.
Ranked(S) == InOrder(S, RanksBefore)
ByTotal(S) == InOrder(S, LAMBDA r, s : r.sol > s.sol \/ (r.sol = s.sol /\ r.guild < s.guild))


\* The ranking has every row once: no two are of one KOL.
LEMMA RankedLists ==
    ASSUME NEW S, IsFiniteSet(S), \A r \in S : r.usd \in Int /\ r.kol \in Int,
           \A r, q \in S : r.kol = q.kol => r = q
    PROVE  Lists(Ranked(S), S)
<1> DEFINE R == {p \in S \X S : RanksBefore(p[1], p[2])}
           B == [x \in S |-> {q \in S : RanksBefore(q, x)}]
           F(i) == CHOOSE x \in S : Cardinality({q \in S : RanksBefore(q, x)}) = i - 1
<1>1. Orders(R, S)
  <2>1. \A x, y \in S : <<x, y>> \in R <=> RanksBefore(x, y)
    BY Zenon
  <2> HIDE DEF R
  <2>2. \A x \in S : <<x, x>> \notin R
    BY <2>1 DEF RanksBefore
  <2>3. \A x, y \in S : x # y => <<x, y>> \in R \/ <<y, x>> \in R
    BY <2>1 DEF RanksBefore
  <2>4. \A x, y, z \in S : <<x, y>> \in R /\ <<y, z>> \in R => <<x, z>> \in R
    BY <2>1 DEF RanksBefore
  <2> QED
    BY <2>2, <2>3, <2>4 DEF Orders
<1>2. B \in [S -> SUBSET S]
  OBVIOUS
<1>3. \A x \in S : B[x] = {y \in S : <<y, x>> \in R}
  OBVIOUS
<1>4. PICK s : s = [i \in 1 .. Cardinality(S) |-> F(i)]
  OBVIOUS
<1>5. Ranked(S) = s
  BY <1>4 DEF Ranked, InOrder
<1>6. DOMAIN s = 1 .. Cardinality(S)
  BY <1>4
<1>7. s = [i \in DOMAIN s |-> s[i]]
  <2> HIDE DEF F
  <2> QED
    BY <1>4
<1>8. ASSUME NEW i \in 1 .. Cardinality(S), NEW x \in S, Cardinality(B[x]) = i - 1
      PROVE  s[i] \in S /\ Cardinality(B[s[i]]) = i - 1
  <2>1. s[i] = CHOOSE z \in S : Cardinality({q \in S : RanksBefore(q, z)}) = i - 1
    BY <1>4
  <2>2. Cardinality({q \in S : RanksBefore(q, x)}) = i - 1
    BY <1>8
  <2>3. s[i] \in S /\ Cardinality({q \in S : RanksBefore(q, s[i])}) = i - 1
    BY <2>1, <2>2
  <2> QED
    BY <2>3
<1> HIDE DEF R, B
<1>9. Counts(s, B, S)
  BY <1>6, <1>7, <1>8 DEF Counts
<1>10. Befores(B, R, S)
  BY <1>2, <1>3 DEF Befores
<1> QED
  BY <1>1, <1>5, <1>9, <1>10, CountingOrders

\* So has the series every day.
\* And the board every cabal.
LEMMA ByTotalLists ==
    ASSUME NEW S, IsFiniteSet(S), \A r \in S : r.sol \in Int /\ r.guild \in Int,
           \A r, q \in S : r.guild = q.guild => r = q
    PROVE  Lists(ByTotal(S), S)
<1> DEFINE R == {p \in S \X S : p[1].sol > p[2].sol \/ (p[1].sol = p[2].sol /\ p[1].guild < p[2].guild)}
           B == [x \in S |-> {q \in S : q.sol > x.sol \/ (q.sol = x.sol /\ q.guild < x.guild)}]
           F(i) == CHOOSE x \in S : Cardinality({q \in S : q.sol > x.sol \/ (q.sol = x.sol /\ q.guild < x.guild)}) = i - 1
<1>1. Orders(R, S)
  <2>1. \A x, y \in S : <<x, y>> \in R <=> x.sol > y.sol \/ (x.sol = y.sol /\ x.guild < y.guild)
    BY Zenon
  <2> HIDE DEF R
  <2>2. \A x \in S : <<x, x>> \notin R
    BY <2>1
  <2>3. \A x, y \in S : x # y => <<x, y>> \in R \/ <<y, x>> \in R
    BY <2>1
  <2>4. \A x, y, z \in S : <<x, y>> \in R /\ <<y, z>> \in R => <<x, z>> \in R
    BY <2>1
  <2> QED
    BY <2>2, <2>3, <2>4 DEF Orders
<1>2. B \in [S -> SUBSET S]
  OBVIOUS
<1>3. \A x \in S : B[x] = {y \in S : <<y, x>> \in R}
  OBVIOUS
<1>4. PICK s : s = [i \in 1 .. Cardinality(S) |-> F(i)]
  OBVIOUS
<1>5. ByTotal(S) = s
  BY <1>4 DEF ByTotal, InOrder
<1>6. DOMAIN s = 1 .. Cardinality(S)
  BY <1>4
<1>7. s = [i \in DOMAIN s |-> s[i]]
  <2> HIDE DEF F
  <2> QED
    BY <1>4
<1>8. ASSUME NEW i \in 1 .. Cardinality(S), NEW x \in S, Cardinality(B[x]) = i - 1
      PROVE  s[i] \in S /\ Cardinality(B[s[i]]) = i - 1
  <2>1. s[i] = CHOOSE z \in S : Cardinality({q \in S : q.sol > z.sol \/ (q.sol = z.sol /\ q.guild < z.guild)}) = i - 1
    BY <1>4
  <2>2. Cardinality({q \in S : q.sol > x.sol \/ (q.sol = x.sol /\ q.guild < x.guild)}) = i - 1
    BY <1>8
  <2>3. s[i] \in S /\ Cardinality({q \in S : q.sol > s[i].sol \/ (q.sol = s[i].sol /\ q.guild < s[i].guild)}) = i - 1
    BY <2>1, <2>2
  <2> QED
    BY <2>3
<1> HIDE DEF R, B
<1>9. Counts(s, B, S)
  BY <1>6, <1>7, <1>8 DEF Counts
<1>10. Befores(B, R, S)
  BY <1>2, <1>3 DEF Befores
<1> QED
  BY <1>1, <1>5, <1>9, <1>10, CountingOrders

-----------------------------------------------------------------------------
(* What a card shows.                                                      *)

\* What the writers keep: realized figures stand of recorded sells only.
TablesOK ==
    /\ recorded \subseteq Trades /\ replayed \subseteq {t \in recorded : t.side = "sell"}
    /\ posted \subseteq replayed /\ approved \subseteq Roster

\* The sells of one chain, and what its entry says.
SoldOn(k, b, chain) == {t \in Contributing(k, b) : t.chain = chain}
EntryOn(k, b, chain) == ChainEntry(chain, SoldOn(k, b, chain))

LEMMA ContributingIs ==
    ASSUME TablesOK, NEW k, NEW b
    PROVE  /\ IsFiniteSet(Contributing(k, b)) /\ Contributing(k, b) \subseteq replayed
           /\ \A t \in Contributing(k, b) :
                 /\ t.kol = k /\ t.chain \in Range(ChainOrder) /\ t.at \in Nat /\ t.at >= b.from /\ t.at < b.to
                 /\ t.sol \in Int /\ t.usd \in Int
<1>1. Contributing(k, b) \subseteq replayed /\ replayed \subseteq Trades
  BY DEF TablesOK, Contributing, Within
<1>2. IsFiniteSet(Contributing(k, b))
  BY <1>1, ReadsAssumption, FS_Subset
<1>3. \A t \in Contributing(k, b) : t.kol = k /\ t.at >= b.from /\ t.at < b.to
  BY DEF Contributing, Within
<1>4. \A t \in Trades : /\ t.chain \in Range(ChainOrder) /\ t.at \in Nat
                        /\ t.sol \in Int /\ t.usd \in Int
  BY ReadsAssumption
<1> QED
  BY <1>1, <1>2, <1>3, <1>4

\* TotalSol of some rows is of an integer each.
LEMMA TotalSolIs ==
    ASSUME NEW S, IsFiniteSet(S), \A x \in S : x.sol \in Int
    PROVE  /\ TotalSol(S) \in Int
           /\ \E f : /\ Sums(f, [x \in S |-> x.sol], S)
                     /\ \A Q \in SUBSET S : TotalSol(Q) = f[Q]
<1>1. PICK g : g = [x \in S |-> x.sol]
  OBVIOUS
<1>2. g \in [S -> Int] /\ \A x \in S : g[x] = x.sol
  BY <1>1
<1>3. PICK f : Sums(f, g, S)
  BY <1>2, SumsExist
<1>4. ASSUME NEW Q \in SUBSET S PROVE TotalSol(Q) = f[Q] /\ TotalSol(Q) \in Int
  BY <1>2, <1>3, SolAdds
<1>5. TotalSol(S) \in Int
  BY <1>4
<1> QED
  BY <1>1, <1>3, <1>4, <1>5

LEMMA TotalUsdIs ==
    ASSUME NEW S, IsFiniteSet(S), \A x \in S : x.usd \in Int
    PROVE  /\ TotalUsd(S) \in Int
           /\ \E f : /\ Sums(f, [x \in S |-> x.usd], S)
                     /\ \A Q \in SUBSET S : TotalUsd(Q) = f[Q]
<1>1. PICK g : g = [x \in S |-> x.usd]
  OBVIOUS
<1>2. g \in [S -> Int] /\ \A x \in S : g[x] = x.usd
  BY <1>1
<1>3. PICK f : Sums(f, g, S)
  BY <1>2, SumsExist
<1>4. ASSUME NEW Q \in SUBSET S PROVE TotalUsd(Q) = f[Q] /\ TotalUsd(Q) \in Int
  BY <1>2, <1>3, UsdAdds
<1>5. TotalUsd(S) \in Int
  BY <1>4
<1> QED
  BY <1>1, <1>3, <1>4, <1>5

\* The rows of a sum by groups, of rows: each target is the sum of its group in SOL.
LEMMA GroupsOfSol ==
    ASSUME NEW S, IsFiniteSet(S), \A x \in S : x.sol \in Int,
           NEW T, IsFiniteSet(T), \A y \in T : y.sol \in Int,
           NEW key, key \in [S -> T],
           \A y \in T : y.sol = TotalSol({x \in S : key[x] = y})
    PROVE  TotalSol(S) = TotalSol(T)
<1>1. PICK g : g = [x \in S |-> x.sol]
  OBVIOUS
<1>2. PICK h : h = [y \in T |-> y.sol]
  OBVIOUS
<1>3. g \in [S -> Int]
  BY <1>1
<1>4. h \in [T -> Int]
  BY <1>2
<1>5. PICK f : Sums(f, g, S) /\ \A Q \in SUBSET S : TotalSol(Q) = f[Q]
  BY <1>1, TotalSolIs
<1>6. PICK k : Sums(k, h, T) /\ \A Q \in SUBSET T : TotalSol(Q) = k[Q]
  BY <1>2, TotalSolIs
<1>7. ASSUME NEW y \in T PROVE h[y] = f[{x \in S : key[x] = y}]
  <2>1. {x \in S : key[x] = y} \in SUBSET S
    OBVIOUS
  <2>2. TotalSol({x \in S : key[x] = y}) = f[{x \in S : key[x] = y}]
    BY <1>5, <2>1
  <2>3. h[y] = y.sol
    BY <1>2
  <2> QED
    BY <2>2, <2>3
<1>8. f[S] = k[T]
  <2>1. Sums(f, g, S)
    BY <1>5
  <2>2. Sums(k, h, T)
    BY <1>6
  <2>3. Groups(key, S, T, f, h)
    BY <1>7 DEF Groups
  <2> QED
    BY <1>3, <1>4, <2>1, <2>2, <2>3, ByGroups
<1>9. TotalSol(S) = f[S] /\ TotalSol(T) = k[T]
  BY <1>5, <1>6
<1> QED
  BY <1>8, <1>9

\* What a function makes of a finite set.
LEMMA ImageIs ==
    ASSUME NEW S, IsFiniteSet(S), NEW T, NEW f \in [S -> T], \A y \in T : \E x \in S : f[x] = y
    PROVE  IsFiniteSet(T) /\ Cardinality(T) <= Cardinality(S)
<1>1. f \in Surjection(S, T)
  BY DEF Surjection
<1> QED
  BY <1>1, FS_Surjection

LEMMA ChainsAre ==
    /\ Range(ChainOrder) = {"ethereum", "robinhood", "bnb", "solana"} /\ DOMAIN ChainOrder = 1 .. 4
    /\ IsFiniteSet(Range(ChainOrder))
<1>1. DOMAIN ChainOrder = 1 .. 4
  BY DEF ChainOrder
<1>2. Range(ChainOrder) = {ChainOrder[i] : i \in 1 .. 4}
  BY <1>1 DEF Range
<1>3. 1 .. 4 = {1, 2, 3, 4}
  OBVIOUS
<1>4. ChainOrder[1] = "ethereum" /\ ChainOrder[2] = "robinhood" /\ ChainOrder[3] = "bnb" /\ ChainOrder[4] = "solana"
  BY DEF ChainOrder
<1>5. Range(ChainOrder) = {ChainOrder[1], ChainOrder[2], ChainOrder[3], ChainOrder[4]}
  BY <1>2, <1>3
<1>6. Range(ChainOrder) = {"ethereum", "robinhood", "bnb", "solana"}
  BY <1>4, <1>5
<1>7. IsFiniteSet({"ethereum"})
  BY FS_Singleton
<1>8. IsFiniteSet({"ethereum"} \cup {"robinhood"})
  BY <1>7, FS_AddElement
<1>9. IsFiniteSet(({"ethereum"} \cup {"robinhood"}) \cup {"bnb"})
  BY <1>8, FS_AddElement
<1>10. IsFiniteSet((({"ethereum"} \cup {"robinhood"}) \cup {"bnb"}) \cup {"solana"})
  BY <1>9, FS_AddElement
<1>11. Range(ChainOrder) = (({"ethereum"} \cup {"robinhood"}) \cup {"bnb"}) \cup {"solana"}
  BY <1>6
<1> QED
  BY <1>1, <1>6, <1>10, <1>11

LEMMA SoldOnIs ==
    ASSUME TablesOK, NEW k, NEW b, NEW c
    PROVE  /\ SoldOn(k, b, c) \subseteq Contributing(k, b) /\ IsFiniteSet(SoldOn(k, b, c))
           /\ TotalSol(SoldOn(k, b, c)) \in Int
<1>1. SoldOn(k, b, c) \subseteq Contributing(k, b)
  BY DEF SoldOn
<1>2. IsFiniteSet(SoldOn(k, b, c))
  BY <1>1, ContributingIs, FS_Subset
<1>3. \A t \in SoldOn(k, b, c) : t.sol \in Int
  BY <1>1, ContributingIs
<1> QED
  BY <1>1, <1>2, <1>3, TotalSolIs

\* The chains of a card: those it sold on, each with what it sold there.
LEMMA ChainPnlIs ==
    ASSUME TablesOK, NEW k, NEW b
    PROVE  /\ IsFiniteSet(ChainPnl(k, b))
           /\ \A e \in ChainPnl(k, b) :
                 /\ e.chain \in Range(ChainOrder) /\ SoldOn(k, b, e.chain) # {} /\ e = EntryOn(k, b, e.chain)
                 /\ e.sol = TotalSol(SoldOn(k, b, e.chain)) /\ e.sol \in Int
           /\ \A t \in Contributing(k, b) :
                 EntryOn(k, b, t.chain) \in ChainPnl(k, b) /\ EntryOn(k, b, t.chain).chain = t.chain
<1> DEFINE CH == {c \in Range(ChainOrder) : SoldOn(k, b, c) # {}}
<1>1. ChainPnl(k, b) = {EntryOn(k, b, c) : c \in CH}
  BY DEF ChainPnl, EntryOn, SoldOn
<1>2. \A c : EntryOn(k, b, c).chain = c /\ EntryOn(k, b, c).sol = TotalSol(SoldOn(k, b, c))
  BY DEF EntryOn, ChainEntry
<1>3. IsFiniteSet(CH)
  BY ChainsAre, FS_Subset
<1>4. PICK E : E = ChainPnl(k, b)
  OBVIOUS
<1>5. PICK f : f = [c \in CH |-> EntryOn(k, b, c)]
  OBVIOUS
<1>6. f \in [CH -> E] /\ \A y \in E : \E x \in CH : f[x] = y
  BY <1>1, <1>4, <1>5
<1>7. IsFiniteSet(E)
  <2> HIDE DEF CH
  <2>1. f \in [CH -> E]
    BY <1>6
  <2>2. \A y \in E : \E x \in CH : f[x] = y
    BY <1>6
  <2> QED
    BY <1>3, <2>1, <2>2, ImageIs
<1>8. ASSUME NEW e \in ChainPnl(k, b)
      PROVE  /\ e.chain \in Range(ChainOrder) /\ SoldOn(k, b, e.chain) # {} /\ e = EntryOn(k, b, e.chain)
             /\ e.sol = TotalSol(SoldOn(k, b, e.chain)) /\ e.sol \in Int
  <2>1. PICK c \in CH : e = EntryOn(k, b, c)
    BY <1>1
  <2> QED
    BY <1>2, <2>1, SoldOnIs
<1>9. ASSUME NEW t \in Contributing(k, b)
      PROVE  EntryOn(k, b, t.chain) \in ChainPnl(k, b) /\ EntryOn(k, b, t.chain).chain = t.chain
  <2>1. t \in SoldOn(k, b, t.chain) /\ t.chain \in Range(ChainOrder)
    BY ContributingIs DEF SoldOn
  <2> QED
    BY <1>1, <1>2, <2>1
<1> QED
  BY <1>4, <1>7, <1>8, <1>9

\* They add up to what was sold.
LEMMA ChainsAddUp ==
    ASSUME TablesOK, NEW k, NEW b
    PROVE  TotalSol(ChainPnl(k, b)) = TotalSol(Contributing(k, b))
<1>1. PICK S : S = Contributing(k, b)
  OBVIOUS
<1>2. PICK T : T = ChainPnl(k, b)
  OBVIOUS
<1>3. PICK key : key = [t \in S |-> EntryOn(k, b, t.chain)]
  OBVIOUS
<1>4. IsFiniteSet(S)
  BY <1>1, ContributingIs
<1>5. \A x \in S : x.sol \in Int
  BY <1>1, ContributingIs
<1>6. IsFiniteSet(T)
  BY <1>2, ChainPnlIs
<1>7. \A y \in T : y.sol \in Int
  BY <1>2, ChainPnlIs
<1>8. key \in [S -> T]
  BY <1>1, <1>2, <1>3, ChainPnlIs
<1>9. ASSUME NEW y \in T PROVE y.sol = TotalSol({x \in S : key[x] = y})
  <2>1. y = EntryOn(k, b, y.chain) /\ y.sol = TotalSol(SoldOn(k, b, y.chain))
    BY <1>2, ChainPnlIs
  <2>2. \A x \in S : key[x] = EntryOn(k, b, x.chain) /\ EntryOn(k, b, x.chain).chain = x.chain
    BY <1>1, <1>3, ChainPnlIs
  <2>3. \A x \in S : key[x] = y <=> x.chain = y.chain
    BY <2>1, <2>2
  <2>4. {x \in S : key[x] = y} = SoldOn(k, b, y.chain)
    BY <1>1, <2>3 DEF SoldOn
  <2> QED
    BY <2>1, <2>4
<1> QED
  BY <1>1, <1>2, <1>4, <1>5, <1>6, <1>7, <1>8, <1>9, GroupsOfSol

\* The chains of a card in the order the page shows them.
ChainPlace(e) == CHOOSE i \in DOMAIN ChainOrder : ChainOrder[i] = e.chain

LEMMA ChainPlaceIs ==
    ASSUME NEW e, e.chain \in Range(ChainOrder)
    PROVE  ChainPlace(e) \in 1 .. 4 /\ ChainOrder[ChainPlace(e)] = e.chain
<1>1. \E i \in DOMAIN ChainOrder : ChainOrder[i] = e.chain
  BY DEF Range
<1>2. ChainPlace(e) \in DOMAIN ChainOrder /\ ChainOrder[ChainPlace(e)] = e.chain
  BY <1>1 DEF ChainPlace
<1> QED
  BY <1>2, ChainsAre

LEMMA ChainsListed ==
    ASSUME NEW S, IsFiniteSet(S), \A e \in S : e.chain \in Range(ChainOrder),
           \A d, e \in S : d.chain = e.chain => d = e
    PROVE  Lists(OrderChains(S), S)
<1> DEFINE R == {p \in S \X S : ChainPlace(p[1]) < ChainPlace(p[2])}
           B == [x \in S |-> {q \in S : ChainPlace(q) < ChainPlace(x)}]
           F(i) == CHOOSE x \in S : Cardinality({q \in S : ChainPlace(q) < ChainPlace(x)}) = i - 1
<1>1. Orders(R, S)
  <2>1. \A x, y \in S : <<x, y>> \in R <=> ChainPlace(x) < ChainPlace(y)
    BY Zenon
  <2>2. \A x \in S : ChainPlace(x) \in Int
    BY ChainPlaceIs
  <2> HIDE DEF R
  <2>3. \A x, y \in S : x # y => ChainPlace(x) # ChainPlace(y)
    BY ChainPlaceIs
  <2>4. \A x \in S : <<x, x>> \notin R
    BY <2>1, <2>2
  <2>5. \A x, y \in S : x # y => <<x, y>> \in R \/ <<y, x>> \in R
    BY <2>1, <2>2, <2>3
  <2>6. \A x, y, z \in S : <<x, y>> \in R /\ <<y, z>> \in R => <<x, z>> \in R
    BY <2>1, <2>2
  <2> QED
    BY <2>4, <2>5, <2>6 DEF Orders
<1>2. B \in [S -> SUBSET S]
  OBVIOUS
<1>3. \A x \in S : B[x] = {y \in S : <<y, x>> \in R}
  OBVIOUS
<1>4. PICK s : s = [i \in 1 .. Cardinality(S) |-> F(i)]
  OBVIOUS
<1>5. OrderChains(S) = s
  BY <1>4 DEF OrderChains, InOrder, ChainPlace
<1>6. DOMAIN s = 1 .. Cardinality(S)
  BY <1>4
<1>7. s = [i \in DOMAIN s |-> s[i]]
  <2> HIDE DEF F
  <2> QED
    BY <1>4
<1>8. ASSUME NEW i \in 1 .. Cardinality(S), NEW x \in S, Cardinality(B[x]) = i - 1
      PROVE  s[i] \in S /\ Cardinality(B[s[i]]) = i - 1
  <2>1. s[i] = CHOOSE z \in S : Cardinality({q \in S : ChainPlace(q) < ChainPlace(z)}) = i - 1
    BY <1>4
  <2>2. Cardinality({q \in S : ChainPlace(q) < ChainPlace(x)}) = i - 1
    BY <1>8
  <2>3. s[i] \in S /\ Cardinality({q \in S : ChainPlace(q) < ChainPlace(s[i])}) = i - 1
    BY <2>1, <2>2
  <2> QED
    BY <2>3
<1> HIDE DEF R, B
<1>9. Counts(s, B, S)
  BY <1>6, <1>7, <1>8 DEF Counts
<1>10. Befores(B, R, S)
  BY <1>2, <1>3 DEF Befores
<1> QED
  BY <1>1, <1>5, <1>9, <1>10, CountingOrders

\* A list says in SOL what its rows say.
LEMMA ListAddsUp ==
    ASSUME NEW S, IsFiniteSet(S), \A x \in S : x.sol \in Int, NEW r, Lists(r, S),
           NEW D, DOMAIN r = D, NEW g \in [D -> Int], \A i \in D : g[i] = r[i].sol, NEW f, Sums(f, g, D)
    PROVE  f[D] = TotalSol(S)
<1>1. PICK n : n = Cardinality(S)
  OBVIOUS
<1>2. n \in Nat /\ r \in [1 .. n -> S]
  BY <1>1 DEF Lists
<1>3. D = 1 .. n
  BY <1>2
<1>4. IsFiniteSet(D)
  BY <1>2, <1>3, FS_Interval
<1>5. Alone(f, g, D)
  BY <1>4, AllAlone
<1>6. PICK h : h = [x \in S |-> x.sol]
  OBVIOUS
<1>7. h \in [S -> Int]
  BY <1>6
<1>8. PICK k : Sums(k, h, S) /\ TotalSol(S) = k[S]
  BY <1>6, TotalSolIs
<1>9. Groups(r, D, S, f, h)
  <2>1. ASSUME NEW x \in S PROVE h[x] = f[{i \in D : r[i] = x}]
    <3>1. PICK i \in D : r[i] = x
      BY <1>1, <1>3 DEF Lists
    <3>2. \A j \in D : r[j] = x => j = i
      BY <1>1, <1>3, <3>1 DEF Lists
    <3>3. {j \in D : r[j] = x} = {i}
      BY <3>1, <3>2
    <3>4. f[{i}] = g[i]
      BY <1>5, <3>1 DEF Alone
    <3>5. h[x] = g[i]
      BY <1>6, <3>1
    <3> QED
      BY <3>3, <3>4, <3>5
  <2>2. r \in [D -> S]
    BY <1>2, <1>3
  <2> QED
    BY <2>1, <2>2 DEF Groups
<1>10. f[D] = k[S]
  <2>1. Sums(k, h, S)
    BY <1>8
  <2> QED
    BY <1>4, <1>7, <1>9, <2>1, ByGroups
<1> QED
  BY <1>8, <1>10

\* So does its running total.
LEMMA RunningIsTotal ==
    ASSUME NEW S, IsFiniteSet(S), \A x \in S : x.sol \in Int, NEW r, Lists(r, S)
    PROVE  RunningSol(r) = TotalSol(S)
<1>1. PICK D : D = DOMAIN r
  OBVIOUS
<1>2. PICK g : g = [i \in D |-> r[i].sol]
  OBVIOUS
<1>3. D = 1 .. Cardinality(S) /\ Cardinality(S) \in Nat /\ r \in [D -> S]
  BY <1>1 DEF Lists
<1>4. g \in [D -> Int]
  BY <1>2, <1>3
<1>5. IsFiniteSet(D)
  BY <1>3, FS_Interval
<1>6. PICK f : Sums(f, g, D)
  BY <1>4, <1>5, SumsExist
<1>7. \A i \in D : g[i] = r[i].sol
  BY <1>2
<1>8. DOMAIN r = D
  BY <1>1
<1>9. f[D] = TotalSol(S)
  BY <1>4, <1>6, <1>7, <1>8, ListAddsUp
<1>10. OfInts(D)
  BY <1>3 DEF OfInts
<1>11. RunningSol(r) = f[D]
  BY <1>4, <1>5, <1>6, <1>7, <1>8, <1>10, RunningAdds
<1> QED
  BY <1>9, <1>11

\* What the rows at some places of a list say is what those rows say.
LEMMA PlacesAddUp ==
    ASSUME NEW S, IsFiniteSet(S), \A x \in S : x.sol \in Int, NEW r, Lists(r, S),
           NEW Q, Q \subseteq DOMAIN r, NEW T, T \subseteq S,
           \A x \in T : \E i \in Q : r[i] = x, \A i \in Q : r[i] \in T
    PROVE  SolAt(r, Q) = TotalSol(T)
<1>1. DOMAIN r = 1 .. Cardinality(S) /\ Cardinality(S) \in Nat /\ r \in [DOMAIN r -> S]
  BY DEF Lists
<1>2. IsFiniteSet(Q) /\ IsFiniteSet(T)
  <2>1. IsFiniteSet(DOMAIN r)
    BY <1>1, FS_Interval
  <2> QED
    BY <2>1, FS_Subset
<1>3. PICK g : g = [i \in Q |-> r[i].sol]
  OBVIOUS
<1>4. PICK key : key = [i \in Q |-> r[i]]
  OBVIOUS
<1>5. PICK h : h = [x \in T |-> x.sol]
  OBVIOUS
<1>6. h \in [T -> Int] /\ key \in [Q -> T]
  BY <1>4, <1>5
<1>7. g \in [Q -> Int]
  BY <1>3
<1>8. PICK f : Sums(f, g, Q)
  BY <1>2, <1>7, SumsExist
<1>9. PICK k : Sums(k, h, T) /\ TotalSol(T) = k[T]
  <2>1. \A x \in T : x.sol \in Int
    OBVIOUS
  <2> QED
    BY <1>2, <1>5, <2>1, TotalSolIs
<1>10. SolAt(r, Q) = f[Q]
  <2>1. \A x \in Q : g[x] = r[x].sol
    BY <1>3
  <2>2. Q \in SUBSET Q
    OBVIOUS
  <2> QED
    BY <1>2, <1>7, <1>8, <2>1, <2>2, PlaceAdds
<1>11. Alone(f, g, Q)
  BY <1>2, <1>7, <1>8, AllAlone
<1>12. Groups(key, Q, T, f, h)
  <2>1. ASSUME NEW x \in T PROVE h[x] = f[{i \in Q : key[i] = x}]
    <3>1. PICK i \in Q : r[i] = x
      OBVIOUS
    <3>2. \A j \in Q : r[j] = x => j = i
      BY <1>1, <3>1 DEF Lists
    <3>3. {j \in Q : key[j] = x} = {i}
      BY <1>4, <3>1, <3>2
    <3>4. f[{i}] = g[i]
      BY <1>11, <3>1 DEF Alone
    <3>5. h[x] = g[i]
      BY <1>3, <1>5, <3>1
    <3> QED
      BY <3>3, <3>4, <3>5
  <2> QED
    BY <1>6, <2>1 DEF Groups
<1>13. f[Q] = k[T]
  <2>1. Sums(k, h, T)
    BY <1>9
  <2>2. h \in [T -> Int]
    BY <1>6
  <2> QED
    BY <1>2, <1>7, <1>8, <1>12, <2>1, <2>2, ByGroups
<1> QED
  BY <1>9, <1>10, <1>13

\* The dollars of rows by groups.
LEMMA GroupsOfUsd ==
    ASSUME NEW S, IsFiniteSet(S), \A x \in S : x.usd \in Int,
           NEW T, IsFiniteSet(T), \A y \in T : y.usd \in Int,
           NEW key, key \in [S -> T],
           \A y \in T : y.usd = TotalUsd({x \in S : key[x] = y})
    PROVE  TotalUsd(S) = TotalUsd(T)
<1>1. PICK g : g = [x \in S |-> x.usd]
  OBVIOUS
<1>2. PICK h : h = [y \in T |-> y.usd]
  OBVIOUS
<1>3. g \in [S -> Int]
  BY <1>1
<1>4. h \in [T -> Int]
  BY <1>2
<1>5. PICK f : Sums(f, g, S) /\ \A Q \in SUBSET S : TotalUsd(Q) = f[Q]
  BY <1>1, TotalUsdIs
<1>6. PICK k : Sums(k, h, T) /\ \A Q \in SUBSET T : TotalUsd(Q) = k[Q]
  BY <1>2, TotalUsdIs
<1>7. ASSUME NEW y \in T PROVE h[y] = f[{x \in S : key[x] = y}]
  <2>1. {x \in S : key[x] = y} \in SUBSET S
    OBVIOUS
  <2>2. TotalUsd({x \in S : key[x] = y}) = f[{x \in S : key[x] = y}]
    BY <1>5, <2>1
  <2>3. h[y] = y.usd
    BY <1>2
  <2> QED
    BY <2>2, <2>3
<1>8. f[S] = k[T]
  <2>1. Sums(f, g, S)
    BY <1>5
  <2>2. Sums(k, h, T)
    BY <1>6
  <2>3. Groups(key, S, T, f, h)
    BY <1>7 DEF Groups
  <2> QED
    BY <1>3, <1>4, <2>1, <2>2, <2>3, ByGroups
<1>9. TotalUsd(S) = f[S] /\ TotalUsd(T) = k[T]
  BY <1>5, <1>6
<1> QED
  BY <1>8, <1>9

\* The list of a card's chains.
LEMMA CardListed ==
    ASSUME TablesOK, NEW k, NEW b
    PROVE  /\ Lists(OrderChains(ChainPnl(k, b)), ChainPnl(k, b))
           /\ Range(OrderChains(ChainPnl(k, b))) = ChainPnl(k, b)
           /\ OrderChains(ChainPnl(k, b)) # <<>> <=> Contributing(k, b) # {}
<1>1. PICK S : S = ChainPnl(k, b)
  OBVIOUS
<1>2. IsFiniteSet(S)
  BY <1>1, ChainPnlIs
<1>3. \A e \in S : e.chain \in Range(ChainOrder) /\ e = EntryOn(k, b, e.chain)
  BY <1>1, ChainPnlIs
<1>4. \A d, e \in S : d.chain = e.chain => d = e
  <2> SUFFICES ASSUME NEW d \in S, NEW e \in S, d.chain = e.chain PROVE d = e
    OBVIOUS
  <2>1. d = EntryOn(k, b, d.chain) /\ e = EntryOn(k, b, e.chain)
    BY <1>3
  <2> QED
    BY <2>1
<1>5. PICK r : r = OrderChains(S)
  OBVIOUS
<1>6. Lists(r, S)
  <2>1. \A e \in S : e.chain \in Range(ChainOrder)
    BY <1>3
  <2> QED
    BY <1>2, <1>4, <1>5, <2>1, ChainsListed
<1>7. Range(r) = S
  BY <1>6 DEF Lists, Range
<1>8. r # <<>> <=> S # {}
  <2>1. r # <<>> => S # {}
    <3> SUFFICES ASSUME S = {} PROVE r = <<>>
      OBVIOUS
    <3>1. Cardinality(S) = 0
      BY FS_EmptySet
    <3>2. r \in [1 .. 0 -> S]
      BY <1>6, <3>1 DEF Lists
    <3> QED
      BY <3>2
  <2>2. S # {} => r # <<>>
    <3> SUFFICES ASSUME NEW x \in S PROVE r # <<>>
      OBVIOUS
    <3>1. PICK i \in DOMAIN r : r[i] = x
      BY <1>6 DEF Lists
    <3> QED
      BY <3>1
  <2> QED
    BY <2>1, <2>2
<1>9. S # {} <=> Contributing(k, b) # {}
  <2>1. ASSUME NEW e \in S PROVE Contributing(k, b) # {}
    <3>1. SoldOn(k, b, e.chain) # {}
      BY <1>1, ChainPnlIs
    <3> QED
      BY <3>1, SoldOnIs
  <2>2. ASSUME NEW t \in Contributing(k, b) PROVE S # {}
    BY <1>1, ChainPnlIs
  <2> QED
    BY <2>1, <2>2
<1> QED
  BY <1>1, <1>5, <1>6, <1>7, <1>8, <1>9

\* One line of a card: its chains of one unit.
PlacesOf(r, u) == {i \in DOMAIN r : UnitOf(r[i].chain) = u}
LineOn(r, u) == [unit |-> u, sol |-> SolAt(r, PlacesOf(r, u))]

\* The lines of a card add up to its list, and each is of its own unit.
LEMMA UnitsAddUp ==
    ASSUME NEW S, IsFiniteSet(S), \A x \in S : x.sol \in Int, NEW r, Lists(r, S)
    PROVE  /\ TotalSol(ByUnit(r)) = TotalSol(S)
           /\ Cardinality(ByUnit(r)) = Cardinality({l.unit : l \in ByUnit(r)})
<1> DEFINE U == {UnitOf(r[i].chain) : i \in DOMAIN r}
<1>1. PICK T : T = ByUnit(r)
  OBVIOUS
<1>2. T = {LineOn(r, u) : u \in U}
  BY <1>1 DEF ByUnit, LineOn, PlacesOf, SolAt
<1>3. /\ \A x \in S : \E i \in DOMAIN r : r[i] = x
      /\ \A i \in DOMAIN r : r[i] \in S
  BY DEF Lists
<1>4. \A u : LineOn(r, u).unit = u /\ LineOn(r, u).sol = SolAt(r, PlacesOf(r, u))
  BY DEF LineOn
<1>5. PICK key : key = [x \in S |-> LineOn(r, UnitOf(x.chain))]
  OBVIOUS
<1>6. ASSUME NEW x \in S PROVE UnitOf(x.chain) \in U
  BY <1>3
<1>7. ASSUME NEW u \in U PROVE \E x \in S : UnitOf(x.chain) = u
  BY <1>3
<1> HIDE DEF U
<1>8. key \in [S -> T]
  BY <1>2, <1>5, <1>6
<1>9. \A y \in T : \E x \in S : key[x] = y
  BY <1>2, <1>5, <1>7
<1>10. IsFiniteSet(T)
  BY <1>8, <1>9, ImageIs
<1>11. ASSUME NEW y \in T PROVE y.sol = TotalSol({x \in S : key[x] = y}) /\ y.sol \in Int
  <2>1. PICK u \in U : y = LineOn(r, u)
    BY <1>2
  <2>2. PICK G : G = {x \in S : key[x] = y}
    OBVIOUS
  <2>3. \A x \in S : x \in G <=> UnitOf(x.chain) = u
    BY <1>4, <1>5, <2>1, <2>2
  <2>4. PICK Q : Q = PlacesOf(r, u)
    OBVIOUS
  <2>5. Q \subseteq DOMAIN r /\ \A i \in DOMAIN r : i \in Q <=> UnitOf(r[i].chain) = u
    BY <2>4 DEF PlacesOf
  <2>6. \A x \in G : \E i \in Q : r[i] = x
    BY <1>3, <2>2, <2>3, <2>5
  <2>7. \A i \in Q : r[i] \in G
    BY <1>3, <2>3, <2>5
  <2>8. G \subseteq S
    BY <2>2
  <2>9. SolAt(r, Q) = TotalSol(G)
    BY <2>5, <2>6, <2>7, <2>8, PlacesAddUp
  <2>10. TotalSol(G) \in Int
    <3>1. IsFiniteSet(G) /\ \A x \in G : x.sol \in Int
      BY <2>8, FS_Subset
    <3> QED
      BY <3>1, TotalSolIs
  <2> QED
    BY <1>4, <2>1, <2>2, <2>4, <2>9, <2>10
<1>12. TotalSol(T) = TotalSol(S)
  <2>1. \A y \in T : y.sol \in Int
    BY <1>11
  <2>2. \A y \in T : y.sol = TotalSol({x \in S : key[x] = y})
    BY <1>11
  <2> QED
    BY <1>8, <1>10, <2>1, <2>2, GroupsOfSol
<1>13. PICK V : V = {l.unit : l \in T}
  OBVIOUS
<1>14. IsFiniteSet(V) /\ Cardinality(V) <= Cardinality(T)
  <2>1. PICK m : m = [l \in T |-> l.unit]
    OBVIOUS
  <2>2. m \in [T -> V]
    BY <1>13, <2>1
  <2>3. \A y \in V : \E l \in T : m[l] = y
    BY <1>13, <2>1
  <2> QED
    BY <1>10, <2>2, <2>3, ImageIs
<1>15. Cardinality(T) <= Cardinality(V)
  <2>1. PICK m : m = [u \in V |-> LineOn(r, u)]
    OBVIOUS
  <2>2. \A l \in T : l = LineOn(r, l.unit)
    BY <1>2, <1>4
  <2>3. m \in [V -> T]
    BY <1>13, <2>1, <2>2
  <2>4. \A l \in T : \E u \in V : m[u] = l
    BY <1>13, <2>1, <2>2
  <2> QED
    BY <1>14, <2>3, <2>4, ImageIs
<1>16. Cardinality(T) = Cardinality(V)
  <2>1. Cardinality(T) \in Nat /\ Cardinality(V) \in Nat
    BY <1>10, <1>14, FS_CardinalityType
  <2> QED
    BY <1>14, <1>15, <2>1
<1> QED
  BY <1>1, <1>12, <1>13, <1>16, Zenon

\* The dollars of the chains add up as well.
LEMMA DollarsAddUp ==
    ASSUME TablesOK, NEW k, NEW b
    PROVE  TotalUsd(ChainPnl(k, b)) = TotalUsd(Contributing(k, b))
<1>1. PICK S : S = Contributing(k, b)
  OBVIOUS
<1>2. PICK T : T = ChainPnl(k, b)
  OBVIOUS
<1>3. PICK key : key = [t \in S |-> EntryOn(k, b, t.chain)]
  OBVIOUS
<1>4. IsFiniteSet(S) /\ IsFiniteSet(T)
  BY <1>1, <1>2, ContributingIs, ChainPnlIs
<1>5. key \in [S -> T]
  BY <1>1, <1>2, <1>3, ChainPnlIs
<1>6. \A c : EntryOn(k, b, c).usd = TotalUsd(SoldOn(k, b, c))
  BY DEF EntryOn, ChainEntry
<1>7. \A t \in S : t.usd \in Int
  BY <1>1, ContributingIs
<1>9. ASSUME NEW y \in T PROVE y.usd = TotalUsd({x \in S : key[x] = y}) /\ y.usd \in Int
  <2>1. y = EntryOn(k, b, y.chain)
    BY <1>2, ChainPnlIs
  <2>2. \A x \in S : key[x] = EntryOn(k, b, x.chain) /\ EntryOn(k, b, x.chain).chain = x.chain
    BY <1>1, <1>3, ChainPnlIs
  <2>3. \A x \in S : key[x] = y <=> x.chain = y.chain
    BY <2>1, <2>2
  <2>4. {x \in S : key[x] = y} = SoldOn(k, b, y.chain)
    BY <1>1, <2>3 DEF SoldOn
  <2>5. y.usd = TotalUsd(SoldOn(k, b, y.chain))
    BY <1>6, <2>1
  <2>6. IsFiniteSet(SoldOn(k, b, y.chain)) /\ \A x \in SoldOn(k, b, y.chain) : x.usd \in Int
    BY <1>1, <1>7, SoldOnIs
  <2>7. TotalUsd(SoldOn(k, b, y.chain)) \in Int
    BY <2>6, TotalUsdIs
  <2> QED
    BY <2>4, <2>5, <2>7
<1>10. TotalUsd(S) = TotalUsd(T)
  <2>1. \A y \in T : y.usd \in Int
    BY <1>9
  <2>2. \A y \in T : y.usd = TotalUsd({x \in S : key[x] = y})
    BY <1>9
  <2> QED
    BY <1>4, <1>5, <1>7, <2>1, <2>2, GroupsOfUsd
<1> QED
  BY <1>1, <1>2, <1>10

-----------------------------------------------------------------------------
(* The ranking and the board.                                              *)

\* A row of the ranking says of its KOL what is recorded of it.
LEMMA RowIs ==
    ASSUME TablesOK, NEW k \in approved, NEW b
    PROVE  /\ RankingRow(k, b).kol = k /\ k \in Int /\ RankingRow(k, b).guild = guild[k]
           /\ RankingRow(k, b).sol = TotalSol(Contributing(k, b)) /\ RankingRow(k, b).sol \in Int
           /\ RankingRow(k, b).usd = TotalUsd(Contributing(k, b)) /\ RankingRow(k, b).usd \in Int
           /\ RankingRow(k, b).closed = Cardinality(Contributing(k, b))
           /\ RankingRow(k, b).publicWallets = Cardinality(PublicWallets(k))
<1>1. IsFiniteSet(Contributing(k, b))
  BY ContributingIs
<1>2. \A t \in Contributing(k, b) : t.sol \in Int /\ t.usd \in Int
  BY ContributingIs
<1>3. TotalSol(Contributing(k, b)) \in Int
  BY <1>1, <1>2, TotalSolIs
<1>4. TotalUsd(Contributing(k, b)) \in Int
  BY <1>1, <1>2, TotalUsdIs
<1>5. k \in Int
  BY ReadsAssumption DEF TablesOK
<1> QED
  BY <1>3, <1>4, <1>5 DEF RankingRow

\* The rows of the ranking, before they are cut.
RowsOf(b) == {RankingRow(k, b) : k \in approved}

LEMMA RowsAre ==
    ASSUME TablesOK, NEW b
    PROVE  IsFiniteSet(RowsOf(b)) /\ Lists(Ranked(RowsOf(b)), RowsOf(b))
<1>1. PICK S : S = RowsOf(b)
  OBVIOUS
<1>2. IsFiniteSet(approved)
  BY ReadsAssumption, FS_Subset DEF TablesOK
<1>3. IsFiniteSet(S)
  <2>1. PICK f : f = [k \in approved |-> RankingRow(k, b)]
    OBVIOUS
  <2>2. f \in [approved -> S]
    BY <1>1, <2>1 DEF RowsOf
  <2>3. \A y \in S : \E k \in approved : f[k] = y
    BY <1>1, <2>1 DEF RowsOf
  <2> QED
    BY <1>2, <2>2, <2>3, ImageIs
<1>4. \A r \in S : \E k \in approved : r = RankingRow(k, b)
  BY <1>1 DEF RowsOf
<1>5. \A r \in S : r.usd \in Int /\ r.kol \in Int
  BY <1>4, RowIs
<1>6. \A r, q \in S : r.kol = q.kol => r = q
  <2>1. \A r \in S : r = RankingRow(r.kol, b)
    BY <1>4, RowIs
  <2> QED
    BY <2>1
<1> QED
  BY <1>1, <1>3, <1>5, <1>6, RankedLists

LEMMA SelectIs ==
    ASSUME TablesOK, NEW b
    PROVE  /\ RollingSelect(b) \in Seq(RowsOf(b))
           /\ \A i \in DOMAIN RollingSelect(b) :
                 /\ RollingSelect(b)[i].kol \in approved
                 /\ RollingSelect(b)[i] = RankingRow(RollingSelect(b)[i].kol, b)
           /\ \A i, j \in DOMAIN RollingSelect(b) :
                 RollingSelect(b)[i].kol = RollingSelect(b)[j].kol => i = j
           /\ Len(RollingSelect(b)) < RowLimit =>
                 Lists(RollingSelect(b), RowsOf(b))
<1>1. PICK S : S = RowsOf(b)
  OBVIOUS
<1>2. PICK r : r = Ranked(S)
  OBVIOUS
<1>3. IsFiniteSet(S) /\ Lists(r, S)
  BY <1>1, <1>2, RowsAre
<1>4. PICK n : n = Cardinality(S)
  OBVIOUS
<1>5. n \in Nat /\ r \in [1 .. n -> S]
  BY <1>3, <1>4 DEF Lists
<1>6. r \in Seq(S) /\ Len(r) = n
  BY <1>5
<1>7. PICK m : m = IF n < RowLimit THEN n ELSE RowLimit
  OBVIOUS
<1>8. m \in Nat /\ m <= n /\ RowLimit \in Nat /\ (m < RowLimit => m = n)
  BY <1>5, <1>7, ReadsAssumption
<1>9. PICK q : q = SubSeq(r, 1, m)
  OBVIOUS
<1>10. RollingSelect(b) = q
  <2>1. RollingSelect(b) = SubSeq(r, 1, IF Len(r) < RowLimit THEN Len(r) ELSE RowLimit)
    BY <1>1, <1>2 DEF RollingSelect, Ranked, RowsOf
  <2> QED
    BY <1>6, <1>7, <1>9, <2>1
<1>11. q \in Seq(S) /\ Len(q) = m /\ DOMAIN q = 1 .. m /\ \A i \in 1 .. m : q[i] = r[i]
  BY <1>6, <1>8, <1>9
<1>12. \A i \in 1 .. m : i \in 1 .. n
  BY <1>5, <1>8
<1>13. ASSUME NEW i \in 1 .. m PROVE q[i].kol \in approved /\ q[i] = RankingRow(q[i].kol, b)
  <2>1. q[i] \in S
    BY <1>5, <1>11, <1>12
  <2>2. PICK k \in approved : q[i] = RankingRow(k, b)
    BY <1>1, <2>1 DEF RowsOf
  <2> QED
    BY <2>2, RowIs
<1>14. ASSUME NEW i \in 1 .. m, NEW j \in 1 .. m, q[i].kol = q[j].kol PROVE i = j
  <2>1. q[i] = q[j]
    BY <1>13, <1>14
  <2>2. r[i] = r[j] /\ i \in 1 .. n /\ j \in 1 .. n
    BY <1>11, <1>12, <2>1
  <2> QED
    BY <1>3, <1>4, <2>2 DEF Lists
<1>15. ASSUME m < RowLimit PROVE q = r
  <2>1. m = n
    BY <1>8, <1>15
  <2> QED
    BY <1>5, <1>11, <2>1
<1>16. m < RowLimit => Lists(q, S)
  BY <1>3, <1>15
<1> QED
  BY <1>1, <1>10, <1>11, <1>13, <1>14, <1>16

\* What the cards of a cabal's members say is what the members sold.
LEMMA MembersAddUp ==
    ASSUME TablesOK, NEW b, Len(RollingSelect(b)) < RowLimit, NEW m
    PROVE  BoardRow(m, b).sol =
              SolAt(RollingSelect(b), {j \in DOMAIN RollingSelect(b) : RollingSelect(b)[j].guild = m})
<1>1. PICK r : r = RollingSelect(b)
  OBVIOUS
<1>2. PICK R : R = RowsOf(b)
  OBVIOUS
<1>3. IsFiniteSet(R) /\ Lists(r, R)
  BY <1>1, <1>2, SelectIs, RowsAre
<1>4. PICK Q : Q = {j \in DOMAIN r : r[j].guild = m}
  OBVIOUS
<1>5. PICK T : T = {y \in R : y.guild = m}
  OBVIOUS
<1>6. PICK S : S = UNION {Contributing(k, b) : k \in MembersOf(m)}
  OBVIOUS
<1>7. \A y \in R : y.kol \in approved /\ y = RankingRow(y.kol, b) /\ y.guild = guild[y.kol]
                   /\ y.sol = TotalSol(Contributing(y.kol, b)) /\ y.sol \in Int
  <2> SUFFICES ASSUME NEW y \in R
               PROVE  y.kol \in approved /\ y = RankingRow(y.kol, b) /\ y.guild = guild[y.kol]
                      /\ y.sol = TotalSol(Contributing(y.kol, b)) /\ y.sol \in Int
    OBVIOUS
  <2>1. PICK k \in approved : y = RankingRow(k, b)
    BY <1>2 DEF RowsOf
  <2> QED
    BY <2>1, RowIs
<1>8. SolAt(r, Q) = TotalSol(T)
  <2>1. \A x \in R : x.sol \in Int
    BY <1>7
  <2>2. Q \subseteq DOMAIN r /\ T \subseteq R
    BY <1>4, <1>5
  <2>3. \A x \in T : \E i \in Q : r[i] = x
    BY <1>3, <1>4, <1>5 DEF Lists
  <2>4. \A i \in Q : r[i] \in T
    BY <1>3, <1>4, <1>5 DEF Lists
  <2> QED
    BY <1>3, <2>1, <2>2, <2>3, <2>4, PlacesAddUp
<1>9. S \subseteq replayed /\ \A x \in S : x.kol \in MembersOf(m) /\ x \in Contributing(x.kol, b) /\ x.sol \in Int
  <2> SUFFICES ASSUME NEW x \in S
               PROVE  x \in replayed /\ x.kol \in MembersOf(m) /\ x \in Contributing(x.kol, b) /\ x.sol \in Int
    OBVIOUS
  <2>1. PICK k \in MembersOf(m) : x \in Contributing(k, b)
    BY <1>6
  <2> QED
    BY <2>1, ContributingIs
<1>10. IsFiniteSet(S)
  <2>1. replayed \subseteq Trades /\ IsFiniteSet(Trades)
    BY ReadsAssumption DEF TablesOK
  <2> QED
    BY <1>9, <2>1, FS_Subset
<1>11. PICK key : key = [x \in S |-> RankingRow(x.kol, b)]
  OBVIOUS
<1>12. \A k \in MembersOf(m) : k \in approved /\ RankingRow(k, b) \in T /\ RankingRow(k, b).kol = k
  <2> SUFFICES ASSUME NEW k \in MembersOf(m)
               PROVE  k \in approved /\ RankingRow(k, b) \in T /\ RankingRow(k, b).kol = k
    OBVIOUS
  <2>1. k \in approved /\ guild[k] = m
    BY DEF MembersOf
  <2>2. RankingRow(k, b) \in R
    BY <1>2, <2>1 DEF RowsOf
  <2> QED
    BY <1>5, <2>1, <2>2, RowIs
<1>13. key \in [S -> T]
  BY <1>9, <1>11, <1>12
<1>14. ASSUME NEW y \in T PROVE y.sol = TotalSol({x \in S : key[x] = y})
  <2>1. y \in R /\ y.kol \in MembersOf(m)
    BY <1>5, <1>7 DEF MembersOf
  <2>2. \A x \in S : key[x] = y <=> x.kol = y.kol
    BY <1>7, <1>9, <1>11, <1>12, <2>1
  <2>3. Contributing(y.kol, b) \subseteq S
    BY <1>6, <2>1
  <2>4. \A x \in Contributing(y.kol, b) : x.kol = y.kol
    BY ContributingIs
  <2>5. {x \in S : key[x] = y} = Contributing(y.kol, b)
    BY <1>9, <2>2, <2>3, <2>4
  <2> QED
    BY <1>7, <2>1, <2>5
<1>15. TotalSol(S) = TotalSol(T)
  <2>1. \A x \in S : x.sol \in Int
    BY <1>9
  <2>2. IsFiniteSet(T) /\ \A y \in T : y.sol \in Int
    BY <1>3, <1>5, <1>7, FS_Subset
  <2> QED
    BY <1>10, <1>13, <1>14, <2>1, <2>2, GroupsOfSol
<1>16. BoardRow(m, b).sol = TotalSol(S)
  BY <1>6 DEF BoardRow
<1> QED
  BY <1>1, <1>4, <1>8, <1>15, <1>16

\* The rows of the board.
BoardOf(b) == {BoardRow(g, b) : g \in {h \in Guilds : MembersOf(h) # {}}}

LEMMA BoardIs ==
    ASSUME TablesOK, NEW b
    PROVE  \A i \in DOMAIN ByTotal(BoardOf(b)) :
              \E m \in Guilds : ByTotal(BoardOf(b))[i] = BoardRow(m, b) /\ ByTotal(BoardOf(b))[i].guild = m
<1>1. PICK S : S = BoardOf(b)
  OBVIOUS
<1>2. PICK G : G = {h \in Guilds : MembersOf(h) # {}}
  OBVIOUS
<1>3. IsFiniteSet(G) /\ G \subseteq Guilds
  BY <1>2, ReadsAssumption, FS_Subset
<1>4. \A y \in S : \E m \in G : y = BoardRow(m, b)
  BY <1>1, <1>2 DEF BoardOf
<1>5. \A m : BoardRow(m, b).guild = m
  BY DEF BoardRow
<1>6. \A m : BoardRow(m, b).sol \in Int
  <2> SUFFICES ASSUME NEW m PROVE BoardRow(m, b).sol \in Int
    OBVIOUS
  <2>1. PICK R : R = UNION {Contributing(k, b) : k \in MembersOf(m)}
    OBVIOUS
  <2>2. \A x \in R : x \in replayed
    BY <2>1, ContributingIs
  <2>3. replayed \subseteq Trades /\ IsFiniteSet(Trades) /\ \A x \in Trades : x.sol \in Int
    BY ReadsAssumption DEF TablesOK
  <2>4. IsFiniteSet(R) /\ \A x \in R : x.sol \in Int
    BY <2>2, <2>3, FS_Subset
  <2>5. TotalSol(R) \in Int
    BY <2>4, TotalSolIs
  <2> QED
    BY <2>1, <2>5 DEF BoardRow
<1>7. IsFiniteSet(S)
  <2>1. PICK f : f = [m \in G |-> BoardRow(m, b)]
    OBVIOUS
  <2>2. f \in [G -> S]
    BY <1>1, <1>2, <2>1 DEF BoardOf
  <2>3. \A y \in S : \E m \in G : f[m] = y
    BY <1>4, <2>1
  <2> QED
    BY <1>3, <2>2, <2>3, ImageIs
<1>8. PICK s : s = ByTotal(S)
  OBVIOUS
<1>9. Lists(s, S)
  <2>1. \A r \in S : r.sol \in Int /\ r.guild \in Int
    BY <1>3, <1>4, <1>5, <1>6, ReadsAssumption
  <2>2. \A r, q \in S : r.guild = q.guild => r = q
    BY <1>4, <1>5
  <2> QED
    BY <1>7, <1>8, <2>1, <2>2, ByTotalLists
<1>10. \A i \in DOMAIN s : s[i] \in S
  BY <1>9 DEF Lists
<1> QED
  BY <1>1, <1>3, <1>4, <1>5, <1>8, <1>10

-----------------------------------------------------------------------------
(* The calendar.                                                           *)

\* What pnl_daily adds up of a KOL's month, and the row of one chain of a day of it.
PostedIn(k, month) == {t \in Within(posted, month) : t.kol = k}
PointOf(k, month, t) == [day |-> t.at, chain |-> t.chain,
                         sol |-> TotalSol({q \in PostedIn(k, month) : q.at = t.at /\ q.chain = t.chain})]

\* A series has the days and chains on which something was posted, each once, and adds up to it.
LEMMA SeriesIs ==
    ASSUME TablesOK, NEW k, NEW month, NEW s \in Series(k, month)
    PROVE  /\ Lists(s, DailyRows(k, month)) /\ IsFiniteSet(DailyRows(k, month))
           /\ \A p \in DailyRows(k, month) : p.day \in Nat /\ p.sol \in Int
           /\ TotalSol(DailyRows(k, month)) = TotalSol(PostedIn(k, month))
           /\ Cardinality(DailyRows(k, month)) <= Cardinality(PostedIn(k, month))
<1>1. PICK S : S = PostedIn(k, month)
  OBVIOUS
<1>2. PICK T : T = DailyRows(k, month)
  OBVIOUS
<1>3. PICK key : key = [t \in S |-> PointOf(k, month, t)]
  OBVIOUS
<1>4. IsFiniteSet(S) /\ \A t \in S : t.sol \in Int /\ t.at \in Nat
  <2>1. S \subseteq Trades
    BY <1>1 DEF PostedIn, Within, TablesOK
  <2>2. IsFiniteSet(S)
    BY <2>1, ReadsAssumption, FS_Subset
  <2>3. \A t \in Trades : t.sol \in Int /\ t.at \in Nat
    BY ReadsAssumption
  <2> QED
    BY <2>1, <2>2, <2>3
<1>5. T = {PointOf(k, month, t) : t \in S}
  BY <1>1, <1>2 DEF DailyRows, PointOf, PostedIn
<1>7. key \in [S -> T]
  BY <1>3, <1>5
<1>8. \A p \in T : \E t \in S : key[t] = p
  BY <1>3, <1>5
<1>9. IsFiniteSet(T) /\ Cardinality(T) <= Cardinality(S)
  BY <1>4, <1>7, <1>8, ImageIs
<1>10. ASSUME NEW t \in S
       PROVE  /\ PointOf(k, month, t).day = t.at /\ PointOf(k, month, t).chain = t.chain
              /\ PointOf(k, month, t).sol = TotalSol({q \in S : q.at = t.at /\ q.chain = t.chain})
  BY <1>1 DEF PointOf
<1>11. ASSUME NEW t \in S PROVE PointOf(k, month, t).sol \in Int
  <2>1. PICK Q : Q = {q \in S : q.at = t.at /\ q.chain = t.chain}
    OBVIOUS
  <2>2. Q \subseteq S
    BY <2>1
  <2>3. IsFiniteSet(Q) /\ \A q \in Q : q.sol \in Int
    BY <1>4, <2>2, FS_Subset
  <2>4. TotalSol(Q) \in Int
    BY <2>3, TotalSolIs
  <2> QED
    BY <1>10, <2>1, <2>4
<1>12. \A p \in T : p.day \in Nat /\ p.sol \in Int
  BY <1>4, <1>5, <1>10, <1>11
<1>15. ASSUME NEW p \in T PROVE p.sol = TotalSol({t \in S : key[t] = p})
  <2>1. PICK t \in S : p = PointOf(k, month, t)
    BY <1>5
  <2>2. ASSUME NEW q \in S PROVE key[q] = p <=> q.at = t.at /\ q.chain = t.chain
    <3>1. key[q] = PointOf(k, month, q)
      BY <1>3
    <3>2. key[q] = p => q.at = t.at /\ q.chain = t.chain
      <4>1. /\ PointOf(k, month, q).day = q.at /\ PointOf(k, month, q).chain = q.chain
            /\ PointOf(k, month, t).day = t.at /\ PointOf(k, month, t).chain = t.chain
        BY <1>10
      <4> QED
        BY <2>1, <3>1, <4>1
    <3>3. q.at = t.at /\ q.chain = t.chain => key[q] = p
      BY <2>1, <3>1 DEF PointOf
    <3> QED
      BY <3>2, <3>3
  <2>3. {q \in S : key[q] = p} = {q \in S : q.at = t.at /\ q.chain = t.chain}
    BY <2>2
  <2> QED
    BY <1>10, <2>1, <2>3
<1>16. TotalSol(S) = TotalSol(T)
  <2>1. \A x \in S : x.sol \in Int
    BY <1>4
  <2>2. \A y \in T : y.sol \in Int
    BY <1>12
  <2>3. \A y \in T : y.sol = TotalSol({t \in S : key[t] = y})
    BY <1>15
  <2> QED
    BY <1>4, <1>7, <1>9, <2>1, <2>2, <2>3, GroupsOfSol
<1>17. PICK n : n = Cardinality(T)
  OBVIOUS
<1>18. Lists(s, T)
  <2>1. n \in Nat
    BY <1>9, <1>17, FS_CardinalityType
  <2>2. s \in SetToSeqs(T)
    BY <1>2 DEF Series
  <2>3. s \in [1 .. n -> T] /\ \A i, j \in 1 .. n : i # j => s[i] # s[j]
    BY <1>17, <2>2 DEF SetToSeqs
  <2>4. s \in Injection(1 .. n, T)
    BY <2>3 DEF Injection, IsInjective
  <2>5. IsFiniteSet(1 .. n) /\ Cardinality(1 .. n) = n
    BY <2>1, FS_Interval
  <2>6. s \in Surjection(1 .. n, T)
    BY <1>9, <1>17, <2>4, <2>5, FS_Injection
  <2>7. \A x \in T : \E i \in 1 .. n : s[i] = x
    BY <2>6 DEF Surjection
  <2> QED
    BY <1>17, <2>1, <2>3, <2>7 DEF Lists
<1> QED
  BY <1>1, <1>2, <1>9, <1>12, <1>16, <1>18

\* The last running total is what pnl_daily holds of the month.
LEMMA AccumulatesTo ==
    ASSUME TablesOK, NEW k, NEW month, NEW s \in Series(k, month), s # <<>>
    PROVE  Accumulate(s)[Len(s)] = TotalSol(PostedIn(k, month))
<1>1. PICK T : T = DailyRows(k, month)
  OBVIOUS
<1>3. Lists(s, T) /\ IsFiniteSet(T) /\ \A p \in T : p.sol \in Int
  BY <1>1, SeriesIs
<1>4. TotalSol(T) = TotalSol(PostedIn(k, month))
  BY <1>1, SeriesIs
<1>5. PICK n : n = Cardinality(T)
  OBVIOUS
<1>6. n \in Nat /\ s \in [1 .. n -> T]
  BY <1>3, <1>5 DEF Lists
<1>7. s \in Seq(T) /\ Len(s) = n
  BY <1>6
<1>8. n # 0
  BY <1>7
<1>9. n \in DOMAIN s /\ SubSeq(s, 1, n) = s
  BY <1>6, <1>7, <1>8
<1>10. Accumulate(s)[n] = RunningSol(SubSeq(s, 1, n))
  BY <1>9 DEF Accumulate, RunningSol
<1>11. RunningSol(s) = TotalSol(T)
  BY <1>3, RunningIsTotal
<1> QED
  BY <1>4, <1>7, <1>9, <1>10, <1>11

\* What a day says is what one of its rows does.
LEMMA ByDayIs ==
    ASSUME NEW s, NEW n \in Nat, DOMAIN s = 1 .. n, NEW d \in DOMAIN ByDay(s)
    PROVE  \E i \in DOMAIN s : s[i].day = d /\ ByDay(s)[d] = s[i].sol
<1>1. PICK Q : Q = {i \in DOMAIN s : s[i].day = d}
  OBVIOUS
<1>2. d \in {s[i].day : i \in DOMAIN s}
  BY DEF ByDay
<1>3. Q # {}
  BY <1>1, <1>2
<1>4. IsFiniteSet(1 .. n)
  BY FS_Interval
<1>5. Q \subseteq 1 .. n /\ Q \subseteq Int
  BY <1>1
<1>6. IsFiniteSet(Q)
  BY <1>4, <1>5, FS_Subset
<1>7. Max(Q) \in Q
  BY <1>3, <1>5, <1>6, MaxIs
<1>8. ByDay(s)[d] = s[Max(Q)].sol
  BY <1>1, <1>2 DEF ByDay
<1> QED
  BY <1>1, <1>7, <1>8

\* A cell points up on those days alone.
LEMMA CellsPointUp ==
    ASSUME NEW s, NEW n \in Nat, DOMAIN s = 1 .. n, \A i \in DOMAIN s : s[i].sol \in Int,
           NEW month, NEW d \in month.from .. month.to - 1
    PROVE  MonthGrid(month, s)[d].direction = "gain" <=> d \in UpDays(s)
<1>1. PICK B : B = ByDay(s)
  OBVIOUS
<1>2. PICK v : v = B[d]
  OBVIOUS
<1>3. MonthGrid(month, s)[d].direction =
        IF d \notin DOMAIN B THEN "" ELSE IF v = 0 THEN "" ELSE IF v < 0 THEN "loss" ELSE "gain"
  <2> DEFINE peak == Max({0} \cup {Magnitude(s[i].sol) : i \in DOMAIN s})
             Dir(x) == IF x = 0 THEN "" ELSE IF x < 0 THEN "loss" ELSE "gain"
             Blank == [level |-> 0, direction |-> ""]
             Full == [level |-> LevelOf(Magnitude(v), peak), direction |-> Dir(v)]
  <2>1. MonthGrid(month, s)[d] = IF d \notin DOMAIN B THEN Blank ELSE Full
    BY <1>1, <1>2, Zenon DEF MonthGrid
  <2>2. Blank.direction = "" /\ Full.direction = Dir(v)
    <3> HIDE DEF Dir, peak
    <3> QED
      OBVIOUS
  <2> HIDE DEF Blank, Full
  <2> QED
    BY <2>1, <2>2
<1>4. CASE d \notin DOMAIN B
  <2>1. d \notin UpDays(s)
    BY <1>1, <1>4 DEF UpDays
  <2> QED
    BY <1>3, <1>4, <2>1
<1>5. CASE d \in DOMAIN B
  <2>2. PICK j \in DOMAIN s : s[j].day = d /\ v = s[j].sol
    BY <1>1, <1>2, <1>5, ByDayIs
  <2>3. d \in UpDays(s) <=> v > 0
    BY <1>1, <1>2, <1>5 DEF UpDays
  <2>4. v \in Int
    BY <2>2
  <2>5. MonthGrid(month, s)[d].direction = "gain" <=> v > 0
    <3>0. PICK dir : dir = MonthGrid(month, s)[d].direction
      OBVIOUS
    <3>2. dir = IF v = 0 THEN "" ELSE IF v < 0 THEN "loss" ELSE "gain"
      BY <1>3, <1>5, <3>0
    <3>3. v = 0 => dir = ""
      BY <3>2
    <3>4. v # 0 /\ v < 0 => dir = "loss"
      BY <3>2
    <3>5. v # 0 /\ ~(v < 0) => dir = "gain"
      BY <3>2
    <3>6. "" # "gain" /\ "loss" # "gain"
      OBVIOUS
    <3>7. v > 0 <=> v # 0 /\ ~(v < 0)
      BY <2>4
    <3>8. dir = "gain" <=> v > 0
      BY <3>3, <3>4, <3>5, <3>6, <3>7, Zenon
    <3> QED
      BY <3>0, <3>8
  <2> QED
    BY <2>3, <2>5
<1> QED
  BY <1>4, <1>5

\* Of a set of days, those at its end that all closed up, and the stretches that did.
Rest(s, up) == {x \in s : \A y \in s : y >= x => y \in up}
Blocks(s, up) == {t \in SUBSET s : t \subseteq up /\ \A x, y \in t, z \in s : x <= z /\ z <= y => z \in t}
BestOf(s, up) == Max({Cardinality(t) : t \in Blocks(s, up)})

LEMMA BestIs ==
    ASSUME NEW s, IsFiniteSet(s), NEW up
    PROVE  /\ BestOf(s, up) \in Nat /\ \E t \in Blocks(s, up) : Cardinality(t) = BestOf(s, up)
           /\ \A t \in Blocks(s, up) : Cardinality(t) \in Nat /\ Cardinality(t) <= BestOf(s, up)
<1>1. PICK B : B = Blocks(s, up)
  OBVIOUS
<1>2. B \subseteq SUBSET s
  BY <1>1 DEF Blocks
<1>3. IsFiniteSet(B)
  <2>1. IsFiniteSet(SUBSET s)
    BY FS_SUBSET
  <2> QED
    BY <1>2, <2>1, FS_Subset
<1>4. ASSUME NEW t \in B PROVE Cardinality(t) \in Nat
  <2>1. IsFiniteSet(t)
    BY <1>2, FS_Subset
  <2> QED
    BY <2>1, FS_CardinalityType
<1>5. {} \in B
  BY <1>1 DEF Blocks
<1>6. PICK C : C = {Cardinality(t) : t \in B}
  OBVIOUS
<1>7. IsFiniteSet(C)
  <2>1. PICK f : f = [t \in B |-> Cardinality(t)]
    OBVIOUS
  <2>2. f \in [B -> C]
    BY <1>6, <2>1
  <2>3. \A y \in C : \E t \in B : f[t] = y
    BY <1>6, <2>1
  <2> QED
    BY <1>3, <2>2, <2>3, ImageIs
<1>8. C \subseteq Int /\ C # {}
  BY <1>4, <1>5, <1>6
<1>9. Max(C) \in C /\ \A y \in C : y <= Max(C)
  BY <1>7, <1>8, MaxIs
<1>10. BestOf(s, up) = Max(C)
  BY <1>1, <1>6 DEF BestOf
<1>11. \E t \in B : Cardinality(t) = BestOf(s, up)
  BY <1>6, <1>9, <1>10
<1> QED
  BY <1>1, <1>4, <1>6, <1>9, <1>10, <1>11

\* One more day, later than all of them.
LEMMA BestStep ==
    ASSUME NEW s, IsFiniteSet(s), s \subseteq Int, NEW m \in s, \A y \in s : y <= m, NEW up
    PROVE  /\ Cardinality(Rest(s, up)) = IF m \in up THEN Cardinality(Rest(s \ {m}, up)) + 1 ELSE 0
           /\ BestOf(s, up) = IF Cardinality(Rest(s, up)) > BestOf(s \ {m}, up)
                              THEN Cardinality(Rest(s, up)) ELSE BestOf(s \ {m}, up)
<1>1. PICK r : r = s \ {m}
  OBVIOUS
<1>2. r \subseteq s /\ m \notin r /\ r \subseteq Int /\ m \in Int /\ \A y \in r : y < m
  BY <1>1
<1>3. IsFiniteSet(r)
  BY <1>2, FS_Subset
<1>4. PICK T : T = Rest(s, up)
  OBVIOUS
<1>5. PICK U : U = Rest(r, up)
  OBVIOUS
<1>6. T \subseteq s /\ IsFiniteSet(T) /\ Cardinality(T) \in Nat
  BY <1>4, FS_Subset, FS_CardinalityType DEF Rest
<1>7. U \subseteq r /\ IsFiniteSet(U) /\ Cardinality(U) \in Nat
  BY <1>3, <1>5, FS_Subset, FS_CardinalityType DEF Rest
<1>8. m \in up => T = U \cup {m}
  BY <1>1, <1>2, <1>4, <1>5 DEF Rest
<1>9. m \notin up => T = {}
  BY <1>2, <1>4 DEF Rest
<1>10. Cardinality(T) = IF m \in up THEN Cardinality(U) + 1 ELSE 0
  <2>1. CASE m \in up
    <3>1. m \notin U
      BY <1>2, <1>7
    <3>2. Cardinality(U \cup {m}) = Cardinality(U) + 1
      BY <1>7, <3>1, FS_AddElement
    <3> QED
      BY <1>8, <2>1, <3>2
  <2>2. CASE m \notin up
    <3>1. Cardinality(T) = 0
      BY <1>9, <2>2, FS_EmptySet
    <3> QED
      BY <2>2, <3>1
  <2> QED
    BY <2>1, <2>2
<1>11. T \in Blocks(s, up)
  <2>1. \A x \in T : x \in up /\ x \in s
    BY <1>2, <1>4 DEF Rest
  <2>2. ASSUME NEW x \in T, NEW y \in T, NEW z \in s, x <= z, z <= y PROVE z \in T
    <3> SUFFICES ASSUME NEW w \in s, w >= z PROVE w \in up
      BY <1>4 DEF Rest
    <3>1. w >= x
      <4>1. w \in Int /\ z \in Int /\ x \in Int
        BY <2>1
      <4> QED
        BY <2>2, <4>1
    <3> QED
      BY <1>4, <3>1 DEF Rest
  <2> QED
    BY <2>1, <2>2 DEF Blocks
<1>12. ASSUME NEW t \in Blocks(r, up) PROVE t \in Blocks(s, up)
  <2>1. t \subseteq r /\ t \subseteq up
    BY <1>12 DEF Blocks
  <2>2. ASSUME NEW x \in t, NEW y \in t, NEW z \in s, x <= z, z <= y PROVE z \in t
    <3>1. z # m
      BY <1>2, <2>1, <2>2
    <3>2. z \in r
      BY <1>1, <3>1
    <3> QED
      BY <1>12, <2>2, <3>2 DEF Blocks
  <2> QED
    BY <1>2, <2>1, <2>2 DEF Blocks
<1>13. ASSUME NEW t \in Blocks(s, up), m \notin t PROVE t \in Blocks(r, up)
  BY <1>1, <1>13 DEF Blocks
<1>14. ASSUME NEW t \in Blocks(s, up), m \in t PROVE t \subseteq T
  <2> SUFFICES ASSUME NEW x \in t, NEW y \in s, y >= x PROVE y \in up
    BY <1>4 DEF Rest, Blocks
  <2>1. y <= m /\ x <= y
    BY DEF Blocks
  <2>2. y \in t
    BY <1>14, <2>1 DEF Blocks
  <2> QED
    BY <2>2 DEF Blocks
<1>15. PICK c : c = Cardinality(T)
  OBVIOUS
<1>16. PICK p : p = BestOf(r, up)
  OBVIOUS
<1>17. PICK q : q = BestOf(s, up)
  OBVIOUS
<1>18. c \in Nat /\ p \in Nat /\ q \in Nat
  BY <1>3, <1>6, <1>15, <1>16, <1>17, BestIs
<1>19. c <= q
  BY <1>11, <1>15, <1>17, BestIs
<1>20. p <= q
  <2>1. PICK t \in Blocks(r, up) : Cardinality(t) = p
    BY <1>3, <1>16, BestIs
  <2>2. t \in Blocks(s, up)
    BY <1>12
  <2> QED
    BY <1>17, <2>1, <2>2, BestIs
<1>21. q <= c \/ q <= p
  <2>1. PICK t \in Blocks(s, up) : Cardinality(t) = q
    BY <1>17, BestIs
  <2>2. CASE m \in t
    <3>1. t \subseteq T
      BY <1>14, <2>2
    <3>2. Cardinality(t) <= Cardinality(T)
      BY <1>6, <3>1, FS_Subset
    <3> QED
      BY <1>15, <2>1, <3>2
  <2>3. CASE m \notin t
    <3>1. t \in Blocks(r, up)
      BY <1>13, <2>3
    <3>2. Cardinality(t) <= p
      BY <1>3, <1>16, <3>1, BestIs
    <3> QED
      BY <2>1, <3>2
  <2> QED
    BY <2>2, <2>3
<1>22. q = IF c > p THEN c ELSE p
  BY <1>18, <1>19, <1>20, <1>21
<1> QED
  BY <1>1, <1>4, <1>5, <1>10, <1>15, <1>16, <1>17, <1>22

\* The one pass over a month finds the longest stretch.
UpOn(s, d) == d \in UpDays(s)
UpPlaces(month, s) == {i \in 1 .. MonthDays : UpOn(s, month.from + i - 1)}

LEMMA OnePass ==
    ASSUME NEW month, NEW s
    PROVE  Streak(month, s) = BestOf(1 .. MonthDays, UpPlaces(month, s))
<1> DEFINE q == [i \in 1 .. MonthDays |-> month.from + i - 1]
           AfterDay(acc, d) == LET run == IF UpOn(s, d) THEN acc.run + 1 ELSE 0
                            IN [run |-> run, best |-> IF run > acc.best THEN run ELSE acc.best]
           Fold(h) == h = [u \in SUBSET (DOMAIN q) |->
                             IF u = {} THEN [run |-> 0, best |-> 0] ELSE AfterDay(h[u \ {Max(u)}], q[Max(u)])]
           h0 == CHOOSE h : Fold(h)
           up == UpPlaces(month, s)
           e == [u \in SUBSET (DOMAIN q) |-> [run |-> Cardinality(Rest(u, up)), best |-> BestOf(u, up)]]
<1>1. Streak(month, s) = h0[DOMAIN q].best
  BY DEF Streak, FoldLeft, MapThenFoldSet, UpOn
<1>2. DOMAIN q = 1 .. MonthDays /\ MonthDays \in Nat
  BY ReadsAssumption
<1>3. \A i \in 1 .. MonthDays : UpOn(s, q[i]) <=> i \in up
  BY DEF UpPlaces
<1>4. PICK D : D = DOMAIN q
  OBVIOUS
<1> HIDE DEF q, up
<1>5. IsFiniteSet(D) /\ D \subseteq Int /\ \A i \in D : UpOn(s, q[i]) <=> i \in up
  BY <1>2, <1>3, <1>4, FS_Interval
<1>6. ASSUME NEW u \in SUBSET D, u # {} PROVE Max(u) \in u /\ \A y \in u : y <= Max(u)
  <2>1. IsFiniteSet(u) /\ u \subseteq Int
    BY <1>5, FS_Subset
  <2> QED
    BY <1>6, <2>1, MaxIs
<1>7. ASSUME NEW u \in SUBSET D
      PROVE  e[u] = IF u = {} THEN [run |-> 0, best |-> 0] ELSE AfterDay(e[u \ {Max(u)}], q[Max(u)])
  <2>0. IsFiniteSet(u) /\ u \subseteq Int
    BY <1>5, FS_Subset
  <2>1. CASE u = {}
    <3>1. Rest(u, up) = {} /\ Blocks(u, up) \subseteq {{}}
      BY <2>1 DEF Rest, Blocks
    <3>2. Cardinality({}) = 0
      BY FS_EmptySet
    <3>3. PICK t \in Blocks(u, up) : Cardinality(t) = BestOf(u, up)
      BY <2>0, BestIs
    <3>4. t = {}
      BY <3>1
    <3>5. e[u] = [run |-> Cardinality(Rest(u, up)), best |-> BestOf(u, up)]
      BY <1>4
    <3> QED
      BY <2>1, <3>1, <3>2, <3>3, <3>4, <3>5
  <2>2. CASE u # {}
    <3>1. PICK m : m = Max(u)
      OBVIOUS
    <3>2. m \in u /\ \A y \in u : y <= m
      BY <1>6, <2>2, <3>1
    <3>3. PICK r : r = u \ {m}
      OBVIOUS
    <3>4. e[u] = [run |-> Cardinality(Rest(u, up)), best |-> BestOf(u, up)]
      BY <1>4
    <3>5. e[r] = [run |-> Cardinality(Rest(r, up)), best |-> BestOf(r, up)]
      BY <1>4, <3>3
    <3>6. UpOn(s, q[m]) <=> m \in up
      BY <1>5, <3>2
    <3>7. /\ Cardinality(Rest(u, up)) = IF m \in up THEN Cardinality(Rest(r, up)) + 1 ELSE 0
          /\ BestOf(u, up) = IF Cardinality(Rest(u, up)) > BestOf(r, up)
                             THEN Cardinality(Rest(u, up)) ELSE BestOf(r, up)
      BY <2>0, <3>2, <3>3, BestStep
    <3>8. AfterDay(e[r], q[m]) =
            [run |-> IF m \in up THEN e[r].run + 1 ELSE 0,
             best |-> IF (IF m \in up THEN e[r].run + 1 ELSE 0) > e[r].best
                      THEN (IF m \in up THEN e[r].run + 1 ELSE 0) ELSE e[r].best]
      <4> HIDE DEF e
      <4>1. CASE m \in up
        BY <3>6, <4>1
      <4>2. CASE m \notin up
        BY <3>6, <4>2
      <4> QED
        BY <4>1, <4>2
    <3>9. e[r].run = Cardinality(Rest(r, up)) /\ e[r].best = BestOf(r, up)
      BY <3>5
    <3> HIDE DEF e, AfterDay
    <3>10. e[u] = AfterDay(e[r], q[m])
      BY <3>4, <3>7, <3>8, <3>9
    <3> QED
      BY <2>2, <3>1, <3>3, <3>10
  <2> QED
    BY <2>1, <2>2
<1>8. Fold(h0)
  <2>1. e = [u \in SUBSET D |-> e[u]]
    BY <1>4
  <2> HIDE DEF e, AfterDay
  <2>2. Fold(e)
    BY <1>4, <1>7, <2>1
  <2> HIDE DEF Fold
  <2> QED
    BY <2>2
<1> DEFINE Good == {u \in SUBSET D : h0[u] = e[u]}
<1>9. ASSUME NEW u \in SUBSET D, \A t \in SUBSET D : t \subseteq u /\ t # u => t \in Good
      PROVE  u \in Good
  <2> SUFFICES h0[u] = e[u]
    OBVIOUS
  <2>1. h0[u] = IF u = {} THEN [run |-> 0, best |-> 0] ELSE AfterDay(h0[u \ {Max(u)}], q[Max(u)])
    <3> HIDE DEF h0, AfterDay
    <3> QED
      BY <1>4, <1>8
  <2>2. CASE u = {}
    <3> HIDE DEF h0, AfterDay, e
    <3> QED
      BY <2>1, <2>2, <1>7
  <2>3. CASE u # {}
    <3>1. PICK m : m = Max(u)
      OBVIOUS
    <3>2. m \in u
      BY <2>3, <3>1, <1>6
    <3>3. u \ {m} \in Good
      <4>1. u \ {m} \in SUBSET D /\ u \ {m} \subseteq u /\ u \ {m} # u
        BY <3>2
      <4> HIDE DEF Good
      <4> QED
        BY <4>1, <1>9
    <3>4. h0[u \ {m}] = e[u \ {m}]
      BY <3>3
    <3> HIDE DEF h0, Good, AfterDay, e
    <3> QED
      BY <2>1, <2>3, <3>1, <3>4, <1>7
  <2> QED
    BY <2>2, <2>3
<1>10. Good \in SUBSET (SUBSET D)
  OBVIOUS
<1>11. \A u \in SUBSET D : u \in Good
  <2> HIDE DEF Good, h0, Fold
  <2>1. \A u \in SUBSET D : (\A t \in SUBSET D : t \subseteq u /\ t # u => t \in Good) => u \in Good
    BY <1>9
  <2>2. IsFiniteSet(D)
    BY <1>5
  <2> QED
    BY <1>10, <2>1, <2>2, SubsetInduction
<1>12. h0[D] = e[D]
  <2>1. D \in Good
    <3> HIDE DEF Good
    <3> QED
      BY <1>11
  <2> QED
    BY <2>1
<1>13. e[D].best = BestOf(D, up)
  BY <1>4
<1> HIDE DEF h0, e
<1> QED
  BY <1>1, <1>2, <1>4, <1>12, <1>13 DEF up

\* The streak of a month is its longest interval of days that all closed up.
RunsOf(month, s) ==
    LET days == month.from .. month.to
    IN {i \in days \X days : i[1] <= i[2] /\ i[1] .. i[2] - 1 \subseteq UpDays(s)}

LEMMA StreakIsLongest ==
    ASSUME NEW month, month.from \in Int, month.to = month.from + MonthDays, NEW s
    PROVE  Streak(month, s) = Max({i[2] - i[1] : i \in RunsOf(month, s)})
<1>1. PICK a0 \in Int : a0 = month.from
  OBVIOUS
<1>2. PICK n \in Nat : n = MonthDays
  BY ReadsAssumption
<1>3. PICK up : up = UpPlaces(month, s)
  OBVIOUS
<1>4. PICK D : D = 1 .. n
  OBVIOUS
<1>5. PICK m : m = BestOf(D, up)
  OBVIOUS
<1>6. PICK days : days = a0 .. a0 + n
  OBVIOUS
<1>7. PICK runs : runs = RunsOf(month, s)
  OBVIOUS
<1>8. runs = {i \in days \X days : i[1] <= i[2] /\ i[1] .. i[2] - 1 \subseteq UpDays(s)}
  BY <1>1, <1>2, <1>6, <1>7 DEF RunsOf
<1>9. PICK C : C = {i[2] - i[1] : i \in runs}
  OBVIOUS
<1>10. ASSUME NEW c \in days, NEW d \in days, c <= d, \A x \in c .. d - 1 : x \in UpDays(s)
       PROVE  d - c \in C
  <2>1. <<c, d>> \in runs
    BY <1>8, <1>10
  <2>2. <<c, d>>[2] - <<c, d>>[1] = d - c
    OBVIOUS
  <2> QED
    BY <1>9, <2>1, <2>2
<1>11. \A y \in C : \E c, d \in days : c <= d /\ y = d - c /\ \A x \in c .. d - 1 : x \in UpDays(s)
  <2> SUFFICES ASSUME NEW y \in C PROVE \E c, d \in days : c <= d /\ y = d - c /\ \A x \in c .. d - 1 : x \in UpDays(s)
    OBVIOUS
  <2>1. PICK i \in runs : y = i[2] - i[1]
    BY <1>9
  <2>2. i[1] \in days /\ i[2] \in days /\ i[1] <= i[2] /\ i[1] .. i[2] - 1 \subseteq UpDays(s)
    BY <1>8
  <2> QED
    BY <2>1, <2>2
<1>12. \A x : x \in UpDays(s) <=> UpOn(s, x)
  BY DEF UpOn
<1>13. \A i \in D : i \in up <=> a0 + i - 1 \in UpDays(s)
  BY <1>1, <1>2, <1>3, <1>4, <1>12 DEF UpPlaces
<1>14. IsFiniteSet(D)
  BY <1>4, FS_Interval
<1>15. m \in Nat
  BY <1>5, <1>14, BestIs
<1>16. m \in C
  <2>1. PICK t \in Blocks(D, up) : Cardinality(t) = m
    BY <1>5, <1>14, BestIs
  <2>2. t \subseteq D /\ t \subseteq up /\ \A x, y \in t, z \in D : x <= z /\ z <= y => z \in t
    BY DEF Blocks
  <2>3. CASE t = {}
    <3>1. m = 0
      BY <2>1, <2>3, FS_EmptySet
    <3>2. a0 \in days /\ a0 <= a0 /\ \A x \in a0 .. a0 - 1 : x \in UpDays(s)
      BY <1>6
    <3>3. a0 - a0 \in C
      BY <1>10, <3>2
    <3> QED
      BY <3>1, <3>3
  <2>4. CASE t # {}
    <3>0. IsFiniteSet(t) /\ t \subseteq Int
      <4>1. t \subseteq D /\ \A i \in D : i \in Int
        BY <1>4, <2>2
      <4>2. IsFiniteSet(t)
        BY <1>14, <4>1, FS_Subset
      <4> QED
        BY <4>1, <4>2
    <3>1. PICK p \in t : \A y \in t : p <= y
      BY <2>4, <3>0, Least
    <3>2. PICK q \in t : \A y \in t : y <= q
      BY <2>4, <3>0, Greatest
    <3>3. p \in D /\ q \in D /\ p \in Int /\ q \in Int /\ p <= q /\ 1 <= p /\ q <= n
      BY <1>4, <2>2, <3>0, <3>1, <3>2
    <3>4. t = p .. q
      <4>1. \A z \in t : z \in p .. q
        BY <3>0, <3>1, <3>2
      <4>2. \A z \in p .. q : z \in D
        BY <1>4, <3>3
      <4>3. \A z \in p .. q : z \in t
        BY <2>2, <4>2, <3>3
      <4> QED
        BY <4>1, <4>3
    <3>5. Cardinality(t) = q - p + 1
      BY <3>3, <3>4, FS_Interval
    <3>6. a0 + p - 1 \in days /\ a0 + q \in days /\ a0 + p - 1 <= a0 + q
      BY <1>6, <3>3
    <3>7. ASSUME NEW x \in a0 + p - 1 .. a0 + q - 1 PROVE x \in UpDays(s)
      <4>1. PICK i : i = x - a0 + 1
        OBVIOUS
      <4>2. i \in p .. q /\ a0 + i - 1 = x
        BY <3>3, <4>1
      <4>3. i \in up /\ i \in D
        BY <2>2, <3>4, <4>2
      <4> QED
        BY <1>13, <4>2, <4>3
    <3>8. (a0 + q) - (a0 + p - 1) \in C
      <4>1. PICK c \in days, d \in days : c = a0 + p - 1 /\ d = a0 + q
        BY <3>6
      <4>2. d - 1 = a0 + q - 1
        BY <3>3, <4>1
      <4>3. \A x \in c .. d - 1 : x \in UpDays(s)
        BY <3>7, <4>1, <4>2
      <4>4. d - c \in C
        BY <1>10, <3>6, <4>1, <4>3
      <4> QED
        BY <4>1, <4>4
    <3>9. (a0 + q) - (a0 + p - 1) = m
      BY <2>1, <3>3, <3>5
    <3> QED
      BY <3>8, <3>9
  <2> QED
    BY <2>3, <2>4
<1>17. ASSUME NEW y \in C PROVE y \in Int /\ y <= m
  <2>1. PICK c \in days, d \in days : c <= d /\ y = d - c /\ \A x \in c .. d - 1 : x \in UpDays(s)
    BY <1>11
  <2>2. c \in Int /\ d \in Int /\ c >= a0 /\ d <= a0 + n
    BY <1>6
  <2>3. PICK t : t = c - a0 + 1 .. d - a0
    OBVIOUS
  <2>4. \A i \in t : i \in D
    BY <1>4, <2>2, <2>3
  <2>5. ASSUME NEW i \in t PROVE i \in up
    <3>1. a0 + i - 1 \in c .. d - 1
      BY <2>2, <2>3
    <3> QED
      BY <1>13, <2>1, <2>4, <3>1
  <2>6. \A x, z \in t, w \in D : x <= w /\ w <= z => w \in t
    BY <1>4, <2>2, <2>3
  <2>7. t \in Blocks(D, up)
    BY <2>4, <2>5, <2>6 DEF Blocks
  <2>8. Cardinality(t) = d - c
    <3>1. c - a0 + 1 \in Int /\ d - a0 \in Int
      BY <2>2
    <3>2. Cardinality(t) = IF c - a0 + 1 > d - a0 THEN 0 ELSE (d - a0) - (c - a0 + 1) + 1
      BY <2>3, <3>1, FS_Interval
    <3> QED
      BY <2>1, <2>2, <3>2
  <2>9. Cardinality(t) <= m
    BY <1>5, <1>14, <2>7, BestIs
  <2> QED
    BY <2>1, <2>2, <2>8, <2>9
<1>18. Max(C) = m
  <2>1. \A y \in C : m >= y
    BY <1>15, <1>17
  <2>2. Max(C) \in C /\ \A y \in C : Max(C) >= y
    BY <1>16, <2>1 DEF Max
  <2>3. Max(C) \in Int /\ Max(C) <= m /\ Max(C) >= m
    BY <1>16, <1>17, <2>2
  <2> QED
    BY <1>15, <2>3
<1>19. Streak(month, s) = m
  BY <1>2, <1>3, <1>4, <1>5, OnePass
<1> QED
  BY <1>7, <1>9, <1>18, <1>19

-----------------------------------------------------------------------------
(* A page of one state.                                                    *)

\* Nothing is read differently while nothing is written.
Kept == recorded' = recorded /\ replayed' = replayed /\ posted' = posted
        /\ approved' = approved /\ guild' = guild /\ shows' = shows

LEMMA ContributingKept ==
    ASSUME Kept, NEW k, NEW b PROVE Contributing(k, b)' = Contributing(k, b)
  BY DEF Kept, Contributing, Within

LEMMA RowKept ==
    ASSUME Kept, NEW k, NEW b PROVE RankingRow(k, b)' = RankingRow(k, b)
  BY DEF Kept, RankingRow, Contributing, Within, PublicWallets, TotalSol, TotalUsd, MapThenSumSet, MapThenFoldSet

LEMMA SelectKept ==
    ASSUME Kept, NEW b PROVE RollingSelect(b)' = RollingSelect(b)
  BY DEF Kept, RollingSelect, InOrder, RanksBefore, RankingRow, Contributing, Within, PublicWallets,
         TotalSol, TotalUsd, MapThenSumSet, MapThenFoldSet

LEMMA ChainsKept ==
    ASSUME Kept, NEW k, NEW b PROVE ChainPnl(k, b)' = ChainPnl(k, b)
  BY DEF Kept, ChainPnl, ChainEntry, Contributing, Within, TotalSol, TotalUsd, MapThenSumSet, MapThenFoldSet

LEMMA WalletsKept ==
    ASSUME Kept, NEW k PROVE PublicWallets(k)' = PublicWallets(k)
  BY DEF Kept, PublicWallets

LEMMA SeriesKept ==
    ASSUME Kept, NEW k, NEW b PROVE Series(k, b)' = Series(k, b)
<1>1. DailyRows(k, b)' = DailyRows(k, b)
  BY DEF Kept, DailyRows, Within, TotalSol, MapThenSumSet, MapThenFoldSet
<1> QED
  BY <1>1 DEF Series, SetToSeqs

LEMMA BoardKept ==
    ASSUME Kept, NEW m, NEW b PROVE BoardRow(m, b)' = BoardRow(m, b)
  BY DEF Kept, BoardRow, MembersOf, Contributing, Within, TotalSol, TotalUsd, MapThenSumSet, MapThenFoldSet

KolsOf(rows) == {rows[i].kol : i \in DOMAIN rows}

\* What a ranking has read is what the tables say.
RankingReads(p) ==
    /\ p.rows = RollingSelect(p.bounds)
    /\ p.stage \in {"chains", "shown"} => p.chains = ReadChainPnl(KolsOf(p.rows), p.bounds)
    /\ p.stage \in {"wallets", "shown"} => p.wallets = ReadPublicWallets(KolsOf(p.rows))

ActivityOf(k, b) == Cardinality({t \in Within(recorded, b) : t.kol = k})
SellsIn(k, b) == Cardinality({t \in Within(recorded, b) : t.kol = k /\ t.side = "sell"})

\* So it is with a KOL's period and with the board.
DetailReads(p) ==
    /\ p.kol \in approved /\ p.row = RankingRow(p.kol, p.bounds)
    /\ "activity" \notin p.toRead => p.activity.trades = ActivityOf(p.kol, p.bounds)
    /\ "series" \notin p.toRead => p.series \in Series(p.kol, p.month)
    /\ "sells" \notin p.toRead => p.sells = SellsIn(p.kol, p.month)
    /\ p.stage = "shown" => p.chains = OrderChains(ChainPnl(p.kol, p.bounds))

BoardReads(p) == p.rows = ByTotal(BoardOf(p.bounds))

LEMMA RankingReadsKept ==
    ASSUME Kept, NEW p PROVE RankingReads(p)' = RankingReads(p)
<1>1. RollingSelect(p.bounds)' = RollingSelect(p.bounds)
  BY SelectKept
<1>2. ReadChainPnl(KolsOf(p.rows), p.bounds)' = ReadChainPnl(KolsOf(p.rows), p.bounds)
  <2>1. \A k : ChainPnl(k, p.bounds)' = ChainPnl(k, p.bounds)
    BY ChainsKept
  <2> QED
    BY <2>1 DEF ReadChainPnl, KolsOf
<1>3. ReadPublicWallets(KolsOf(p.rows))' = ReadPublicWallets(KolsOf(p.rows))
  <2>1. \A k : PublicWallets(k)' = PublicWallets(k)
    BY WalletsKept
  <2> QED
    BY <2>1 DEF ReadPublicWallets, KolsOf
<1> QED
  BY <1>1, <1>2, <1>3 DEF RankingReads

LEMMA DetailReadsKept ==
    ASSUME Kept, NEW p PROVE DetailReads(p)' = DetailReads(p)
<1>1. RankingRow(p.kol, p.bounds)' = RankingRow(p.kol, p.bounds)
  BY RowKept
<1>2. Series(p.kol, p.month)' = Series(p.kol, p.month)
  BY SeriesKept
<1>3. ChainPnl(p.kol, p.bounds)' = ChainPnl(p.kol, p.bounds)
  BY ChainsKept
<1>4. OrderChains(ChainPnl(p.kol, p.bounds))' = OrderChains(ChainPnl(p.kol, p.bounds))
  BY <1>3
<1>5. ActivityOf(p.kol, p.bounds)' = ActivityOf(p.kol, p.bounds)
  BY DEF Kept, ActivityOf, Within
<1>6. SellsIn(p.kol, p.month)' = SellsIn(p.kol, p.month)
  BY DEF Kept, SellsIn, Within
<1> QED
  BY <1>1, <1>2, <1>4, <1>5, <1>6 DEF DetailReads, Kept

LEMMA BoardReadsKept ==
    ASSUME Kept, NEW p PROVE BoardReads(p)' = BoardReads(p)
<1>1. \A m : BoardRow(m, p.bounds)' = BoardRow(m, p.bounds)
  BY BoardKept
<1>2. BoardOf(p.bounds)' = BoardOf(p.bounds)
  BY <1>1 DEF BoardOf, MembersOf, Kept
<1>3. ByTotal(BoardOf(p.bounds))' = ByTotal(BoardOf(p.bounds))
  BY <1>2
<1> QED
  BY <1>3 DEF BoardReads

\* What the shown cards say, whatever is written afterwards.
CardParts(p) ==
    LET cards == Entries(p) IN
    /\ \A i \in DOMAIN cards :
          /\ LET lines == ByUnit(cards[i].chains) IN
                /\ TotalSol(lines) = cards[i].entry.sol
                /\ Cardinality(lines) = Cardinality({l.unit : l \in lines})
                /\ MapThenSumSet(LAMBDA e : e.usd, Range(cards[i].chains)) = cards[i].entry.usd
          /\ cards[i].entry.hideWallets => cards[i].list = {}
    /\ AnythingClosed(p) <=> \E i \in DOMAIN cards : cards[i].chains # <<>>

\* And what holds of their wallets until something is.
ListSeen(p, i) ==
    p.wallets[p.rows[i].kol] = {} =>
       \/ p.rows[i].publicWallets = 0
       \/ \A w \in Held : w.kol = p.rows[i].kol /\ shows[w] = "public" => w \in Sealed

LEMMA CardsFollow ==
    ASSUME TablesOK, NEW p, p.stage = "shown", RankingReads(p)
    PROVE  CardParts(p) /\ \A i \in DOMAIN p.rows : ListSeen(p, i)
<1>1. PICK r : r = p.rows
  OBVIOUS
<1>2. PICK b : b = p.bounds
  OBVIOUS
<1>3. /\ r = RollingSelect(b) /\ p.chains = ReadChainPnl(KolsOf(r), b)
      /\ p.wallets = ReadPublicWallets(KolsOf(r))
  BY <1>1, <1>2 DEF RankingReads
<1>4. \A i \in DOMAIN r : r[i].kol \in approved /\ r[i] = RankingRow(r[i].kol, b)
  BY <1>3, SelectIs
<1>5. PICK cards : cards = Entries(p)
  OBVIOUS
<1>6. /\ DOMAIN cards = DOMAIN r
      /\ \A i \in DOMAIN r :
            /\ cards[i].entry = Entry(r[i], i) /\ cards[i].chains = OrderChains(p.chains[r[i].kol])
            /\ cards[i].list = p.wallets[r[i].kol]
  BY <1>1, <1>5 DEF Entries
<1>7. ASSUME NEW i \in DOMAIN r
      PROVE  /\ cards[i].chains = OrderChains(ChainPnl(r[i].kol, b))
             /\ cards[i].list = PublicWallets(r[i].kol) \ Sealed
             /\ p.wallets[r[i].kol] = PublicWallets(r[i].kol) \ Sealed
  <2>1. r[i].kol \in KolsOf(r)
    BY DEF KolsOf
  <2>2. p.chains[r[i].kol] = ChainPnl(r[i].kol, b)
    BY <1>3, <2>1 DEF ReadChainPnl
  <2>3. p.wallets[r[i].kol] = PublicWallets(r[i].kol) \ Sealed
    BY <1>3, <2>1 DEF ReadPublicWallets
  <2> QED
    BY <1>6, <2>2, <2>3
<1>8. ASSUME NEW i \in DOMAIN r
      PROVE  /\ cards[i].entry.sol = r[i].sol /\ cards[i].entry.usd = r[i].usd
             /\ cards[i].entry.hideWallets = (r[i].publicWallets = 0)
  <2>1. cards[i].entry = Entry(r[i], i)
    BY <1>6
  <2>2. Entry(r[i], i).sol = r[i].sol /\ Entry(r[i], i).usd = r[i].usd
    BY DEF Entry
  <2>3. Entry(r[i], i).hideWallets = (r[i].publicWallets = 0)
    BY DEF Entry
  <2> QED
    BY <2>1, <2>2, <2>3, Zenon
<1>9. ASSUME NEW i \in DOMAIN r
      PROVE  /\ TotalSol(ByUnit(cards[i].chains)) = cards[i].entry.sol
             /\ Cardinality(ByUnit(cards[i].chains)) = Cardinality({l.unit : l \in ByUnit(cards[i].chains)})
             /\ TotalUsd(Range(cards[i].chains)) = cards[i].entry.usd
  <2>1. PICK k \in approved : k = r[i].kol
    BY <1>4
  <2>2. PICK E : E = ChainPnl(k, b)
    OBVIOUS
  <2>3. PICK c : c = cards[i].chains
    OBVIOUS
  <2>4. Lists(c, E) /\ Range(c) = E
    BY <1>7, <2>1, <2>2, <2>3, CardListed
  <2>5. IsFiniteSet(E) /\ \A e \in E : e.sol \in Int
    BY <2>2, ChainPnlIs
  <2>6. /\ TotalSol(ByUnit(c)) = TotalSol(E)
        /\ Cardinality(ByUnit(c)) = Cardinality({l.unit : l \in ByUnit(c)})
    BY <2>4, <2>5, UnitsAddUp
  <2>7. TotalSol(E) = r[i].sol
    BY <1>4, <2>1, <2>2, ChainsAddUp, RowIs
  <2>8. TotalUsd(E) = TotalUsd(Contributing(k, b))
    BY <2>2, DollarsAddUp
  <2>9. TotalUsd(Range(c)) = r[i].usd
    BY <1>4, <2>1, <2>4, <2>8, RowIs
  <2> QED
    BY <1>8, <2>3, <2>6, <2>7, <2>9
<1>10. ASSUME NEW i \in DOMAIN r, r[i].publicWallets = 0 PROVE PublicWallets(r[i].kol) = {}
  <2>1. PICK k \in approved : k = r[i].kol
    BY <1>4
  <2>2. r[i].publicWallets = Cardinality(PublicWallets(k))
    BY <1>4, <2>1, RowIs
  <2>3. IsFiniteSet(PublicWallets(k))
    <3>1. PublicWallets(k) \subseteq Held
      BY DEF PublicWallets
    <3> QED
      BY <3>1, ReadsAssumption, FS_Subset
  <2> QED
    BY <1>10, <2>1, <2>2, <2>3, FS_EmptySet
<1>11. ASSUME NEW i \in DOMAIN r, cards[i].entry.hideWallets PROVE cards[i].list = {}
  BY <1>7, <1>8, <1>10, <1>11
<1>12. AnythingClosed(p) <=> \E i \in DOMAIN cards : cards[i].chains # <<>>
  <2>1. ASSUME NEW i \in DOMAIN r PROVE r[i].closed > 0 <=> cards[i].chains # <<>>
    <3>1. PICK k \in approved : k = r[i].kol
      BY <1>4
    <3>2. r[i].closed = Cardinality(Contributing(k, b)) /\ IsFiniteSet(Contributing(k, b))
      BY <1>4, <3>1, RowIs, ContributingIs
    <3>3. r[i].closed \in Nat /\ (r[i].closed = 0 <=> Contributing(k, b) = {})
      BY <3>2, FS_CardinalityType, FS_EmptySet
    <3>4. cards[i].chains # <<>> <=> Contributing(k, b) # {}
      BY <1>7, <3>1, CardListed
    <3> QED
      BY <3>3, <3>4
  <2> QED
    BY <1>1, <1>6, <2>1 DEF AnythingClosed
<1>13. CardParts(p)
  BY <1>5, <1>6, <1>9, <1>11, <1>12 DEF CardParts, TotalUsd
<1>14. ASSUME NEW i \in DOMAIN r, p.wallets[r[i].kol] = {}, NEW w \in Held, w.kol = r[i].kol, shows[w] = "public"
       PROVE  w \in Sealed
  BY <1>7, <1>14 DEF PublicWallets
<1>15. \A i \in DOMAIN r : ListSeen(p, i)
  BY <1>1, <1>14 DEF ListSeen
<1> QED
  BY <1>1, <1>13, <1>15

\* What a KOL's period says, whatever is written afterwards.
DetailParts(p) ==
    /\ SumOfChains(p.chains) = p.row.sol
    /\ p.row.closed <= p.activity.trades
    /\ MonthSummary(p.month, p.series).streak = Max({i[2] - i[1] : i \in RunsOf(p.month, p.series)})
    /\ \A d \in DOMAIN MonthGrid(p.month, p.series) :
          MonthGrid(p.month, p.series)[d].direction = "gain" <=> d \in UpDays(p.series)
    /\ Len(p.series) <= p.sells

LEMMA DetailFollows ==
    ASSUME TablesOK, NEW p, p.stage = "shown", p.toRead = {}, DetailReads(p),
           p.month.from \in Int, p.month.to = p.month.from + MonthDays
    PROVE  /\ DetailParts(p)
           /\ p.series # <<>> =>
                 Accumulate(p.series)[Len(p.series)] = TotalSol(PostedIn(p.kol, p.month))
<1>1. PICK k \in approved : k = p.kol
  BY DEF DetailReads
<1>2. PICK b : b = p.bounds
  OBVIOUS
<1>3. PICK month : month = p.month
  OBVIOUS
<1>4. PICK s : s = p.series
  OBVIOUS
<1>5. /\ p.row = RankingRow(k, b) /\ p.activity.trades = ActivityOf(k, b) /\ s \in Series(k, month)
      /\ p.sells = SellsIn(k, month) /\ p.chains = OrderChains(ChainPnl(k, b))
  BY <1>1, <1>2, <1>3, <1>4 DEF DetailReads
<1>6. SumOfChains(p.chains) = p.row.sol
  <2>1. PICK E : E = ChainPnl(k, b)
    OBVIOUS
  <2>2. PICK r : r = OrderChains(E)
    OBVIOUS
  <2>3. Lists(r, E) /\ IsFiniteSet(E) /\ \A e \in E : e.sol \in Int
    BY <2>1, <2>2, CardListed, ChainPnlIs
  <2>4. RunningSol(r) = TotalSol(E)
    BY <2>3, RunningIsTotal
  <2>5. TotalSol(E) = p.row.sol
    BY <1>5, <2>1, ChainsAddUp, RowIs
  <2>6. SumOfChains(r) = RunningSol(r)
    BY DEF SumOfChains, RunningSol
  <2> QED
    BY <1>5, <2>1, <2>2, <2>4, <2>5, <2>6
<1>7. p.row.closed <= p.activity.trades
  <2>1. PICK C : C = Contributing(k, b)
    OBVIOUS
  <2>2. PICK A : A = {t \in Within(recorded, b) : t.kol = k}
    OBVIOUS
  <2>3. C \subseteq A
    BY <2>1, <2>2 DEF Contributing, Within, TablesOK
  <2>4. IsFiniteSet(A)
    <3>1. A \subseteq Trades
      BY <2>2 DEF Within, TablesOK
    <3> QED
      BY <3>1, ReadsAssumption, FS_Subset
  <2>5. Cardinality(C) <= Cardinality(A)
    BY <2>3, <2>4, FS_Subset
  <2>6. p.row.closed = Cardinality(C)
    BY <1>5, <2>1, RowIs
  <2>7. p.activity.trades = Cardinality(A)
    BY <1>5, <2>2 DEF ActivityOf
  <2> QED
    BY <2>5, <2>6, <2>7
<1>8. PICK T : T = DailyRows(k, month)
  OBVIOUS
<1>9. /\ Lists(s, T) /\ \A q \in T : q.day \in Nat /\ q.sol \in Int
      /\ Cardinality(T) <= Cardinality(PostedIn(k, month))
  BY <1>5, <1>8, SeriesIs
<1>10. MonthSummary(month, s).streak = Max({i[2] - i[1] : i \in RunsOf(month, s)})
  <2>1. Streak(month, s) = Max({i[2] - i[1] : i \in RunsOf(month, s)})
    BY <1>3, StreakIsLongest
  <2>2. MonthSummary(month, s).streak = Streak(month, s)
    BY DEF MonthSummary
  <2> QED
    BY <2>1, <2>2
<1>11. \A d \in DOMAIN MonthGrid(month, s) : MonthGrid(month, s)[d].direction = "gain" <=> d \in UpDays(s)
  <2>1. DOMAIN MonthGrid(month, s) = month.from .. month.to - 1
    BY DEF MonthGrid
  <2>2. \A i \in DOMAIN s : s[i] \in T
    BY <1>9 DEF Lists
  <2>3. \A i \in DOMAIN s : s[i].sol \in Int
    BY <1>9, <2>2
  <2>4. PICK n : n = Cardinality(T)
    OBVIOUS
  <2>5. n \in Nat /\ DOMAIN s = 1 .. n
    BY <1>9, <2>4 DEF Lists
  <2> QED
    BY <2>1, <2>3, <2>5, CellsPointUp
<1>12. Len(s) <= p.sells
  <2>1. PICK C : C = PostedIn(k, month)
    OBVIOUS
  <2>2. PICK A : A = {t \in Within(recorded, month) : t.kol = k /\ t.side = "sell"}
    OBVIOUS
  <2>3. C \subseteq A
    BY <2>1, <2>2 DEF PostedIn, Within, TablesOK
  <2>4. IsFiniteSet(A)
    <3>1. A \subseteq Trades
      BY <2>2 DEF Within, TablesOK
    <3> QED
      BY <3>1, ReadsAssumption, FS_Subset
  <2>5. Cardinality(C) <= Cardinality(A) /\ Cardinality(C) \in Nat /\ Cardinality(A) \in Nat
    <3>1. IsFiniteSet(C)
      BY <2>3, <2>4, FS_Subset
    <3> QED
      BY <2>3, <2>4, <3>1, FS_Subset, FS_CardinalityType
  <2>6. Len(s) = Cardinality(T) /\ Cardinality(T) \in Nat
    BY <1>9 DEF Lists
  <2>7. p.sells = Cardinality(A)
    BY <1>5, <2>2 DEF SellsIn
  <2> QED
    BY <1>9, <2>1, <2>5, <2>6, <2>7
<1>13. s # <<>> => Accumulate(s)[Len(s)] = TotalSol(PostedIn(k, month))
  BY <1>5, AccumulatesTo
<1>14. DetailParts(p)
  BY <1>3, <1>4, <1>6, <1>7, <1>10, <1>11, <1>12 DEF DetailParts
<1> QED
  BY <1>1, <1>3, <1>4, <1>13, <1>14

\* Two pages over the same interval, of the same tables, agree.
RowsOfOneState(p, q) ==
    \A i \in DOMAIN p.rows : p.rows[i].kol = q.kol => p.rows[i] = q.row

LEMMA RowsFollow ==
    ASSUME TablesOK, NEW p, NEW q, RankingReads(p), DetailReads(q), p.bounds = q.bounds
    PROVE  RowsOfOneState(p, q)
<1>1. PICK r : r = p.rows
  OBVIOUS
<1>2. r = RollingSelect(q.bounds) /\ q.row = RankingRow(q.kol, q.bounds)
  BY <1>1 DEF RankingReads, DetailReads
<1>3. \A i \in DOMAIN r : r[i] = RankingRow(r[i].kol, q.bounds)
  BY <1>2, SelectIs
<1>4. \A i \in DOMAIN r : r[i].kol = q.kol => r[i] = q.row
  BY <1>2, <1>3
<1> QED
  BY <1>1, <1>4 DEF RowsOfOneState

TotalsOfOneState(p, q) ==
    Len(p.rows) < RowLimit =>
       \A i \in DOMAIN q.rows :
          q.rows[i].sol = SolAt(p.rows, {j \in DOMAIN p.rows : p.rows[j].guild = q.rows[i].guild})

LEMMA TotalsFollow ==
    ASSUME TablesOK, NEW p, NEW q, RankingReads(p), BoardReads(q), p.bounds = q.bounds
    PROVE  TotalsOfOneState(p, q)
<1>1. PICK r : r = p.rows
  OBVIOUS
<1>2. PICK b : b = q.bounds
  OBVIOUS
<1>3. PICK rows : rows = q.rows
  OBVIOUS
<1>4. r = RollingSelect(b) /\ rows = ByTotal(BoardOf(b))
  BY <1>1, <1>2, <1>3 DEF RankingReads, BoardReads
<1>5. ASSUME Len(r) < RowLimit, NEW i \in DOMAIN rows
      PROVE  rows[i].sol = SolAt(r, {j \in DOMAIN r : r[j].guild = rows[i].guild})
  <2>1. PICK m \in Guilds : rows[i] = BoardRow(m, b) /\ rows[i].guild = m
    BY <1>4, BoardIs
  <2>2. BoardRow(m, b).sol = SolAt(r, {j \in DOMAIN r : r[j].guild = m})
    BY <1>4, <1>5, MembersAddUp
  <2> QED
    BY <2>1, <2>2
<1> QED
  BY <1>1, <1>3, <1>5 DEF TotalsOfOneState

-----------------------------------------------------------------------------
(* The pages while they are put together and the writers write.            *)

\* A page is dated by the state it began in and the one it ended in.
Dated(began, ended) == began \in Nat /\ ended \in Nat /\ began <= ended /\ ended <= writes

RankingForm ==
    ranking = [stage |-> ranking.stage, began |-> ranking.began, ended |-> ranking.ended,
               asked |-> ranking.asked, bounds |-> ranking.bounds, at |-> ranking.at,
               rows |-> ranking.rows, chains |-> ranking.chains, wallets |-> ranking.wallets,
               rate |-> ranking.rate]

DetailForm ==
    detail = [stage |-> detail.stage, began |-> detail.began, ended |-> detail.ended, kol |-> detail.kol,
              bounds |-> detail.bounds, month |-> detail.month, row |-> detail.row,
              private |-> detail.private, activity |-> detail.activity, series |-> detail.series,
              sells |-> detail.sells, chains |-> detail.chains, toRead |-> detail.toRead]

RankingOK ==
    ranking.stage # "closed" =>
       /\ RankingForm /\ Dated(ranking.began, ranking.ended)
       /\ ranking.began = writes => RankingReads(ranking)
       /\ OfOneState(ranking) => CardParts(ranking)

DetailOK ==
    detail.stage # "closed" =>
       /\ DetailForm /\ Dated(detail.began, detail.ended)
       /\ detail.month.from \in Int /\ detail.month.to = detail.month.from + MonthDays
       /\ detail.stage = "shown" => detail.toRead = {}
       /\ detail.began = writes => DetailReads(detail)
       /\ OfOneState(detail) => DetailParts(detail)

BoardOK ==
    board.stage # "closed" =>
       /\ Dated(board.began, board.ended)
       /\ board.began = writes => BoardReads(board)

\* Pages that began in one state were told the same of it.
RowsOK ==
    /\ ranking.stage # "closed" /\ detail.stage # "closed"
    /\ ranking.began = detail.began /\ ranking.bounds = detail.bounds
    => RowsOfOneState(ranking, detail)

TotalsOK ==
    /\ ranking.stage # "closed" /\ board.stage # "closed"
    /\ ranking.began = board.began /\ ranking.bounds = board.bounds
    => TotalsOfOneState(ranking, board)

PagesOK == ReadsTypeOK /\ TablesOK /\ RankingOK /\ DetailOK /\ BoardOK /\ RowsOK /\ TotalsOK

LEMMA PagesBegin == ReadsInit => PagesOK
<1> SUFFICES ASSUME ReadsInit PROVE PagesOK
  OBVIOUS
<1>1. ranking.stage = "closed" /\ detail.stage = "closed" /\ board.stage = "closed"
  BY DEF ReadsInit, Closed
<1>2. ReadsTypeOK
  <2>1. date \in 0 .. LastDate /\ writes \in 0 .. MaxWrites /\ quote \in -1 .. LastDate
    BY ReadsAssumption DEF ReadsInit
  <2>2. recorded \subseteq Trades /\ replayed \subseteq recorded /\ posted \subseteq replayed /\ approved \subseteq Roster
    BY DEF ReadsInit
  <2>3. guild \in [Roster -> Guilds \cup {NoGuild}] /\ shows \in [Held -> {"private", "public", "withdrawn"}]
    BY DEF ReadsInit
  <2> QED
    BY <1>1, <2>1, <2>2, <2>3 DEF ReadsTypeOK
<1>3. TablesOK
  BY DEF ReadsInit, TablesOK
<1> QED
  BY <1>1, <1>2, <1>3 DEF PagesOK, RankingOK, DetailOK, BoardOK, RowsOK, TotalsOK

\* A writer dates its state: what the pages had read is of an earlier one.
LEMMA WriterKeeps ==
    ASSUME PagesOK, Written, ranking' = ranking, detail' = detail, board' = board, ReadsTypeOK', TablesOK'
    PROVE  PagesOK'
<1>1. writes \in Nat /\ writes' = writes + 1
  BY DEF PagesOK, ReadsTypeOK, Written
<1>2. ASSUME NEW m, NEW n, Dated(m, n) PROVE Dated(m, n)' /\ m # writes'
  BY <1>1, <1>2 DEF Dated
<1>3. RankingOK'
  <2> SUFFICES ASSUME ranking.stage # "closed" PROVE RankingOK'
    BY DEF RankingOK
  <2>1. RankingForm /\ Dated(ranking.began, ranking.ended) /\ (OfOneState(ranking) => CardParts(ranking))
    BY DEF PagesOK, RankingOK
  <2>2. PICK p : p = ranking
    OBVIOUS
  <2>3. Dated(p.began, p.ended)' /\ p.began # writes'
    BY <1>2, <2>1, <2>2
  <2>4. RankingForm' /\ (OfOneState(ranking)' => CardParts(ranking)')
    BY <2>1 DEF RankingForm
  <2> QED
    BY <2>2, <2>3, <2>4 DEF RankingOK
<1>4. DetailOK'
  <2> SUFFICES ASSUME detail.stage # "closed" PROVE DetailOK'
    BY DEF DetailOK
  <2>1. /\ DetailForm /\ Dated(detail.began, detail.ended) /\ (OfOneState(detail) => DetailParts(detail))
        /\ detail.month.from \in Int /\ detail.month.to = detail.month.from + MonthDays
        /\ detail.stage = "shown" => detail.toRead = {}
    BY DEF PagesOK, DetailOK
  <2>2. PICK p : p = detail
    OBVIOUS
  <2>3. Dated(p.began, p.ended)' /\ p.began # writes'
    BY <1>2, <2>1, <2>2
  <2>4. DetailForm' /\ (OfOneState(detail)' => DetailParts(detail)')
    BY <2>1 DEF DetailForm
  <2> QED
    BY <2>1, <2>2, <2>3, <2>4 DEF DetailOK
<1>5. BoardOK'
  <2> SUFFICES ASSUME board.stage # "closed" PROVE BoardOK'
    BY DEF BoardOK
  <2>1. Dated(board.began, board.ended)
    BY DEF PagesOK, BoardOK
  <2>2. PICK p : p = board
    OBVIOUS
  <2>3. Dated(p.began, p.ended)' /\ p.began # writes'
    BY <1>2, <2>1, <2>2
  <2> QED
    BY <2>2, <2>3 DEF BoardOK
<1>6. RowsOK' /\ TotalsOK'
  BY DEF PagesOK, RowsOK, TotalsOK
<1> QED
  BY <1>3, <1>4, <1>5, <1>6 DEF PagesOK

\* Nothing is written while a page is read.
Quiet == Kept /\ writes' = writes /\ date' = date /\ quote' = quote

LEMMA TablesStay ==
    ASSUME PagesOK, Quiet,
           ranking'.stage \in {"closed", "ranked", "chains", "wallets", "shown"},
           detail'.stage \in {"closed", "identified", "shown"}, board'.stage \in {"closed", "shown"}
    PROVE  TablesOK' /\ ReadsTypeOK'
  BY DEF PagesOK, Quiet, Kept, TablesOK, ReadsTypeOK

LEMMA RankingStays ==
    ASSUME PagesOK, Kept, writes' = writes, ranking' = ranking
    PROVE  RankingOK'
<1> SUFFICES ASSUME ranking.stage # "closed" PROVE RankingOK'
  BY DEF RankingOK
<1>1. /\ RankingForm /\ Dated(ranking.began, ranking.ended) /\ (OfOneState(ranking) => CardParts(ranking))
      /\ ranking.began = writes => RankingReads(ranking)
  BY DEF PagesOK, RankingOK
<1>2. PICK p : p = ranking
  OBVIOUS
<1>3. Dated(p.began, p.ended)'
  BY <1>1, <1>2 DEF Dated
<1>4. RankingForm' /\ (OfOneState(ranking)' => CardParts(ranking)')
  BY <1>1 DEF RankingForm
<1>5. p.began = writes' => RankingReads(p)'
  BY <1>1, <1>2, RankingReadsKept
<1> QED
  BY <1>2, <1>3, <1>4, <1>5 DEF RankingOK

LEMMA DetailStays ==
    ASSUME PagesOK, Kept, writes' = writes, detail' = detail
    PROVE  DetailOK'
<1> SUFFICES ASSUME detail.stage # "closed" PROVE DetailOK'
  BY DEF DetailOK
<1>1. /\ DetailForm /\ Dated(detail.began, detail.ended) /\ (OfOneState(detail) => DetailParts(detail))
      /\ detail.month.from \in Int /\ detail.month.to = detail.month.from + MonthDays
      /\ detail.stage = "shown" => detail.toRead = {}
      /\ detail.began = writes => DetailReads(detail)
  BY DEF PagesOK, DetailOK
<1>2. PICK p : p = detail
  OBVIOUS
<1>3. Dated(p.began, p.ended)'
  BY <1>1, <1>2 DEF Dated
<1>4. DetailForm' /\ (OfOneState(detail)' => DetailParts(detail)')
  BY <1>1 DEF DetailForm
<1>5. p.began = writes' => DetailReads(p)'
  BY <1>1, <1>2, DetailReadsKept
<1> QED
  BY <1>1, <1>2, <1>3, <1>4, <1>5 DEF DetailOK

LEMMA BoardStays ==
    ASSUME PagesOK, Kept, writes' = writes, board' = board
    PROVE  BoardOK'
<1> SUFFICES ASSUME board.stage # "closed" PROVE BoardOK'
  BY DEF BoardOK
<1>1. Dated(board.began, board.ended) /\ (board.began = writes => BoardReads(board))
  BY DEF PagesOK, BoardOK
<1>2. PICK p : p = board
  OBVIOUS
<1>3. Dated(p.began, p.ended)'
  BY <1>1, <1>2 DEF Dated
<1>4. p.began = writes' => BoardReads(p)'
  BY <1>1, <1>2, BoardReadsKept
<1> QED
  BY <1>2, <1>3, <1>4 DEF BoardOK

LEMMA OpenRankingOK ==
    ASSUME PagesOK, NEW span \in Spans, OpenRanking(span) PROVE PagesOK'
<1>1. Quiet /\ detail' = detail /\ board' = board
  BY DEF OpenRanking, database, Quiet, Kept
<1>2. PICK p : p = ranking'
  OBVIOUS
<1>3. PICK b : b = WindowBounds(span, date)
  OBVIOUS
<1>4. \E r \in RatesToShow :
         ranking' = [stage |-> "ranked", began |-> writes, ended |-> writes, asked |-> span,
                     bounds |-> b, at |-> date,
                     rows |-> RollingSelect(b), chains |-> {}, wallets |-> {}, rate |-> r]
  BY <1>3 DEF OpenRanking
<1>5. PICK r \in RatesToShow :
         p = [stage |-> "ranked", began |-> writes, ended |-> writes, asked |-> span,
              bounds |-> b, at |-> date,
              rows |-> RollingSelect(b), chains |-> {}, wallets |-> {}, rate |-> r]
  BY <1>2, <1>4
<1>6. p.stage = "ranked" /\ p.began = writes /\ p.ended = writes /\ p.bounds = b /\ p.rows = RollingSelect(b)
  BY <1>5
<1>7. p = [stage |-> p.stage, began |-> p.began, ended |-> p.ended, asked |-> p.asked, bounds |-> p.bounds,
           at |-> p.at, rows |-> p.rows, chains |-> p.chains, wallets |-> p.wallets, rate |-> p.rate]
  BY <1>5
<1>8. RankingReads(p)
  BY <1>6 DEF RankingReads
<1>9. writes \in Nat /\ writes' = writes
  BY <1>1 DEF PagesOK, ReadsTypeOK, Quiet
<1>10. RankingOK'
  <2>1. RankingForm'
    BY <1>2, <1>7 DEF RankingForm
  <2>2. Dated(p.began, p.ended)'
    BY <1>6, <1>9 DEF Dated
  <2>3. RankingReads(p)'
    BY <1>1, <1>8, RankingReadsKept DEF Quiet
  <2>4. ~OfOneState(p)
    BY <1>6 DEF OfOneState
  <2> QED
    BY <1>2, <2>1, <2>2, <2>3, <2>4 DEF RankingOK
<1>11. DetailOK' /\ BoardOK'
  BY <1>1, DetailStays, BoardStays DEF Quiet
<1>12. RowsOK'
  <2>1. ASSUME detail.stage # "closed", p.began = detail.began, p.bounds = detail.bounds
        PROVE  RowsOfOneState(p, detail)
    <3>1. DetailReads(detail)
      BY <1>6, <2>1 DEF PagesOK, DetailOK
    <3> QED
      BY <1>8, <2>1, <3>1, RowsFollow DEF PagesOK
  <2> QED
    BY <1>1, <1>2, <2>1 DEF RowsOK
<1>13. TotalsOK'
  <2>1. ASSUME board.stage # "closed", p.began = board.began, p.bounds = board.bounds
        PROVE  TotalsOfOneState(p, board)
    <3>1. BoardReads(board)
      BY <1>6, <2>1 DEF PagesOK, BoardOK
    <3> QED
      BY <1>8, <2>1, <3>1, TotalsFollow DEF PagesOK
  <2> QED
    BY <1>1, <1>2, <2>1 DEF TotalsOK
<1>14. TablesOK' /\ ReadsTypeOK'
  <2>1. ranking'.stage = "ranked" /\ detail'.stage = detail.stage /\ board'.stage = board.stage
    BY <1>1, <1>2, <1>6
  <2> QED
    BY <1>1, <2>1, TablesStay DEF PagesOK, ReadsTypeOK
<1> QED
  BY <1>10, <1>11, <1>12, <1>13, <1>14 DEF PagesOK

LEMMA RankingChainsOK == ASSUME PagesOK, RankingChains PROVE PagesOK'
<1>1. Quiet /\ detail' = detail /\ board' = board
  BY DEF RankingChains, database, Quiet, Kept
<1>2. PICK p : p = ranking
  OBVIOUS
<1>3. PICK q : q = ranking'
  OBVIOUS
<1>4. /\ p = [stage |-> p.stage, began |-> p.began, ended |-> p.ended, asked |-> p.asked, bounds |-> p.bounds,
              at |-> p.at, rows |-> p.rows, chains |-> p.chains, wallets |-> p.wallets, rate |-> p.rate]
      /\ p.stage \in {"ranked", "wallets"} /\ Dated(p.began, p.ended)
      /\ p.began = writes => RankingReads(p)
  <2>1. ranking.stage \in {"ranked", "wallets"}
    BY DEF RankingChains
  <2> QED
    BY <1>2, <2>1 DEF PagesOK, RankingOK, RankingForm
<1>5. q = [p EXCEPT !.stage = IF @ = "ranked" THEN "chains" ELSE "shown", !.ended = writes,
                    !.chains = ReadChainPnl(KolsOf(p.rows), p.bounds)]
  BY <1>2, <1>3 DEF RankingChains, RankedKols, KolsOf
<1>6. /\ q = [stage |-> q.stage, began |-> q.began, ended |-> q.ended, asked |-> q.asked, bounds |-> q.bounds,
              at |-> q.at, rows |-> q.rows, chains |-> q.chains, wallets |-> q.wallets, rate |-> q.rate]
      /\ q.stage = (IF p.stage = "ranked" THEN "chains" ELSE "shown") /\ q.began = p.began /\ q.ended = writes
      /\ q.bounds = p.bounds /\ q.rows = p.rows /\ q.wallets = p.wallets
      /\ q.chains = ReadChainPnl(KolsOf(p.rows), p.bounds)
  BY <1>4, <1>5
<1>7. writes \in Nat /\ writes' = writes
  BY <1>1 DEF PagesOK, ReadsTypeOK, Quiet
<1>8. Dated(q.began, q.ended)'
  BY <1>4, <1>6, <1>7 DEF Dated
<1>9. q.began = writes => RankingReads(q)
  BY <1>4, <1>6 DEF RankingReads
<1>10. OfOneState(q) => CardParts(q)
  BY <1>6, <1>9, CardsFollow DEF OfOneState, PagesOK
<1>11. RankingOK'
  <2>1. RankingForm'
    BY <1>3, <1>6 DEF RankingForm
  <2>2. q.began = writes' => RankingReads(q)'
    BY <1>1, <1>7, <1>9, RankingReadsKept DEF Quiet
  <2> QED
    BY <1>3, <1>8, <1>10, <2>1, <2>2 DEF RankingOK
<1>12. DetailOK' /\ BoardOK'
  BY <1>1, DetailStays, BoardStays DEF Quiet
<1>13. RowsOK'
  <2>1. RowsOfOneState(q, detail) <=> RowsOfOneState(p, detail)
    BY <1>6 DEF RowsOfOneState
  <2> QED
    BY <1>1, <1>2, <1>3, <1>4, <1>6, <2>1 DEF PagesOK, RowsOK
<1>14. TotalsOK'
  <2>1. TotalsOfOneState(q, board) <=> TotalsOfOneState(p, board)
    BY <1>6 DEF TotalsOfOneState
  <2> QED
    BY <1>1, <1>2, <1>3, <1>4, <1>6, <2>1 DEF PagesOK, TotalsOK
<1>15. TablesOK' /\ ReadsTypeOK'
  <2>1. ranking'.stage \in {"chains", "shown"} /\ detail'.stage = detail.stage /\ board'.stage = board.stage
    BY <1>1, <1>3, <1>6
  <2> QED
    BY <1>1, <2>1, TablesStay DEF PagesOK, ReadsTypeOK
<1> QED
  BY <1>11, <1>12, <1>13, <1>14, <1>15 DEF PagesOK

LEMMA RankingWalletsOK == ASSUME PagesOK, RankingWallets PROVE PagesOK'
<1>1. Quiet /\ detail' = detail /\ board' = board
  BY DEF RankingWallets, database, Quiet, Kept
<1>2. PICK p : p = ranking
  OBVIOUS
<1>3. PICK q : q = ranking'
  OBVIOUS
<1>4. /\ p = [stage |-> p.stage, began |-> p.began, ended |-> p.ended, asked |-> p.asked, bounds |-> p.bounds,
              at |-> p.at, rows |-> p.rows, chains |-> p.chains, wallets |-> p.wallets, rate |-> p.rate]
      /\ p.stage \in {"ranked", "chains"} /\ Dated(p.began, p.ended)
      /\ p.began = writes => RankingReads(p)
  <2>1. ranking.stage \in {"ranked", "chains"}
    BY DEF RankingWallets
  <2> QED
    BY <1>2, <2>1 DEF PagesOK, RankingOK, RankingForm
<1>5. q = [p EXCEPT !.stage = IF @ = "ranked" THEN "wallets" ELSE "shown", !.ended = writes,
                    !.wallets = ReadPublicWallets(KolsOf(p.rows))]
  BY <1>2, <1>3 DEF RankingWallets, RankedKols, KolsOf
<1>6. /\ q = [stage |-> q.stage, began |-> q.began, ended |-> q.ended, asked |-> q.asked, bounds |-> q.bounds,
              at |-> q.at, rows |-> q.rows, chains |-> q.chains, wallets |-> q.wallets, rate |-> q.rate]
      /\ q.stage = (IF p.stage = "ranked" THEN "wallets" ELSE "shown") /\ q.began = p.began /\ q.ended = writes
      /\ q.bounds = p.bounds /\ q.rows = p.rows /\ q.chains = p.chains
      /\ q.wallets = ReadPublicWallets(KolsOf(p.rows))
  BY <1>4, <1>5
<1>7. writes \in Nat /\ writes' = writes
  BY <1>1 DEF PagesOK, ReadsTypeOK, Quiet
<1>8. Dated(q.began, q.ended)'
  BY <1>4, <1>6, <1>7 DEF Dated
<1>9. q.began = writes => RankingReads(q)
  BY <1>4, <1>6 DEF RankingReads
<1>10. OfOneState(q) => CardParts(q)
  BY <1>6, <1>9, CardsFollow DEF OfOneState, PagesOK
<1>11. RankingOK'
  <2>1. RankingForm'
    BY <1>3, <1>6 DEF RankingForm
  <2>2. q.began = writes' => RankingReads(q)'
    BY <1>1, <1>7, <1>9, RankingReadsKept DEF Quiet
  <2> QED
    BY <1>3, <1>8, <1>10, <2>1, <2>2 DEF RankingOK
<1>12. DetailOK' /\ BoardOK'
  BY <1>1, DetailStays, BoardStays DEF Quiet
<1>13. RowsOK'
  <2>1. RowsOfOneState(q, detail) <=> RowsOfOneState(p, detail)
    BY <1>6 DEF RowsOfOneState
  <2> QED
    BY <1>1, <1>2, <1>3, <1>4, <1>6, <2>1 DEF PagesOK, RowsOK
<1>14. TotalsOK'
  <2>1. TotalsOfOneState(q, board) <=> TotalsOfOneState(p, board)
    BY <1>6 DEF TotalsOfOneState
  <2> QED
    BY <1>1, <1>2, <1>3, <1>4, <1>6, <2>1 DEF PagesOK, TotalsOK
<1>15. TablesOK' /\ ReadsTypeOK'
  <2>1. ranking'.stage \in {"wallets", "shown"} /\ detail'.stage = detail.stage /\ board'.stage = board.stage
    BY <1>1, <1>3, <1>6
  <2> QED
    BY <1>1, <2>1, TablesStay DEF PagesOK, ReadsTypeOK
<1> QED
  BY <1>11, <1>12, <1>13, <1>14, <1>15 DEF PagesOK

LEMMA OpenDetailOK ==
    ASSUME PagesOK, NEW k \in Roster, NEW span \in Spans, NEW day \in 0 .. LastDate, OpenDetail(k, span, day)
    PROVE  PagesOK'
<1>1. Quiet /\ ranking' = ranking /\ board' = board /\ k \in approved
  BY DEF OpenDetail, database, Quiet, Kept
<1>2. PICK q : q = detail'
  OBVIOUS
<1>3. PICK b : b = WindowBounds(span, date)
  OBVIOUS
<1>4. q = [stage |-> "identified", began |-> writes, ended |-> writes, kol |-> k, bounds |-> b,
           month |-> MonthRange(day),
           row |-> RankingRow(k, b), private |-> Cardinality(PrivateWallets(k)),
           activity |-> {}, series |-> <<>>, sells |-> {}, chains |-> {},
           toRead |-> {"activity", "series", "sells"}]
  BY <1>2, <1>3 DEF OpenDetail
<1>5. /\ q.stage = "identified" /\ q.began = writes /\ q.ended = writes /\ q.kol = k /\ q.bounds = b
      /\ q.month = MonthRange(day) /\ q.row = RankingRow(k, b) /\ q.toRead = {"activity", "series", "sells"}
  BY <1>4
<1>6. q = [stage |-> q.stage, began |-> q.began, ended |-> q.ended, kol |-> q.kol, bounds |-> q.bounds,
              month |-> q.month, row |-> q.row, private |-> q.private, activity |-> q.activity,
              series |-> q.series, sells |-> q.sells, chains |-> q.chains, toRead |-> q.toRead]
  BY <1>4
<1>7. q.month.from \in Int /\ q.month.to = q.month.from + MonthDays
  <2>1. PICK m \in Nat \ {0} : m = MonthDays
    BY ReadsAssumption
  <2>2. (day \div m) * m \in Int
    <3>1. day \in Int
      BY ReadsAssumption
    <3>2. PICK d \in Int : d = day \div m
      BY <2>1, <3>1
    <3>3. d * m \in Int
      BY <2>1
    <3> QED
      BY <3>2, <3>3
  <2>3. q.month.from = (day \div m) * m /\ q.month.to = (day \div m) * m + m
    BY <1>5, <2>1 DEF MonthRange
  <2> QED
    BY <2>1, <2>2, <2>3
<1>8. DetailReads(q)
  BY <1>1, <1>5 DEF DetailReads
<1>9. writes \in Nat /\ writes' = writes
  BY <1>1 DEF PagesOK, ReadsTypeOK, Quiet
<1>10. DetailOK'
  <2>1. DetailForm'
    BY <1>2, <1>6 DEF DetailForm
  <2>2. Dated(q.began, q.ended)'
    BY <1>5, <1>9 DEF Dated
  <2>3. DetailReads(q)'
    BY <1>1, <1>8, DetailReadsKept DEF Quiet
  <2>4. ~OfOneState(q) /\ q.stage # "shown"
    BY <1>5 DEF OfOneState
  <2> QED
    BY <1>2, <1>7, <2>1, <2>2, <2>3, <2>4 DEF DetailOK
<1>11. RankingOK' /\ BoardOK'
  BY <1>1, RankingStays, BoardStays DEF Quiet
<1>12. RowsOK'
  <2>1. ASSUME ranking.stage # "closed", ranking.began = q.began, ranking.bounds = q.bounds
        PROVE  RowsOfOneState(ranking, q)
    <3>1. RankingReads(ranking)
      BY <1>5, <2>1 DEF PagesOK, RankingOK
    <3> QED
      BY <1>8, <2>1, <3>1, RowsFollow DEF PagesOK
  <2> QED
    BY <1>1, <1>2, <2>1 DEF RowsOK
<1>13. TotalsOK'
  BY <1>1 DEF PagesOK, TotalsOK
<1>14. TablesOK' /\ ReadsTypeOK'
  <2>1. detail'.stage = "identified" /\ ranking'.stage = ranking.stage /\ board'.stage = board.stage
    BY <1>1, <1>2, <1>5
  <2> QED
    BY <1>1, <2>1, TablesStay DEF PagesOK, ReadsTypeOK
<1> QED
  BY <1>10, <1>11, <1>12, <1>13, <1>14 DEF PagesOK

\* What a statement of a KOL's period leaves as it was.
DetailMoves(p, q) ==
    /\ q = [stage |-> q.stage, began |-> q.began, ended |-> q.ended, kol |-> q.kol, bounds |-> q.bounds,
              month |-> q.month, row |-> q.row, private |-> q.private, activity |-> q.activity,
              series |-> q.series, sells |-> q.sells, chains |-> q.chains, toRead |-> q.toRead]
    /\ q.stage \in {"identified", "shown"} /\ q.began = p.began /\ q.kol = p.kol /\ q.bounds = p.bounds
    /\ q.month = p.month /\ q.row = p.row /\ q.ended \in {p.ended, writes}
    /\ q.stage = "shown" => q.toRead = {} /\ q.ended = writes

LEMMA DetailGoesOn ==
    ASSUME PagesOK, Quiet, ranking' = ranking, board' = board, detail.stage # "closed",
           DetailMoves(detail, detail'), detail.began = writes => DetailReads(detail')
    PROVE  PagesOK'
<1>1. PICK p : p = detail
  OBVIOUS
<1>2. PICK q : q = detail'
  OBVIOUS
<1>3. /\ Dated(p.began, p.ended) /\ p.month.from \in Int /\ p.month.to = p.month.from + MonthDays
      /\ p.stage # "closed"
  BY <1>1 DEF PagesOK, DetailOK
<1>4. DetailMoves(p, q) /\ (p.began = writes => DetailReads(q))
  BY <1>1, <1>2
<1>5. /\ q = [stage |-> q.stage, began |-> q.began, ended |-> q.ended, kol |-> q.kol, bounds |-> q.bounds,
              month |-> q.month, row |-> q.row, private |-> q.private, activity |-> q.activity,
              series |-> q.series, sells |-> q.sells, chains |-> q.chains, toRead |-> q.toRead]
      /\ q.stage \in {"identified", "shown"} /\ q.began = p.began /\ q.kol = p.kol /\ q.bounds = p.bounds
      /\ q.month = p.month /\ q.row = p.row /\ q.ended \in {p.ended, writes}
      /\ q.stage = "shown" => q.toRead = {} /\ q.ended = writes
  BY <1>4 DEF DetailMoves
<1>6. writes \in Nat /\ writes' = writes
  BY DEF PagesOK, ReadsTypeOK, Quiet
<1>7. Dated(q.began, q.ended)'
  BY <1>3, <1>5, <1>6 DEF Dated
<1>8. OfOneState(q) => DetailParts(q)
  <2> SUFFICES ASSUME OfOneState(q) PROVE DetailParts(q)
    OBVIOUS
  <2>1. q.stage = "shown" /\ q.began = q.ended
    BY DEF OfOneState
  <2>2. q.toRead = {} /\ DetailReads(q)
    BY <1>4, <1>5, <2>1
  <2>3. q.month.from \in Int /\ q.month.to = q.month.from + MonthDays
    BY <1>3, <1>5
  <2> QED
    BY <2>1, <2>2, <2>3, DetailFollows DEF PagesOK
<1>9. DetailOK'
  <2>1. DetailForm'
    BY <1>2, <1>5 DEF DetailForm
  <2>2. q.began = writes' => DetailReads(q)'
    BY <1>4, <1>5, <1>6, DetailReadsKept DEF Quiet
  <2> QED
    BY <1>2, <1>3, <1>5, <1>7, <1>8, <2>1, <2>2 DEF DetailOK
<1>10. RankingOK' /\ BoardOK'
  BY RankingStays, BoardStays DEF Quiet
<1>11. RowsOK'
  <2>1. RowsOfOneState(ranking, q) <=> RowsOfOneState(ranking, p)
    BY <1>5 DEF RowsOfOneState
  <2> QED
    BY <1>1, <1>2, <1>3, <1>5, <2>1 DEF PagesOK, RowsOK
<1>12. TotalsOK'
  BY DEF PagesOK, TotalsOK
<1>13. TablesOK' /\ ReadsTypeOK'
  <2>1. detail'.stage \in {"identified", "shown"} /\ ranking'.stage = ranking.stage /\ board'.stage = board.stage
    BY <1>2, <1>5
  <2> QED
    BY <2>1, TablesStay DEF PagesOK, ReadsTypeOK
<1> QED
  BY <1>9, <1>10, <1>11, <1>12, <1>13 DEF PagesOK

LEMMA DetailActivityOK == ASSUME PagesOK, DetailActivity PROVE PagesOK'
<1>1. Quiet /\ ranking' = ranking /\ board' = board /\ detail.stage = "identified"
  BY DEF DetailActivity, database, Quiet, Kept
<1>2. PICK p : p = detail
  OBVIOUS
<1>3. PICK q : q = detail'
  OBVIOUS
<1>4. p = [stage |-> p.stage, began |-> p.began, ended |-> p.ended, kol |-> p.kol, bounds |-> p.bounds,
              month |-> p.month, row |-> p.row, private |-> p.private, activity |-> p.activity,
              series |-> p.series, sells |-> p.sells, chains |-> p.chains, toRead |-> p.toRead]
  BY <1>1, <1>2 DEF PagesOK, DetailOK, DetailForm
<1>5. p.stage = "identified" /\ (p.began = writes => DetailReads(p))
  BY <1>1, <1>2 DEF PagesOK, DetailOK
<1>6. q = [p EXCEPT !.toRead = @ \ {"activity"}, !.activity = [trades |-> ActivityOf(p.kol, p.bounds), volume |-> MapThenSumSet(LAMBDA t : t.volume, {t \in Within(recorded, p.bounds) : t.kol = p.kol})]]
  BY <1>2, <1>3 DEF DetailActivity, ActivityOf, SellsIn
<1>7. /\ q = [stage |-> q.stage, began |-> q.began, ended |-> q.ended, kol |-> q.kol, bounds |-> q.bounds,
              month |-> q.month, row |-> q.row, private |-> q.private, activity |-> q.activity,
              series |-> q.series, sells |-> q.sells, chains |-> q.chains, toRead |-> q.toRead]
      /\ q.stage = "identified" /\ q.began = p.began /\ q.ended = p.ended
      /\ q.kol = p.kol /\ q.bounds = p.bounds /\ q.month = p.month /\ q.row = p.row /\ q.private = p.private
      /\ q.series = p.series /\ q.sells = p.sells /\ q.chains = p.chains
      /\ q.toRead = p.toRead \ {"activity"} /\ q.activity.trades = ActivityOf(p.kol, p.bounds)
  BY <1>4, <1>5, <1>6
<1>8. DetailMoves(p, q)
  BY <1>4, <1>5, <1>6, <1>7 DEF DetailMoves
<1>9. p.began = writes => DetailReads(q)
  BY <1>4, <1>5, <1>6, <1>7 DEF DetailReads
<1> QED
  BY <1>1, <1>2, <1>3, <1>8, <1>9, DetailGoesOn

LEMMA DetailSeriesOK == ASSUME PagesOK, DetailSeries PROVE PagesOK'
<1>1. Quiet /\ ranking' = ranking /\ board' = board /\ detail.stage = "identified"
  BY DEF DetailSeries, database, Quiet, Kept
<1>2. PICK p : p = detail
  OBVIOUS
<1>3. PICK q : q = detail'
  OBVIOUS
<1>4. p = [stage |-> p.stage, began |-> p.began, ended |-> p.ended, kol |-> p.kol, bounds |-> p.bounds,
              month |-> p.month, row |-> p.row, private |-> p.private, activity |-> p.activity,
              series |-> p.series, sells |-> p.sells, chains |-> p.chains, toRead |-> p.toRead]
  BY <1>1, <1>2 DEF PagesOK, DetailOK, DetailForm
<1>5. p.stage = "identified" /\ (p.began = writes => DetailReads(p))
  BY <1>1, <1>2 DEF PagesOK, DetailOK
<1>6. PICK s \in Series(p.kol, p.month) : q = [p EXCEPT !.toRead = @ \ {"series"}, !.series = s]
  BY <1>2, <1>3 DEF DetailSeries
<1>7. /\ q = [stage |-> q.stage, began |-> q.began, ended |-> q.ended, kol |-> q.kol, bounds |-> q.bounds,
              month |-> q.month, row |-> q.row, private |-> q.private, activity |-> q.activity,
              series |-> q.series, sells |-> q.sells, chains |-> q.chains, toRead |-> q.toRead]
      /\ q.stage = "identified" /\ q.began = p.began /\ q.ended = p.ended
      /\ q.kol = p.kol /\ q.bounds = p.bounds /\ q.month = p.month /\ q.row = p.row /\ q.private = p.private /\ q.activity = p.activity /\ q.sells = p.sells /\ q.chains = p.chains
      /\ q.toRead = p.toRead \ {"series"} /\ q.series = s
  BY <1>4, <1>5, <1>6
<1>8. DetailMoves(p, q)
  BY <1>4, <1>5, <1>6, <1>7 DEF DetailMoves
<1>9. p.began = writes => DetailReads(q)
  BY <1>4, <1>5, <1>6, <1>7 DEF DetailReads
<1> QED
  BY <1>1, <1>2, <1>3, <1>8, <1>9, DetailGoesOn

LEMMA DetailSellsOK == ASSUME PagesOK, DetailSells PROVE PagesOK'
<1>1. Quiet /\ ranking' = ranking /\ board' = board /\ detail.stage = "identified"
  BY DEF DetailSells, database, Quiet, Kept
<1>2. PICK p : p = detail
  OBVIOUS
<1>3. PICK q : q = detail'
  OBVIOUS
<1>4. p = [stage |-> p.stage, began |-> p.began, ended |-> p.ended, kol |-> p.kol, bounds |-> p.bounds,
              month |-> p.month, row |-> p.row, private |-> p.private, activity |-> p.activity,
              series |-> p.series, sells |-> p.sells, chains |-> p.chains, toRead |-> p.toRead]
  BY <1>1, <1>2 DEF PagesOK, DetailOK, DetailForm
<1>5. p.stage = "identified" /\ (p.began = writes => DetailReads(p))
  BY <1>1, <1>2 DEF PagesOK, DetailOK
<1>6. q = [p EXCEPT !.toRead = @ \ {"sells"}, !.sells = SellsIn(p.kol, p.month)]
  BY <1>2, <1>3 DEF DetailSells, ActivityOf, SellsIn
<1>7. /\ q = [stage |-> q.stage, began |-> q.began, ended |-> q.ended, kol |-> q.kol, bounds |-> q.bounds,
              month |-> q.month, row |-> q.row, private |-> q.private, activity |-> q.activity,
              series |-> q.series, sells |-> q.sells, chains |-> q.chains, toRead |-> q.toRead]
      /\ q.stage = "identified" /\ q.began = p.began /\ q.ended = p.ended
      /\ q.kol = p.kol /\ q.bounds = p.bounds /\ q.month = p.month /\ q.row = p.row /\ q.private = p.private /\ q.activity = p.activity
      /\ q.series = p.series /\ q.chains = p.chains
      /\ q.toRead = p.toRead \ {"sells"} /\ q.sells = SellsIn(p.kol, p.month)
  BY <1>4, <1>5, <1>6
<1>8. DetailMoves(p, q)
  BY <1>4, <1>5, <1>6, <1>7 DEF DetailMoves
<1>9. p.began = writes => DetailReads(q)
  BY <1>4, <1>5, <1>6, <1>7 DEF DetailReads
<1> QED
  BY <1>1, <1>2, <1>3, <1>8, <1>9, DetailGoesOn

LEMMA DetailChainsOK == ASSUME PagesOK, DetailChains PROVE PagesOK'
<1>1. Quiet /\ ranking' = ranking /\ board' = board /\ detail.stage = "identified"
  BY DEF DetailChains, database, Quiet, Kept
<1>2. PICK p : p = detail
  OBVIOUS
<1>3. PICK q : q = detail'
  OBVIOUS
<1>4. p = [stage |-> p.stage, began |-> p.began, ended |-> p.ended, kol |-> p.kol, bounds |-> p.bounds,
              month |-> p.month, row |-> p.row, private |-> p.private, activity |-> p.activity,
              series |-> p.series, sells |-> p.sells, chains |-> p.chains, toRead |-> p.toRead]
  BY <1>1, <1>2 DEF PagesOK, DetailOK, DetailForm
<1>5. p.stage = "identified" /\ (p.began = writes => DetailReads(p))
  BY <1>1, <1>2 DEF PagesOK, DetailOK
<1>6. /\ q = [p EXCEPT !.stage = "shown", !.ended = writes, !.chains = OrderChains(ChainPnl(p.kol, p.bounds))]
      /\ p.toRead = {}
  BY <1>2, <1>3 DEF DetailChains
<1>7. /\ q = [stage |-> q.stage, began |-> q.began, ended |-> q.ended, kol |-> q.kol, bounds |-> q.bounds,
              month |-> q.month, row |-> q.row, private |-> q.private, activity |-> q.activity,
              series |-> q.series, sells |-> q.sells, chains |-> q.chains, toRead |-> q.toRead]
      /\ q.stage = "shown" /\ q.began = p.began /\ q.ended = writes
      /\ q.kol = p.kol /\ q.bounds = p.bounds /\ q.month = p.month /\ q.row = p.row /\ q.private = p.private /\ q.activity = p.activity
      /\ q.series = p.series /\ q.sells = p.sells
      /\ q.toRead = p.toRead /\ q.chains = OrderChains(ChainPnl(p.kol, p.bounds))
  BY <1>4, <1>5, <1>6
<1>8. DetailMoves(p, q)
  BY <1>4, <1>5, <1>6, <1>7 DEF DetailMoves
<1>9. p.began = writes => DetailReads(q)
  BY <1>4, <1>5, <1>6, <1>7 DEF DetailReads
<1> QED
  BY <1>1, <1>2, <1>3, <1>8, <1>9, DetailGoesOn

LEMMA OpenBoardOK == ASSUME PagesOK, NEW span \in Spans, OpenBoard(span) PROVE PagesOK'
<1>1. Quiet /\ ranking' = ranking /\ detail' = detail
  BY DEF OpenBoard, database, Quiet, Kept
<1>2. PICK q : q = board'
  OBVIOUS
<1>3. PICK b : b = WindowBounds(span, date)
  OBVIOUS
<1>4. q = [stage |-> "shown", began |-> writes, ended |-> writes, bounds |-> b, rows |-> ByTotal(BoardOf(b))]
  BY <1>2, <1>3 DEF OpenBoard, ByTotal, BoardOf
<1>5. q.stage = "shown" /\ q.began = writes /\ q.ended = writes /\ q.bounds = b /\ q.rows = ByTotal(BoardOf(b))
  BY <1>4
<1>6. BoardReads(q)
  BY <1>5 DEF BoardReads
<1>7. writes \in Nat /\ writes' = writes
  BY <1>1 DEF PagesOK, ReadsTypeOK, Quiet
<1>8. BoardOK'
  <2>1. Dated(q.began, q.ended)'
    BY <1>5, <1>7 DEF Dated
  <2>2. BoardReads(q)'
    BY <1>1, <1>6, BoardReadsKept DEF Quiet
  <2> QED
    BY <1>2, <2>1, <2>2 DEF BoardOK
<1>9. RankingOK' /\ DetailOK'
  BY <1>1, RankingStays, DetailStays DEF Quiet
<1>10. RowsOK'
  BY <1>1 DEF PagesOK, RowsOK
<1>11. TotalsOK'
  <2>1. ASSUME ranking.stage # "closed", ranking.began = q.began, ranking.bounds = q.bounds
        PROVE  TotalsOfOneState(ranking, q)
    <3>1. RankingReads(ranking)
      BY <1>5, <2>1 DEF PagesOK, RankingOK
    <3> QED
      BY <1>6, <2>1, <3>1, TotalsFollow DEF PagesOK
  <2> QED
    BY <1>1, <1>2, <2>1 DEF TotalsOK
<1>12. TablesOK' /\ ReadsTypeOK'
  <2>1. board'.stage = "shown" /\ ranking'.stage = ranking.stage /\ detail'.stage = detail.stage
    BY <1>1, <1>2, <1>5
  <2> QED
    BY <1>1, <2>1, TablesStay DEF PagesOK, ReadsTypeOK
<1> QED
  BY <1>8, <1>9, <1>10, <1>11, <1>12 DEF PagesOK

LEMMA WrittenCounts == ASSUME PagesOK, Written PROVE writes' \in 0 .. MaxWrites
<1>1. MaxWrites \in Nat
  BY ReadsAssumption
<1>2. writes \in 0 .. MaxWrites /\ writes < MaxWrites /\ writes' = writes + 1
  BY DEF PagesOK, ReadsTypeOK, Written
<1> QED
  BY <1>1, <1>2

\* The writers keep the types of what they write.
LEMMA RecordOK == ASSUME PagesOK, NEW t \in Trades, Record(t) PROVE PagesOK'
<1>1. Written
  BY DEF Record
<1>2. writes' \in 0 .. MaxWrites
  BY <1>1, WrittenCounts
<1>3. TablesOK' /\ ReadsTypeOK'
  BY <1>2 DEF PagesOK, Record, TablesOK, ReadsTypeOK
<1> QED
  BY <1>1, <1>3, WriterKeeps DEF Record

LEMMA ReplayPositionOK ==
    ASSUME PagesOK, NEW p \in Positions, NEW known \in BOOLEAN, ReplayPosition(p, known) PROVE PagesOK'
<1>1. Written
  BY DEF ReplayPosition
<1>2. writes' \in 0 .. MaxWrites
  BY <1>1, WrittenCounts
<1>3. PICK sells : sells = {t \in {q \in recorded : PositionOf(q) = p} : t.side = "sell"}
  OBVIOUS
<1>4. /\ replayed' = replayed \cup sells /\ posted' \subseteq posted \cup sells
      /\ UNCHANGED <<date, recorded, approved, guild, shows, quote, ranking, detail, board>>
  BY <1>3 DEF ReplayPosition
<1>5. \A t \in sells : t \in recorded /\ t.side = "sell"
  BY <1>3
<1>6. TablesOK'
  BY <1>4, <1>5 DEF PagesOK, TablesOK
<1>7. ReadsTypeOK'
  BY <1>2, <1>4, <1>5 DEF PagesOK, ReadsTypeOK
<1> QED
  BY <1>1, <1>4, <1>6, <1>7, WriterKeeps

LEMMA SuspendKeeps == ASSUME PagesOK, NEW k \in Roster, Suspend(k) PROVE PagesOK'
<1>1. Written
  BY DEF Suspend
<1>2. writes' \in 0 .. MaxWrites
  BY <1>1, WrittenCounts
<1>3. TablesOK' /\ ReadsTypeOK'
  BY <1>2 DEF PagesOK, Suspend, TablesOK, ReadsTypeOK
<1> QED
  BY <1>1, <1>3, WriterKeeps DEF Suspend

LEMMA MoveOK ==
    ASSUME PagesOK, NEW k \in Roster, NEW g \in Guilds \cup {NoGuild}, Move(k, g) PROVE PagesOK'
<1>1. Written
  BY DEF Move
<1>2. writes' \in 0 .. MaxWrites
  BY <1>1, WrittenCounts
<1>3. TablesOK' /\ ReadsTypeOK'
  BY <1>2 DEF PagesOK, Move, TablesOK, ReadsTypeOK
<1> QED
  BY <1>1, <1>3, WriterKeeps DEF Move

LEMMA SetVisibilityOK ==
    ASSUME PagesOK, NEW w \in Held, NEW to \in {"private", "public", "withdrawn"}, SetVisibility(w, to)
    PROVE  PagesOK'
<1>1. Written
  BY DEF SetVisibility
<1>2. writes' \in 0 .. MaxWrites
  BY <1>1, WrittenCounts
<1>3. TablesOK' /\ ReadsTypeOK'
  BY <1>2 DEF PagesOK, SetVisibility, TablesOK, ReadsTypeOK
<1> QED
  BY <1>1, <1>3, WriterKeeps DEF SetVisibility

LEMMA FetchFxOK == ASSUME PagesOK, NEW asOf \in Quotes, FetchFx(asOf) PROVE PagesOK'
<1>1. asOf \in -1 .. LastDate
  BY ReadsAssumption DEF Quotes
<1>2. Written
  BY DEF FetchFx
<1>3. writes' \in 0 .. MaxWrites
  BY <1>2, WrittenCounts
<1>4. TablesOK' /\ ReadsTypeOK'
  BY <1>1, <1>3 DEF PagesOK, FetchFx, TablesOK, ReadsTypeOK
<1> QED
  BY <1>2, <1>4, WriterKeeps DEF FetchFx

\* A day that begins, and a step of nobody's, change no page and no table.
LEMMA PagesStay ==
    ASSUME PagesOK, Kept, writes' = writes, ranking' = ranking, detail' = detail, board' = board,
           date' \in 0 .. LastDate, quote' = quote
    PROVE  PagesOK'
<1>1. RankingOK' /\ DetailOK' /\ BoardOK'
  BY RankingStays, DetailStays, BoardStays
<1>2. RowsOK' /\ TotalsOK'
  BY DEF PagesOK, RowsOK, TotalsOK
<1>3. TablesOK' /\ ReadsTypeOK'
  BY DEF PagesOK, Kept, TablesOK, ReadsTypeOK
<1> QED
  BY <1>1, <1>2, <1>3 DEF PagesOK

LEMMA NewDayOK == ASSUME PagesOK, NewDay PROVE PagesOK'
<1>1. date' \in 0 .. LastDate
  BY ReadsAssumption DEF PagesOK, ReadsTypeOK, NewDay
<1> QED
  BY <1>1, PagesStay DEF NewDay, database, Kept

LEMMA PagesKeep == PagesOK /\ [ReadsNext]_readsVars => PagesOK'
<1> SUFFICES ASSUME PagesOK, [ReadsNext]_readsVars PROVE PagesOK'
  OBVIOUS
<1>1. ASSUME NEW span \in Spans, OpenRanking(span) PROVE PagesOK'
  BY <1>1, OpenRankingOK
<1>2. ASSUME NEW span \in Spans, OpenBoard(span) PROVE PagesOK'
  BY <1>2, OpenBoardOK
<1>3. CASE RankingChains
  BY <1>3, RankingChainsOK
<1>4. CASE RankingWallets
  BY <1>4, RankingWalletsOK
<1>5. ASSUME NEW k \in Roster, NEW span \in Spans, NEW day \in 0 .. LastDate, OpenDetail(k, span, day)
      PROVE  PagesOK'
  BY <1>5, OpenDetailOK
<1>6. CASE DetailActivity
  BY <1>6, DetailActivityOK
<1>7. CASE DetailSeries
  BY <1>7, DetailSeriesOK
<1>8. CASE DetailSells
  BY <1>8, DetailSellsOK
<1>9. CASE DetailChains
  BY <1>9, DetailChainsOK
<1>10. ASSUME NEW t \in Trades, Record(t) PROVE PagesOK'
  BY <1>10, RecordOK
<1>17. ASSUME NEW p \in Positions, NEW known \in BOOLEAN, ReplayPosition(p, known) PROVE PagesOK'
  BY <1>17, ReplayPositionOK
<1>11. ASSUME NEW k \in Roster, Suspend(k) PROVE PagesOK'
  BY <1>11, SuspendKeeps
<1>12. ASSUME NEW k \in Roster, NEW g \in Guilds \cup {NoGuild}, Move(k, g) PROVE PagesOK'
  BY <1>12, MoveOK
<1>13. ASSUME NEW w \in Held, NEW to \in {"private", "public", "withdrawn"}, SetVisibility(w, to) PROVE PagesOK'
  BY <1>13, SetVisibilityOK
<1>14. ASSUME NEW asOf \in Quotes, FetchFx(asOf) PROVE PagesOK'
  BY <1>14, FetchFxOK
<1>15. CASE NewDay
  BY <1>15, NewDayOK
<1>16. CASE UNCHANGED readsVars
  BY <1>16, PagesStay DEF readsVars, database, Kept, PagesOK, ReadsTypeOK
<1> QED
  BY <1>1, <1>2, <1>3, <1>4, <1>5, <1>6, <1>7, <1>8, <1>9, <1>10, <1>11, <1>12, <1>13, <1>14, <1>15, <1>16, <1>17
     DEF ReadsNext

LEMMA PagesAlways == ReadsSpec => []PagesOK
<1>1. ReadsInit => PagesOK
  BY PagesBegin
<1>2. PagesOK /\ [ReadsNext]_readsVars => PagesOK'
  BY PagesKeep
<1> QED
  BY <1>1, <1>2, PTL DEF ReadsSpec

\* What the tables of Reads hold and the stages of its pages have their types, for every roster,
\* log of trades, set of wallets and windows.
THEOREM ReadsTypes == ReadsSpec => []ReadsTypeOK
<1>1. PagesOK => ReadsTypeOK
  BY DEF PagesOK
<1> QED
  BY <1>1, PagesAlways, PTL

LEMMA CardsAreOne == ASSUME PagesOK PROVE CardsAddUp
<1> SUFFICES ASSUME OfOneState(ranking) PROVE CardsAddUp
  BY DEF CardsAddUp
<1>1. PICK p : p = ranking
  OBVIOUS
<1>2. p.stage = "shown" /\ p.began = p.ended
  BY <1>1 DEF OfOneState
<1>3. CardParts(p) /\ Dated(p.began, p.ended) /\ (p.began = writes => RankingReads(p))
  BY <1>1, <1>2 DEF PagesOK, RankingOK
<1>4. writes = p.ended => \A i \in DOMAIN p.rows : ListSeen(p, i)
  BY <1>2, <1>3, CardsFollow DEF PagesOK
<1>5. PICK cards : cards = Entries(p)
  OBVIOUS
<1>6. /\ \A i \in DOMAIN cards :
            /\ LET lines == ByUnit(cards[i].chains) IN
                  /\ TotalSol(lines) = cards[i].entry.sol
                  /\ Cardinality(lines) = Cardinality({l.unit : l \in lines})
                  /\ MapThenSumSet(LAMBDA e : e.usd, Range(cards[i].chains)) = cards[i].entry.usd
            /\ cards[i].entry.hideWallets => cards[i].list = {}
      /\ AnythingClosed(p) <=> \E i \in DOMAIN cards : cards[i].chains # <<>>
  BY <1>3, <1>5 DEF CardParts
<1>7. ASSUME NEW i \in DOMAIN cards, cards[i].list = {}
      PROVE  \/ cards[i].entry.hideWallets
             \/ \A w \in Held : w.kol = cards[i].entry.kol /\ shows[w] = "public" => w \in Sealed
             \/ writes # p.ended
  <2>1. i \in DOMAIN p.rows /\ cards[i].entry = Entry(p.rows[i], i) /\ cards[i].list = p.wallets[p.rows[i].kol]
    BY <1>5 DEF Entries
  <2>2. Entry(p.rows[i], i).kol = p.rows[i].kol
    BY DEF Entry
  <2>3. Entry(p.rows[i], i).hideWallets = (p.rows[i].publicWallets = 0)
    BY DEF Entry
  <2>4. ASSUME writes = p.ended
        PROVE  \/ p.rows[i].publicWallets = 0
               \/ \A w \in Held : w.kol = p.rows[i].kol /\ shows[w] = "public" => w \in Sealed
    BY <1>4, <1>7, <2>1, <2>4 DEF ListSeen
  <2> QED
    BY <2>1, <2>2, <2>3, <2>4, Zenon
<1> QED
  BY <1>1, <1>5, <1>6, <1>7 DEF CardsAddUp

LEMMA PagesAreOne == ASSUME PagesOK PROVE PagesAgree
<1>1. ASSUME OfOneState(detail)
      PROVE  SumOfChains(detail.chains) = detail.row.sol /\ detail.row.closed <= detail.activity.trades
  <2>1. detail.stage # "closed"
    BY <1>1 DEF OfOneState
  <2>2. DetailParts(detail)
    BY <1>1, <2>1 DEF PagesOK, DetailOK
  <2> QED
    BY <2>2 DEF DetailParts
<1>2. ASSUME OfOneState(ranking), OfOneState(detail),
             ranking.bounds = detail.bounds, ranking.began = detail.began
      PROVE  \A i \in DOMAIN ranking.rows : ranking.rows[i].kol = detail.kol => ranking.rows[i] = detail.row
  <2>1. ranking.stage # "closed" /\ detail.stage # "closed"
    BY <1>2 DEF OfOneState
  <2>2. RowsOfOneState(ranking, detail)
    BY <1>2, <2>1 DEF PagesOK, RowsOK
  <2> QED
    BY <2>2 DEF RowsOfOneState
<1>3. ASSUME OfOneState(ranking), OfOneState(board),
             ranking.bounds = board.bounds, ranking.began = board.began, Len(ranking.rows) < RowLimit
      PROVE  \A i \in DOMAIN board.rows :
                board.rows[i].sol =
                   MapThenSumSet(LAMBDA j : ranking.rows[j].sol,
                      {j \in DOMAIN ranking.rows : ranking.rows[j].guild = board.rows[i].guild})
  <2>1. ranking.stage # "closed" /\ board.stage # "closed"
    BY <1>3 DEF OfOneState
  <2>2. TotalsOfOneState(ranking, board)
    BY <1>3, <2>1 DEF PagesOK, TotalsOK
  <2> QED
    BY <1>3, <2>2 DEF TotalsOfOneState, SolAt
<1> QED
  BY <1>1, <1>2, <1>3 DEF PagesAgree

LEMMA CalendarIsOne == ASSUME PagesOK PROVE CalendarIsOfTheMonth
<1> SUFFICES ASSUME OfOneState(detail) PROVE CalendarIsOfTheMonth
  BY DEF CalendarIsOfTheMonth
<1>1. PICK p : p = detail
  OBVIOUS
<1>2. p.stage = "shown" /\ p.began = p.ended
  BY <1>1 DEF OfOneState
<1>3. /\ DetailParts(p) /\ (p.began = writes => DetailReads(p)) /\ p.toRead = {}
      /\ p.month.from \in Int /\ p.month.to = p.month.from + MonthDays
  BY <1>1, <1>2 DEF PagesOK, DetailOK
<1>4. ASSUME p.series # <<>>, p.ended = writes
      PROVE  Accumulate(p.series)[Len(p.series)] = TotalSol(PostedIn(p.kol, p.month))
  BY <1>2, <1>3, <1>4, DetailFollows DEF PagesOK
<1>5. /\ MonthSummary(p.month, p.series).streak = Max({i[2] - i[1] : i \in RunsOf(p.month, p.series)})
      /\ \A d \in DOMAIN MonthGrid(p.month, p.series) :
            MonthGrid(p.month, p.series)[d].direction = "gain" <=> d \in UpDays(p.series)
      /\ Len(p.series) <= p.sells
  BY <1>3 DEF DetailParts
<1>6. PICK days : days = p.month.from .. p.month.to
  OBVIOUS
<1>7. PICK up : up = {d \in DOMAIN MonthGrid(p.month, p.series) :
                         MonthGrid(p.month, p.series)[d].direction = "gain"}
  OBVIOUS
<1>8. DOMAIN MonthGrid(p.month, p.series) = p.month.from .. p.month.to - 1
  BY DEF MonthGrid
<1>9. \A d \in p.month.from .. p.month.to - 1 : d \in up <=> d \in UpDays(p.series)
  BY <1>5, <1>7, <1>8
<1>10. PICK a \in Int, z \in Int : a = p.month.from /\ z = p.month.to
  <2>1. PICK n \in Int : n = MonthDays
    BY ReadsAssumption
  <2>2. p.month.from + n \in Int
    BY <1>3
  <2> QED
    BY <1>3, <2>1, <2>2
<1>11. ASSUME NEW x \in days, NEW y \in days
       PROVE  x .. y - 1 \subseteq up <=> x .. y - 1 \subseteq UpDays(p.series)
  <2>1. \A d \in x .. y - 1 : d \in a .. z - 1
    BY <1>6, <1>10
  <2> QED
    BY <1>9, <1>10, <2>1
<1>12. RunsOf(p.month, p.series) = {i \in days \X days : i[1] <= i[2] /\ i[1] .. i[2] - 1 \subseteq UpDays(p.series)}
  BY <1>6 DEF RunsOf
<1>13. RunsOf(p.month, p.series) = {i \in days \X days : i[1] <= i[2] /\ i[1] .. i[2] - 1 \subseteq up}
  <2>1. \A i \in days \X days : i[1] .. i[2] - 1 \subseteq up <=> i[1] .. i[2] - 1 \subseteq UpDays(p.series)
    BY <1>11
  <2> QED
    BY <1>12, <2>1
<1> QED
  BY <1>1, <1>4, <1>5, <1>6, <1>7, <1>13 DEF CalendarIsOfTheMonth, PostedIn

\* What a page says for good: it rests on sells that stay.
RankingWhole(p) ==
    /\ \A i \in DOMAIN p.rows : p.rows[i].closed > 0 => Contributing(p.rows[i].kol, p.bounds) # {}
    /\ p.stage \in {"chains", "shown"} =>
          \A i \in DOMAIN p.rows : p.rows[i].closed > 0 => OrderChains(p.chains[p.rows[i].kol]) # <<>>
    /\ p.stage \in {"wallets", "shown"} =>
          \A i \in DOMAIN p.rows : \A w \in p.wallets[p.rows[i].kol] : w.kol = p.rows[i].kol

DetailWhole(p) ==
    /\ p.row.closed \in Nat /\ p.row.closed <= Cardinality(Contributing(p.kol, p.bounds))
    /\ "activity" \notin p.toRead => p.row.closed <= p.activity.trades
    /\ p.stage = "shown" => p.toRead = {} /\ (p.row.closed > 0 => p.chains # <<>>)

WholeOK ==
    /\ ranking.stage # "closed" => RankingWhole(ranking)
    /\ detail.stage # "closed" => DetailWhole(detail)

\* Sells of a KOL never become fewer.
LEMMA SellsStay ==
    ASSUME PagesOK, PagesOK', replayed \subseteq replayed', NEW k, NEW b
    PROVE  /\ Contributing(k, b) \subseteq Contributing(k, b)'
           /\ Cardinality(Contributing(k, b)) \in Nat /\ Cardinality(Contributing(k, b)') \in Nat
           /\ Cardinality(Contributing(k, b)) <= Cardinality(Contributing(k, b)')
<1>1. PICK C : C = Contributing(k, b)
  OBVIOUS
<1>2. PICK D : D = Contributing(k, b)'
  OBVIOUS
<1>3. C \subseteq D
  BY <1>1, <1>2 DEF Contributing, Within
<1>4. D \subseteq Trades
  BY <1>2 DEF Contributing, Within, PagesOK, TablesOK
<1>5. IsFiniteSet(D)
  BY <1>4, ReadsAssumption, FS_Subset
<1>6. IsFiniteSet(C) /\ Cardinality(C) <= Cardinality(D)
  BY <1>3, <1>5, FS_Subset
<1>7. Cardinality(C) \in Nat /\ Cardinality(D) \in Nat
  BY <1>5, <1>6, FS_CardinalityType
<1> QED
  BY <1>1, <1>2, <1>3, <1>6, <1>7

\* There are at least as many trades as sells.
LEMMA SellsAreTrades ==
    ASSUME TablesOK, NEW k, NEW b
    PROVE  /\ Cardinality(Contributing(k, b)) \in Nat /\ ActivityOf(k, b) \in Nat
           /\ Cardinality(Contributing(k, b)) <= ActivityOf(k, b)
<1>1. PICK C : C = Contributing(k, b)
  OBVIOUS
<1>2. PICK A : A = {t \in Within(recorded, b) : t.kol = k}
  OBVIOUS
<1>3. C \subseteq A
  BY <1>1, <1>2 DEF Contributing, Within, TablesOK
<1>4. A \subseteq Trades
  BY <1>2 DEF Within, TablesOK
<1>5. IsFiniteSet(A)
  BY <1>4, ReadsAssumption, FS_Subset
<1>6. IsFiniteSet(C) /\ Cardinality(C) <= Cardinality(A)
  BY <1>3, <1>5, FS_Subset
<1>7. Cardinality(C) \in Nat /\ Cardinality(A) \in Nat
  BY <1>5, <1>6, FS_CardinalityType
<1>8. ActivityOf(k, b) = Cardinality(A)
  BY <1>2 DEF ActivityOf
<1> QED
  BY <1>1, <1>6, <1>7, <1>8

LEMMA RankingWholeKept ==
    ASSUME PagesOK, PagesOK', replayed \subseteq replayed', NEW p, RankingWhole(p) PROVE RankingWhole(p)'
<1>1. ASSUME NEW i \in DOMAIN p.rows, p.rows[i].closed > 0 PROVE Contributing(p.rows[i].kol, p.bounds)' # {}
  <2>1. Contributing(p.rows[i].kol, p.bounds) # {}
    BY <1>1 DEF RankingWhole
  <2> QED
    BY <2>1, SellsStay
<1> QED
  BY <1>1 DEF RankingWhole

LEMMA DetailWholeKept ==
    ASSUME PagesOK, PagesOK', replayed \subseteq replayed', NEW p, DetailWhole(p) PROVE DetailWhole(p)'
<1>1. PICK m : m = Cardinality(Contributing(p.kol, p.bounds))
  OBVIOUS
<1>2. PICK n : n = Cardinality(Contributing(p.kol, p.bounds)')
  OBVIOUS
<1>3. m \in Nat /\ n \in Nat /\ m <= n
  BY <1>1, <1>2, SellsStay
<1>4. p.row.closed \in Nat /\ p.row.closed <= m
  BY <1>1 DEF DetailWhole
<1>5. p.row.closed <= n
  BY <1>3, <1>4
<1> QED
  BY <1>2, <1>5 DEF DetailWhole

\* The replay adds to the sells that count, and nothing takes any away.
LEMMA SellsGrow == ASSUME [ReadsNext]_readsVars PROVE replayed \subseteq replayed'
  BY DEF ReadsNext, readsVars, database, OpenRanking, OpenBoard, RankingChains, RankingWallets, OpenDetail,
         DetailActivity, DetailSeries, DetailSells, DetailChains, Record, ReplayPosition, Suspend, Move,
         SetVisibility, FetchFx, NewDay

\* A card that closed something has chains when they are read.
LEMMA ChainsOfSells ==
    ASSUME PagesOK, NEW k, NEW b, Contributing(k, b) # {} PROVE OrderChains(ChainPnl(k, b)) # <<>>
  BY CardListed DEF PagesOK

LEMMA OpenRankingWhole ==
    ASSUME PagesOK, PagesOK', NEW span \in Spans, OpenRanking(span) PROVE RankingWhole(ranking)'
<1>1. PICK p : p = ranking'
  OBVIOUS
<1>2. p.stage = "ranked" /\ p.rows = RollingSelect(p.bounds) /\ replayed' = replayed
  BY <1>1 DEF OpenRanking, database
<1>3. ASSUME NEW i \in DOMAIN p.rows, p.rows[i].closed > 0 PROVE Contributing(p.rows[i].kol, p.bounds) # {}
  <2>1. p.rows[i].kol \in approved /\ p.rows[i] = RankingRow(p.rows[i].kol, p.bounds)
    BY <1>2, SelectIs DEF PagesOK
  <2>2. p.rows[i].closed = Cardinality(Contributing(p.rows[i].kol, p.bounds))
    BY <2>1, RowIs DEF PagesOK
  <2> QED
    BY <1>3, <2>2, FS_EmptySet
<1>4. \A k, b : Contributing(k, b)' = Contributing(k, b)
  BY <1>2 DEF Contributing, Within
<1> QED
  BY <1>1, <1>2, <1>3, <1>4 DEF RankingWhole

LEMMA RankingChainsWhole ==
    ASSUME PagesOK, PagesOK', RankingWhole(ranking), RankingChains PROVE RankingWhole(ranking)'
<1>1. PICK p : p = ranking
  OBVIOUS
<1>2. PICK q : q = ranking'
  OBVIOUS
<1>3. /\ q.rows = p.rows /\ q.bounds = p.bounds /\ q.wallets = p.wallets /\ replayed' = replayed
      /\ q.chains = ReadChainPnl(KolsOf(p.rows), p.bounds)
      /\ q.stage = (IF p.stage = "ranked" THEN "chains" ELSE "shown") /\ p.stage \in {"ranked", "wallets"}
  <2>1. RankingForm
    BY DEF PagesOK, RankingOK, RankingChains
  <2> QED
    BY <1>1, <1>2, <2>1 DEF RankingChains, database, RankedKols, KolsOf, RankingForm
<1>4. RankingWhole(p)
  BY <1>1
<1>5. ASSUME NEW i \in DOMAIN p.rows, p.rows[i].closed > 0 PROVE OrderChains(q.chains[p.rows[i].kol]) # <<>>
  <2>1. Contributing(p.rows[i].kol, p.bounds) # {}
    BY <1>4, <1>5 DEF RankingWhole
  <2>2. q.chains[p.rows[i].kol] = ChainPnl(p.rows[i].kol, p.bounds)
    BY <1>3 DEF ReadChainPnl, KolsOf
  <2> QED
    BY <2>1, <2>2, ChainsOfSells
<1>6. \A k, b : Contributing(k, b)' = Contributing(k, b)
  BY <1>3 DEF Contributing, Within
<1> QED
  BY <1>2, <1>3, <1>4, <1>5, <1>6 DEF RankingWhole

LEMMA RankingWalletsWhole ==
    ASSUME PagesOK, PagesOK', RankingWhole(ranking), RankingWallets PROVE RankingWhole(ranking)'
<1>1. PICK p : p = ranking
  OBVIOUS
<1>2. PICK q : q = ranking'
  OBVIOUS
<1>3. /\ q.rows = p.rows /\ q.bounds = p.bounds /\ q.chains = p.chains /\ replayed' = replayed
      /\ q.wallets = ReadPublicWallets(KolsOf(p.rows))
      /\ q.stage = (IF p.stage = "ranked" THEN "wallets" ELSE "shown") /\ p.stage \in {"ranked", "chains"}
  <2>1. RankingForm
    BY DEF PagesOK, RankingOK, RankingWallets
  <2> QED
    BY <1>1, <1>2, <2>1 DEF RankingWallets, database, RankedKols, KolsOf, RankingForm
<1>4. RankingWhole(p)
  BY <1>1
<1>5. ASSUME NEW i \in DOMAIN p.rows, NEW w \in q.wallets[p.rows[i].kol] PROVE w.kol = p.rows[i].kol
  <2>1. q.wallets[p.rows[i].kol] = PublicWallets(p.rows[i].kol) \ Sealed
    BY <1>3 DEF ReadPublicWallets, KolsOf
  <2> QED
    BY <1>5, <2>1 DEF PublicWallets
<1>6. \A k, b : Contributing(k, b)' = Contributing(k, b)
  BY <1>3 DEF Contributing, Within
<1> QED
  BY <1>2, <1>3, <1>4, <1>5, <1>6 DEF RankingWhole

LEMMA OpenDetailWhole ==
    ASSUME PagesOK, NEW k \in Roster, NEW span \in Spans, NEW day \in 0 .. LastDate, OpenDetail(k, span, day)
    PROVE  DetailWhole(detail)'
<1>1. PICK q : q = detail'
  OBVIOUS
<1>2. PICK b : b = WindowBounds(span, date)
  OBVIOUS
<1>3. /\ q.stage = "identified" /\ q.kol = k /\ q.bounds = b /\ q.row = RankingRow(k, b)
      /\ q.toRead = {"activity", "series", "sells"} /\ replayed' = replayed /\ k \in approved
  BY <1>1, <1>2 DEF OpenDetail, database
<1>4. q.row.closed = Cardinality(Contributing(k, b)) /\ Cardinality(Contributing(k, b)) \in Nat
  BY <1>3, RowIs, SellsAreTrades DEF PagesOK
<1>5. Contributing(k, b)' = Contributing(k, b)
  BY <1>3 DEF Contributing, Within
<1> QED
  BY <1>1, <1>3, <1>4, <1>5 DEF DetailWhole

LEMMA DetailStepWhole ==
    ASSUME PagesOK, PagesOK', DetailWhole(detail), detail.stage # "closed",
           DetailActivity \/ DetailSeries \/ DetailSells \/ DetailChains
    PROVE  DetailWhole(detail)'
<1>1. PICK p : p = detail
  OBVIOUS
<1>2. PICK q : q = detail'
  OBVIOUS
<1>3. p = [stage |-> p.stage, began |-> p.began, ended |-> p.ended, kol |-> p.kol, bounds |-> p.bounds,
              month |-> p.month, row |-> p.row, private |-> p.private, activity |-> p.activity,
              series |-> p.series, sells |-> p.sells, chains |-> p.chains, toRead |-> p.toRead]
  BY <1>1 DEF PagesOK, DetailOK, DetailForm
<1>4. DetailWhole(p) /\ TablesOK
  BY <1>1 DEF PagesOK
<1>5. replayed' = replayed /\ p.stage = "identified"
  BY <1>1 DEF DetailActivity, DetailSeries, DetailSells, DetailChains, database
<1>6. Contributing(p.kol, p.bounds)' = Contributing(p.kol, p.bounds)
  BY <1>5 DEF Contributing, Within
<1>7. PICK m : m = Cardinality(Contributing(p.kol, p.bounds))
  OBVIOUS
<1>8. m \in Nat /\ p.row.closed \in Nat /\ p.row.closed <= m
  BY <1>4, <1>7, SellsAreTrades DEF DetailWhole
<1>9. CASE DetailActivity
  <2>1. /\ q.stage = p.stage /\ q.kol = p.kol /\ q.bounds = p.bounds /\ q.row = p.row
        /\ q.activity.trades = ActivityOf(p.kol, p.bounds)
    BY <1>1, <1>2, <1>3, <1>9 DEF DetailActivity, ActivityOf
  <2>2. m <= ActivityOf(p.kol, p.bounds) /\ ActivityOf(p.kol, p.bounds) \in Nat
    BY <1>4, <1>7, SellsAreTrades
  <2>3. q.row.closed <= q.activity.trades
    BY <1>8, <2>1, <2>2
  <2> QED
    BY <1>2, <1>5, <1>6, <1>7, <1>8, <2>1, <2>3 DEF DetailWhole
<1>10. CASE DetailSeries
  <2>1. /\ q.stage = p.stage /\ q.kol = p.kol /\ q.bounds = p.bounds /\ q.row = p.row
        /\ q.activity = p.activity /\ q.toRead = p.toRead \ {"series"}
    BY <1>1, <1>2, <1>3, <1>10 DEF DetailSeries
  <2> QED
    BY <1>2, <1>4, <1>5, <1>6, <1>7, <1>8, <2>1 DEF DetailWhole
<1>11. CASE DetailSells
  <2>1. /\ q.stage = p.stage /\ q.kol = p.kol /\ q.bounds = p.bounds /\ q.row = p.row
        /\ q.activity = p.activity /\ q.toRead = p.toRead \ {"sells"}
    BY <1>1, <1>2, <1>3, <1>11 DEF DetailSells
  <2> QED
    BY <1>2, <1>4, <1>5, <1>6, <1>7, <1>8, <2>1 DEF DetailWhole
<1>12. CASE DetailChains
  <2>1. /\ q.kol = p.kol /\ q.bounds = p.bounds /\ q.row = p.row /\ p.toRead = {}
        /\ q.activity = p.activity /\ q.toRead = p.toRead
        /\ q.chains = OrderChains(ChainPnl(p.kol, p.bounds))
    BY <1>1, <1>2, <1>3, <1>12 DEF DetailChains
  <2>2. p.row.closed > 0 => Contributing(p.kol, p.bounds) # {}
    BY <1>7, <1>8, FS_EmptySet
  <2>3. p.row.closed > 0 => q.chains # <<>>
    BY <2>1, <2>2, ChainsOfSells
  <2> QED
    BY <1>2, <1>4, <1>5, <1>6, <1>7, <1>8, <2>1, <2>3 DEF DetailWhole
<1> QED
  BY <1>9, <1>10, <1>11, <1>12

LEMMA WholeKeeps == ASSUME PagesOK, PagesOK', WholeOK, [ReadsNext]_readsVars PROVE WholeOK'
<1>1. replayed \subseteq replayed'
  BY SellsGrow
<1>2. ASSUME ranking' = ranking PROVE (ranking.stage # "closed" => RankingWhole(ranking))'
  <2> SUFFICES ASSUME ranking.stage # "closed" PROVE RankingWhole(ranking)'
    BY <1>2
  <2>1. PICK p : p = ranking
    OBVIOUS
  <2>2. RankingWhole(p)'
    BY <1>1, <2>1, RankingWholeKept DEF WholeOK
  <2> QED
    BY <1>2, <2>1, <2>2 DEF RankingWhole
<1>3. ASSUME detail' = detail PROVE (detail.stage # "closed" => DetailWhole(detail))'
  <2> SUFFICES ASSUME detail.stage # "closed" PROVE DetailWhole(detail)'
    BY <1>3
  <2>1. PICK p : p = detail
    OBVIOUS
  <2>2. DetailWhole(p)'
    BY <1>1, <2>1, DetailWholeKept DEF WholeOK
  <2> QED
    BY <1>3, <2>1, <2>2 DEF DetailWhole
<1>4. ASSUME NEW span \in Spans, OpenRanking(span) PROVE WholeOK'
  <2>1. detail' = detail
    BY <1>4 DEF OpenRanking
  <2>2. RankingWhole(ranking)'
    BY <1>4, OpenRankingWhole
  <2> QED
    BY <1>3, <2>1, <2>2 DEF WholeOK
<1>5. CASE RankingChains \/ RankingWallets
  <2>1. detail' = detail /\ ranking.stage # "closed"
    BY <1>5 DEF RankingChains, RankingWallets
  <2>2. RankingWhole(ranking)'
    BY <1>5, <2>1, RankingChainsWhole, RankingWalletsWhole DEF WholeOK
  <2> QED
    BY <1>3, <2>1, <2>2 DEF WholeOK
<1>6. ASSUME NEW k \in Roster, NEW span \in Spans, NEW day \in 0 .. LastDate, OpenDetail(k, span, day)
      PROVE  WholeOK'
  <2>1. ranking' = ranking
    BY <1>6 DEF OpenDetail
  <2>2. DetailWhole(detail)'
    BY <1>6, OpenDetailWhole
  <2> QED
    BY <1>2, <2>1, <2>2 DEF WholeOK
<1>7. CASE DetailActivity \/ DetailSeries \/ DetailSells \/ DetailChains
  <2>1. ranking' = ranking /\ detail.stage # "closed"
    BY <1>7 DEF DetailActivity, DetailSeries, DetailSells, DetailChains
  <2>2. DetailWhole(detail)'
    BY <1>7, <2>1, DetailStepWhole DEF WholeOK
  <2> QED
    BY <1>2, <2>1, <2>2 DEF WholeOK
<1>8. ASSUME ranking' = ranking, detail' = detail PROVE WholeOK'
  BY <1>2, <1>3, <1>8 DEF WholeOK
<1>9. ASSUME NEW span \in Spans, OpenBoard(span) PROVE WholeOK'
  BY <1>8, <1>9 DEF OpenBoard
<1>10. ASSUME NEW t \in Trades, Record(t) PROVE WholeOK'
  BY <1>8, <1>10 DEF Record
<1>11. ASSUME NEW p \in Positions, NEW known \in BOOLEAN, ReplayPosition(p, known) PROVE WholeOK'
  BY <1>8, <1>11 DEF ReplayPosition
<1>12. ASSUME NEW k \in Roster, Suspend(k) \/ \E g \in Guilds \cup {NoGuild} : Move(k, g) PROVE WholeOK'
  BY <1>8, <1>12 DEF Suspend, Move
<1>13. ASSUME NEW w \in Held, NEW to \in {"private", "public", "withdrawn"}, SetVisibility(w, to) PROVE WholeOK'
  BY <1>8, <1>13 DEF SetVisibility
<1>14. ASSUME NEW asOf \in Quotes, FetchFx(asOf) PROVE WholeOK'
  BY <1>8, <1>14 DEF FetchFx
<1>15. CASE NewDay
  BY <1>8, <1>15 DEF NewDay
<1>16. CASE UNCHANGED readsVars
  BY <1>8, <1>16 DEF readsVars
<1> QED
  BY <1>4, <1>5, <1>6, <1>7, <1>9, <1>10, <1>11, <1>12, <1>13, <1>14, <1>15, <1>16 DEF ReadsNext

LEMMA NothingIsHalf == ASSUME WholeOK PROVE NothingIsHalfShown
<1>1. ASSUME ranking.stage = "shown", NEW i \in DOMAIN ranking.rows
      PROVE  LET card == Entries(ranking)[i] IN
             /\ ranking.rows[i].closed > 0 => card.chains # <<>>
             /\ \A w \in card.list : w.kol = card.entry.kol
  <2>1. PICK p : p = ranking
    OBVIOUS
  <2>2. RankingWhole(p) /\ p.stage = "shown" /\ i \in DOMAIN p.rows
    BY <1>1, <2>1 DEF WholeOK
  <2>3. PICK card : card = Entries(p)[i]
    OBVIOUS
  <2>4. /\ card.entry = Entry(p.rows[i], i) /\ card.chains = OrderChains(p.chains[p.rows[i].kol])
        /\ card.list = p.wallets[p.rows[i].kol]
    BY <2>2, <2>3 DEF Entries
  <2>5. card.entry.kol = p.rows[i].kol
    BY <2>4 DEF Entry
  <2>6. p.rows[i].closed > 0 => card.chains # <<>>
    BY <2>2, <2>4 DEF RankingWhole
  <2>7. \A w \in card.list : w.kol = card.entry.kol
    BY <2>2, <2>4, <2>5 DEF RankingWhole
  <2> QED
    BY <2>1, <2>3, <2>6, <2>7
<1>2. ASSUME detail.stage = "shown"
      PROVE  /\ detail.row.closed <= detail.activity.trades
             /\ detail.row.closed > 0 => detail.chains # <<>>
  BY <1>2 DEF WholeOK, DetailWhole
<1> QED
  BY <1>1, <1>2 DEF NothingIsHalfShown

\* The pages hold together, however their statements and the writers interleave: a card's amounts add
\* up to its figure, the pages over one interval say the same of a KOL and of a cabal, the calendar is
\* of its month as pnl_daily has it, and no figure is shown without what it is made of
\* (readLeaderboard, readKolDetail, readCabals, buildMonth).
THEOREM PagesAreOfOneState == ReadsSpec => []PagesHoldTogether
<1>1. ReadsInit => WholeOK
  BY DEF ReadsInit, WholeOK, Closed
<1>2. PagesOK /\ PagesOK' /\ WholeOK /\ [ReadsNext]_readsVars => WholeOK'
  BY WholeKeeps
<1>3. PagesOK /\ WholeOK => PagesHoldTogether
  BY CardsAreOne, PagesAreOne, CalendarIsOne, NothingIsHalf DEF PagesHoldTogether
<1> QED
  BY <1>1, <1>2, <1>3, PagesAlways, PTL DEF ReadsSpec
=============================================================================
