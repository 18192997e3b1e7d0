-------------------------- MODULE ClassifierProofs --------------------------
(***************************************************************************)
(* What Classifier promises for any transactions, mints, rates, rent and   *)
(* dust, whatever and however much of a transaction cannot be read.        *)
(*                                                                         *)
(* The invariant PayloadOK says that what the parser is given is the       *)
(* transaction with parts missing (Lost), and after one loss with one part *)
(* missing (OneLost).  The rest compares the two.  If the parser reads its *)
(* way to the legs (Read), every change of ours that is missing moved      *)
(* nothing, so legs, dust and lamports are those of the whole, at a scale  *)
(* that may be coarser, and the decision is the same but for the rent that *)
(* is stated (Follows).  If not, it throws, or nothing of ours is left.    *)
(***************************************************************************)
EXTENDS FiguresProofs, Classifier

-----------------------------------------------------------------------------
(* Powers of ten.                                                          *)

\* Induction over the numbers, with a set in place of a predicate.
LEMMA NumberInduction ==
    ASSUME NEW Good \in SUBSET Nat, 0 \in Good, \A n \in Good : n + 1 \in Good
    PROVE  \A n \in Nat : n \in Good
<1> SUFFICES ASSUME NEW n \in Nat, n \notin Good PROVE FALSE
  OBVIOUS
<1> DEFINE Bad == {i \in 0 .. n : i \notin Good}
<1>1. IsFiniteSet(0 .. n)
  BY FS_Interval
<1>2. IsFiniteSet(Bad) /\ Bad \subseteq Int /\ n \in Bad
  BY <1>1, FS_Subset
<1>3. PICK x \in Bad : \A y \in Bad : x <= y
  <2> HIDE DEF Bad
  <2> QED
    BY <1>2, Least
<1>4. x # 0 /\ x \in Nat
  BY <1>3
<1>5. x - 1 \in Nat /\ x - 1 \in 0 .. n /\ x - 1 \notin Bad
  BY <1>3, <1>4
<1>6. x - 1 \in Good
  BY <1>5
<1>7. (x - 1) + 1 = x
  BY <1>4
<1> QED
  BY <1>3, <1>6, <1>7

\* h has the powers up to n.
PowersTo(h, n) ==
    /\ h \in [0 .. n -> Nat]
    /\ \A i \in 0 .. n : h[i] = IF i = 0 THEN 1 ELSE 10 * h[i - 1]

LEMMA PowersExist == \A n \in Nat : \E h : PowersTo(h, n)
<1> DEFINE Good == {n \in Nat : \E h : PowersTo(h, n)}
<1>1. 0 \in Good
  <2>1. PICK h : h = [i \in 0 .. 0 |-> 1]
    OBVIOUS
  <2>2. PowersTo(h, 0)
    BY <2>1 DEF PowersTo
  <2> QED
    BY <2>2
<1>2. ASSUME NEW n \in Good PROVE n + 1 \in Good
  <2>1. PICK h : PowersTo(h, n)
    OBVIOUS
  <2>2. PICK k : k = [i \in 0 .. n + 1 |-> IF i = n + 1 THEN 10 * h[n] ELSE h[i]]
    OBVIOUS
  <2>3. h[n] \in Nat
    BY <2>1 DEF PowersTo
  <2>4. k \in [0 .. n + 1 -> Nat]
    BY <2>1, <2>2, <2>3 DEF PowersTo
  <2>5. ASSUME NEW i \in 0 .. n + 1 PROVE k[i] = IF i = 0 THEN 1 ELSE 10 * k[i - 1]
    <3>1. CASE i = n + 1
      BY <2>2, <3>1
    <3>2. CASE i # n + 1
      <4>1. i \in 0 .. n /\ k[i] = h[i]
        BY <2>2, <3>2
      <4>2. i # 0 => k[i - 1] = h[i - 1]
        BY <2>2, <3>2
      <4> QED
        BY <2>1, <4>1, <4>2 DEF PowersTo
    <3> QED
      BY <3>1, <3>2
  <2>6. PowersTo(k, n + 1)
    BY <2>4, <2>5 DEF PowersTo
  <2> QED
    BY <2>6
<1>3. Good \in SUBSET Nat
  OBVIOUS
<1>4. \A n \in Nat : n \in Good
  <2> HIDE DEF Good
  <2> QED
    BY <1>1, <1>2, <1>3, NumberInduction
<1> QED
  BY <1>4

LEMMA PowersAgree ==
    ASSUME NEW n \in Nat, NEW m \in Nat, NEW h, NEW k, PowersTo(h, n), PowersTo(k, m)
    PROVE  \A i \in Nat : i <= n /\ i <= m => h[i] = k[i]
<1> DEFINE Good == {i \in Nat : i <= n /\ i <= m => h[i] = k[i]}
<1>1. 0 \in Good
  BY DEF PowersTo
<1>2. ASSUME NEW i \in Good PROVE i + 1 \in Good
  <2> SUFFICES ASSUME i + 1 <= n, i + 1 <= m PROVE h[i + 1] = k[i + 1]
    OBVIOUS
  <2>1. h[i] = k[i]
    OBVIOUS
  <2>2. i + 1 \in 0 .. n /\ i + 1 \in 0 .. m /\ i + 1 # 0 /\ (i + 1) - 1 = i
    OBVIOUS
  <2> QED
    BY <2>1, <2>2 DEF PowersTo
<1>3. Good \in SUBSET Nat
  OBVIOUS
<1>4. \A i \in Nat : i \in Good
  <2> HIDE DEF Good
  <2> QED
    BY <1>1, <1>2, <1>3, NumberInduction
<1> QED
  BY <1>4

LEMMA PowersAre ==
    /\ PowerOfTen[0] = 1
    /\ \A n \in Nat : PowerOfTen[n + 1] = 10 * PowerOfTen[n]
<1> DEFINE H(n) == CHOOSE h : PowersTo(h, n)
           f == [n \in Nat |-> H(n)[n]]
<1>1. ASSUME NEW n \in Nat PROVE PowersTo(H(n), n)
  BY PowersExist
<1>2. ASSUME NEW n \in Nat PROVE f[n] = IF n = 0 THEN 1 ELSE 10 * f[n - 1]
  <2> HIDE DEF H
  <2>1. CASE n = 0
    BY <1>1, <2>1 DEF PowersTo
  <2>2. CASE n # 0
    <3>1. n - 1 \in Nat
      BY <2>2
    <3>2. H(n)[n] = 10 * H(n)[n - 1]
      BY <1>1, <2>2 DEF PowersTo
    <3>3. H(n)[n - 1] = H(n - 1)[n - 1]
      BY <1>1, <3>1, PowersAgree
    <3> QED
      BY <2>2, <3>1, <3>2, <3>3
  <2> QED
    BY <2>1, <2>2
<1>3. f = [n \in Nat |-> IF n = 0 THEN 1 ELSE 10 * f[n - 1]]
  <2>1. f = [n \in Nat |-> f[n]]
    OBVIOUS
  <2> HIDE DEF f
  <2> QED
    BY <1>2, <2>1
<1>4. PowerOfTen = [n \in Nat |-> IF n = 0 THEN 1 ELSE 10 * PowerOfTen[n - 1]]
  <2> HIDE DEF f
  <2> QED
    BY <1>3 DEF PowerOfTen
<1>5. \A n \in Nat : PowerOfTen[n] = IF n = 0 THEN 1 ELSE 10 * PowerOfTen[n - 1]
  BY <1>4
<1>6. ASSUME NEW n \in Nat PROVE PowerOfTen[n + 1] = 10 * PowerOfTen[n]
  <2>1. n + 1 \in Nat /\ n + 1 # 0 /\ (n + 1) - 1 = n
    OBVIOUS
  <2> QED
    BY <1>5, <2>1
<1> QED
  BY <1>5, <1>6

LEMMA PowersArePositive == \A n \in Nat : PowerOfTen[n] \in Nat \ {0}
<1> DEFINE Good == {n \in Nat : PowerOfTen[n] \in Nat \ {0}}
<1>1. 0 \in Good /\ \A n \in Good : n + 1 \in Good
  BY PowersAre
<1>2. Good \in SUBSET Nat
  OBVIOUS
<1>3. \A n \in Nat : n \in Good
  <2> HIDE DEF Good
  <2> QED
    BY <1>1, <1>2, NumberInduction
<1> QED
  BY <1>3

\* A finer scale is a coarser one many times over.
LEMMA PowersMultiply ==
    ASSUME NEW a \in Nat, NEW b \in Nat
    PROVE  PowerOfTen[a + b] = PowerOfTen[a] * PowerOfTen[b]
<1> DEFINE Good == {n \in Nat : PowerOfTen[a + n] = PowerOfTen[a] * PowerOfTen[n]}
<1>1. 0 \in Good
  <2>1. PowerOfTen[a] \in Nat /\ a + 0 = a
    BY PowersArePositive
  <2> QED
    BY <2>1, PowersAre
<1>2. ASSUME NEW n \in Good PROVE n + 1 \in Good
  <2>1. PowerOfTen[a] \in Nat /\ PowerOfTen[n] \in Nat /\ a + n \in Nat
    BY PowersArePositive
  <2>2. PowerOfTen[(a + n) + 1] = 10 * PowerOfTen[a + n] /\ PowerOfTen[n + 1] = 10 * PowerOfTen[n]
    BY <2>1, PowersAre
  <2>3. (a + n) + 1 = a + (n + 1)
    OBVIOUS
  <2>4. \A x, y \in Nat : 10 * (x * y) = x * (10 * y)
    OBVIOUS
  <2>5. 10 * (PowerOfTen[a] * PowerOfTen[n]) = PowerOfTen[a] * (10 * PowerOfTen[n])
    BY <2>1, <2>4
  <2>6. PowerOfTen[a + (n + 1)] = PowerOfTen[a] * PowerOfTen[n + 1]
    BY <2>2, <2>3, <2>5
  <2> QED
    BY <2>6
<1>3. Good \in SUBSET Nat
  OBVIOUS
<1>4. \A n \in Nat : n \in Good
  <2> HIDE DEF Good
  <2> QED
    BY <1>1, <1>2, <1>3, NumberInduction
<1> QED
  BY <1>4
-----------------------------------------------------------------------------
(* Sums.                                                                   *)

\* SumOver is the sum of what its function gives.
LEMMA SumIs ==
    ASSUME NEW S, IsFiniteSet(S), NEW g \in [S -> Int], NEW f, Sums(f, g, S)
    PROVE  SumOver(g) = f[S] /\ SumOver(g) \in Int
<1> DEFINE Fold(h) == h = [s \in SUBSET S |->
                           IF s = {} THEN 0 ELSE g[CHOOSE x \in s : TRUE] + h[s \ {CHOOSE x \in s : TRUE}]]
           h0 == CHOOSE h : Fold(h)
<1>1. DOMAIN g = S
  OBVIOUS
<1>2. Fold(f)
  <2>1. ASSUME NEW s \in SUBSET S
        PROVE  f[s] = IF s = {} THEN 0 ELSE g[CHOOSE x \in s : TRUE] + f[s \ {CHOOSE x \in s : TRUE}]
    BY DEF Sums, Adds, TakenOut
  <2>2. f = [s \in SUBSET S |-> f[s]]
    BY DEF Sums
  <2> QED
    BY <2>1, <2>2
<1>3. Fold(h0)
  <2> HIDE DEF Fold
  <2> QED
    BY <1>2
<1>4. SumOver(g) = h0[S]
  BY <1>1 DEF SumOver, MapThenSumSet, MapThenFoldSet
<1>5. Adds(h0, g, S)
  <2> HIDE DEF h0
  <2>1. ASSUME NEW s \in SUBSET S, s # {} PROVE s \ {CHOOSE x \in s : TRUE} \in SUBSET S
    OBVIOUS
  <2> QED
    BY <1>3, <2>1 DEF Adds, TakenOut
<1> HIDE DEF h0
<1>6. \A u \in SUBSET (S \cap S) : h0[u] = f[u]
  BY <1>5, SumsAgree DEF Sums
<1>7. f[S] \in Int
  BY DEF Sums
<1> QED
  BY <1>4, <1>6, <1>7

Splits(f, g, S) == \A u \in SUBSET S : \A x \in u : f[u] = g[x] + f[u \ {x}]

LEMMA SplitsExist ==
    ASSUME NEW S, IsFiniteSet(S), NEW g \in [S -> Int]
    PROVE  \E f : Sums(f, g, S) /\ Splits(f, g, S)
<1>1. PICK f : Sums(f, g, S)
  BY SumsExist
<1>2. ASSUME NEW u \in SUBSET S, NEW x \in u PROVE f[u] = g[x] + f[u \ {x}]
  BY <1>1, AnyOrder
<1>3. Splits(f, g, S)
  BY <1>2 DEF Splits
<1> QED
  BY <1>1, <1>3

\* Terms that are all multiplied by k, and terms that are zero beside them.
LEMMA SumScaled ==
    ASSUME NEW T, IsFiniteSet(T), NEW S \in SUBSET T, NEW g \in [S -> Int], NEW h \in [T -> Int],
           NEW k \in Int, \A x \in S : h[x] = k * g[x], \A x \in T \ S : h[x] = 0
    PROVE  SumOver(g) \in Int /\ SumOver(h) = k * SumOver(g)
<1>0. IsFiniteSet(S)
  BY FS_Subset
<1>1. PICK f : Sums(f, g, S) /\ Splits(f, g, S)
  BY <1>0, SplitsExist
<1>2. PICK e : Sums(e, h, T)
  BY SumsExist
<1> DEFINE Good == {s \in SUBSET T : e[s] = k * f[s \cap S]}
<1>3. ASSUME NEW s \in SUBSET T, \A t \in SUBSET T : t \subseteq s /\ t # s => t \in Good
      PROVE  s \in Good
  <2>1. CASE s = {}
    <3>1. e[s] = 0 /\ s \cap S = {}
      BY <1>2, <2>1 DEF Sums, Adds
    <3>2. f[s \cap S] = 0
      BY <1>1, <3>1 DEF Sums, Adds
    <3> QED
      BY <3>1, <3>2
  <2>2. CASE s # {}
    <3>1. PICK x \in s : TRUE
      BY <2>2
    <3>2. s \ {x} \in Good
      BY <1>3
    <3>3. e[s \ {x}] = k * f[(s \ {x}) \cap S]
      BY <3>2
    <3>4. e[s] = h[x] + e[s \ {x}]
      BY <1>2, AnyOrder
    <3>5. f[s \cap S] \in Int /\ f[(s \ {x}) \cap S] \in Int
      BY <1>1 DEF Sums
    <3>6. CASE x \in S
      <4>1. x \in s \cap S /\ (s \cap S) \ {x} = (s \ {x}) \cap S
        BY <3>6
      <4>2. f[s \cap S] = g[x] + f[(s \ {x}) \cap S]
        <5>1. PICK u \in SUBSET S : u = s \cap S
          OBVIOUS
        <5>2. x \in u
          BY <4>1, <5>1
        <5>3. f[u] = g[x] + f[u \ {x}]
          BY <1>1, <5>2 DEF Splits
        <5> QED
          BY <4>1, <5>1, <5>3
      <4>3. g[x] \in Int /\ h[x] = k * g[x]
        BY <3>6
      <4>4. \A y, z \in Int : k * y + k * z = k * (y + z)
        OBVIOUS
      <4>5. e[s] = k * g[x] + k * f[(s \ {x}) \cap S]
        BY <3>3, <3>4, <4>3
      <4>6. k * g[x] + k * f[(s \ {x}) \cap S] = k * (g[x] + f[(s \ {x}) \cap S])
        BY <3>5, <4>3, <4>4
      <4> QED
        BY <4>2, <4>5, <4>6
    <3>7. CASE x \notin S
      <4>1. (s \ {x}) \cap S = s \cap S /\ h[x] = 0
        BY <3>7
      <4>2. \A z \in Int : 0 + k * z = k * z
        OBVIOUS
      <4> QED
        BY <3>3, <3>4, <3>5, <4>1, <4>2
    <3> QED
      BY <3>6, <3>7
  <2> QED
    BY <2>1, <2>2
<1>4. Good \in SUBSET (SUBSET T)
  OBVIOUS
<1>5. T \in Good
  <2>1. \A s \in SUBSET T : s \in Good
    <3> HIDE DEF Good
    <3> QED
      BY <1>3, <1>4, SubsetInduction
  <2> QED
    BY <2>1
<1>6. e[T] = k * f[S]
  <2>1. T \cap S = S
    OBVIOUS
  <2> QED
    BY <1>5, <2>1
<1>7. SumOver(g) = f[S] /\ SumOver(g) \in Int
  BY <1>0, <1>1, SumIs
<1>8. SumOver(h) = e[T]
  BY <1>2, SumIs
<1> QED
  BY <1>6, <1>7, <1>8

\* Terms that are zero do not count.
LEMMA SumWithZeros ==
    ASSUME NEW T, IsFiniteSet(T), NEW S \in SUBSET T, NEW g \in [S -> Int], NEW h \in [T -> Int],
           \A x \in S : h[x] = g[x], \A x \in T \ S : h[x] = 0
    PROVE  SumOver(g) \in Int /\ SumOver(h) = SumOver(g)
<1>1. PICK k \in Int : k = 1
  OBVIOUS
<1>2. \A x \in S : h[x] = k * g[x]
  BY <1>1
<1>3. SumOver(g) \in Int /\ SumOver(h) = k * SumOver(g)
  BY <1>2, SumScaled
<1> QED
  BY <1>1, <1>3

LEMMA SumOfZeros ==
    ASSUME NEW T, IsFiniteSet(T), NEW h \in [T -> Int], \A x \in T : h[x] = 0
    PROVE  SumOver(h) = 0
<1>1. PICK g : g = [x \in {} |-> 0]
  OBVIOUS
<1>2. g \in [{} -> Int] /\ {} \in SUBSET T
  BY <1>1
<1>3. PICK k \in Int : k = 0
  OBVIOUS
<1>4. PICK S \in SUBSET T : S = {}
  OBVIOUS
<1>5. g \in [S -> Int] /\ (\A x \in S : h[x] = k * g[x]) /\ (\A x \in T \ S : h[x] = 0)
  BY <1>2, <1>4
<1>6. SumOver(h) = k * SumOver(g) /\ SumOver(g) \in Int
  BY <1>5, SumScaled
<1> QED
  BY <1>3, <1>6

\* No term is above the other's.
LEMMA SumNoMore ==
    ASSUME NEW T, IsFiniteSet(T), NEW S \in SUBSET T, NEW g \in [S -> Int], NEW h \in [T -> Int],
           \A x \in S : g[x] <= h[x], \A x \in T \ S : 0 <= h[x]
    PROVE  SumOver(g) \in Int /\ SumOver(h) \in Int /\ SumOver(g) <= SumOver(h)
<1>0. IsFiniteSet(S)
  BY FS_Subset
<1>1. PICK f : Sums(f, g, S) /\ Splits(f, g, S)
  BY <1>0, SplitsExist
<1>2. PICK e : Sums(e, h, T)
  BY SumsExist
<1> DEFINE Good == {s \in SUBSET T : f[s \cap S] <= e[s]}
<1>3. ASSUME NEW s \in SUBSET T, \A t \in SUBSET T : t \subseteq s /\ t # s => t \in Good
      PROVE  s \in Good
  <2>1. CASE s = {}
    <3>1. e[s] = 0 /\ s \cap S = {}
      BY <1>2, <2>1 DEF Sums, Adds
    <3>2. f[s \cap S] = 0
      BY <1>1, <3>1 DEF Sums, Adds
    <3> QED
      BY <3>1, <3>2
  <2>2. CASE s # {}
    <3>1. PICK x \in s : TRUE
      BY <2>2
    <3>2. s \ {x} \in Good
      BY <1>3
    <3>3. f[(s \ {x}) \cap S] <= e[s \ {x}]
      BY <3>2
    <3>4. e[s] = h[x] + e[s \ {x}]
      BY <1>2, AnyOrder
    <3>5. f[s \cap S] \in Int /\ f[(s \ {x}) \cap S] \in Int /\ e[s \ {x}] \in Int /\ h[x] \in Int
      BY <1>1, <1>2 DEF Sums
    <3>6. CASE x \in S
      <4>1. x \in s \cap S /\ (s \cap S) \ {x} = (s \ {x}) \cap S
        BY <3>6
      <4>2. f[s \cap S] = g[x] + f[(s \ {x}) \cap S]
        <5>1. PICK u \in SUBSET S : u = s \cap S
          OBVIOUS
        <5>2. x \in u
          BY <4>1, <5>1
        <5>3. f[u] = g[x] + f[u \ {x}]
          BY <1>1, <5>2 DEF Splits
        <5> QED
          BY <4>1, <5>1, <5>3
      <4>3. g[x] \in Int /\ g[x] <= h[x]
        BY <3>6
      <4> QED
        BY <3>3, <3>4, <3>5, <4>2, <4>3
    <3>7. CASE x \notin S
      <4>1. (s \ {x}) \cap S = s \cap S /\ 0 <= h[x]
        BY <3>7
      <4>2. f[s \cap S] <= e[s \ {x}]
        BY <3>3, <4>1
      <4>3. \A a, b, c \in Int : a <= b /\ 0 <= c => a <= c + b
        OBVIOUS
      <4>4. f[s \cap S] <= h[x] + e[s \ {x}]
        BY <3>5, <4>1, <4>2, <4>3
      <4> QED
        BY <3>4, <4>4
    <3> QED
      BY <3>6, <3>7
  <2> QED
    BY <2>1, <2>2
<1>4. Good \in SUBSET (SUBSET T)
  OBVIOUS
<1>5. T \in Good
  <2>1. \A s \in SUBSET T : s \in Good
    <3> HIDE DEF Good
    <3> QED
      BY <1>3, <1>4, SubsetInduction
  <2> QED
    BY <2>1
<1>6. f[S] <= e[T]
  <2>1. T \cap S = S
    OBVIOUS
  <2> QED
    BY <1>5, <2>1
<1>7. SumOver(g) = f[S] /\ SumOver(g) \in Int
  BY <1>0, <1>1, SumIs
<1>8. SumOver(h) = e[T] /\ SumOver(h) \in Int
  BY <1>2, SumIs
<1> QED
  BY <1>6, <1>7, <1>8
-----------------------------------------------------------------------------
(* What is left of a transaction.                                          *)

SeenChange == [owner : Accounts \cup {Unread}, mint : SomeMint \cup {Unread},
               raw : Int \cup {Unread}, dec : Nat \cup {Unread}]

ChangeLost(c, d) ==
    \/ d = Unread
    \/ /\ d \in SeenChange
       /\ d.owner \in {c.owner, Unread} /\ d.mint \in {c.mint, Unread}
       /\ d.raw \in {c.raw, Unread} /\ d.dec \in {c.dec, Unread}

ListLost(l, k) ==
    \/ k = Unread
    \/ /\ k = [j \in DOMAIN l |-> k[j]]
       /\ \A j \in DOMAIN l : ChangeLost(l[j], k[j])

EntryLost(e, f) ==
    \/ f = Unread
    \/ /\ f = [account |-> f.account, native |-> f.native, changes |-> f.changes]
       /\ f.account \in {e.account, Unread} /\ f.native \in {e.native, Unread}
       /\ ListLost(e.changes, f.changes)

EntriesLost(l, k) ==
    \/ k = Unread
    \/ /\ k = [i \in DOMAIN l |-> k[i]]
       /\ \A i \in DOMAIN l : EntryLost(l[i], k[i])

\* Parts of p cannot be read in q, and the others are what they were.
Lost(p, q) ==
    /\ q = [feePayer |-> q.feePayer, fee |-> q.fee, header |-> q.header, entries |-> q.entries]
    /\ q.feePayer \in {p.feePayer, Unread} /\ q.fee \in {p.fee, Unread}
    /\ q.header \in {p.header, Unread} /\ EntriesLost(p.entries, q.entries)

\* Of e, at most an account's name, its lamports or its changes.
OneOfEntry(e, f) ==
    \/ f = Unread
    \/ f.account = e.account /\ f.native = e.native
    \/ f.changes = e.changes /\ (f.account = e.account \/ f.native = e.native)

\* At most one part is lost.
OneLost(p, q) ==
    \/ q.entries \in {Unread, p.entries}
    \/ /\ q.feePayer = p.feePayer /\ q.fee = p.fee
       /\ \E i \in DOMAIN p.entries :
             /\ OneOfEntry(p.entries[i], q.entries[i])
             /\ \A k \in DOMAIN p.entries : k # i => q.entries[k] = p.entries[k]

PayloadOK ==
    /\ truth \in Payloads /\ minuteRate \in SolUsd /\ hidden \in Nat
    /\ Lost(truth, seen)
    /\ hidden = 0 => seen = truth
    /\ hidden <= 1 => OneLost(truth, seen)

LEMMA PayloadShape ==
    ASSUME NEW p \in Payloads
    PROVE  /\ p = [feePayer |-> p.feePayer, fee |-> p.fee, header |-> p.header, entries |-> p.entries]
           /\ p.feePayer \in Accounts /\ p.fee \in Nat /\ p.header = "read"
           /\ p.entries \in Seq(AccountEntry)
           /\ Unread \notin {p.feePayer, p.fee, p.header, p.entries}
<1>1. p \in EnhancedTx
  BY ClassifierAssumption
<1>2. p.feePayer \in Accounts /\ p.fee \in Nat /\ p.header = "read" /\ p.entries \in Seq(AccountEntry)
  BY <1>1 DEF EnhancedTx
<1>3. p = [feePayer |-> p.feePayer, fee |-> p.fee, header |-> p.header, entries |-> p.entries]
  BY <1>1 DEF EnhancedTx
<1> QED
  BY <1>2, <1>3, UnreadAssumption

LEMMA EntryShape ==
    ASSUME NEW p \in Payloads, NEW i \in DOMAIN p.entries, NEW e, e = p.entries[i]
    PROVE  /\ e = [account |-> e.account, native |-> e.native, changes |-> e.changes]
           /\ e.account \in Accounts /\ e.native \in Int /\ e.changes \in Seq(TokenChange)
           /\ Unread \notin {e, e.account, e.native, e.changes}
<1>1. e \in AccountEntry
  BY PayloadShape
<1>2. e.account \in Accounts /\ e.native \in Int /\ e.changes \in Seq(TokenChange)
  BY <1>1 DEF AccountEntry
<1>3. e = [account |-> e.account, native |-> e.native, changes |-> e.changes]
  BY <1>1 DEF AccountEntry
<1> QED
  BY <1>1, <1>2, <1>3, UnreadAssumption

LEMMA ChangeShape ==
    ASSUME NEW p \in Payloads, NEW i \in DOMAIN p.entries, NEW j \in DOMAIN p.entries[i].changes,
           NEW c, c = p.entries[i].changes[j]
    PROVE  /\ c \in TokenChange /\ c \in SeenChange
           /\ c.owner \in Accounts /\ c.mint \in SomeMint /\ c.raw \in Int /\ c.dec \in Nat
           /\ Unread \notin {c, c.owner, c.mint, c.raw, c.dec}
<1>1. c \in TokenChange
  BY EntryShape
<1>2. c.owner \in Accounts /\ c.mint \in SomeMint /\ c.raw \in Int /\ c.dec \in Nat
  BY <1>1 DEF TokenChange
<1>3. c \in SeenChange
  BY <1>1 DEF TokenChange, SeenChange
<1> QED
  BY <1>1, <1>2, <1>3, UnreadAssumption

\* At first nothing is lost.
LEMMA NothingLost == ASSUME NEW p \in Payloads PROVE Lost(p, p)
<1>1. ASSUME NEW i \in DOMAIN p.entries PROVE EntryLost(p.entries[i], p.entries[i])
  <2>1. PICK e : e = p.entries[i]
    OBVIOUS
  <2>2. ASSUME NEW j \in DOMAIN e.changes PROVE ChangeLost(e.changes[j], e.changes[j])
    <3>1. e.changes[j] \in SeenChange
      BY <2>1, ChangeShape
    <3> QED
      BY <3>1 DEF ChangeLost
  <2>3. e.changes = [j \in DOMAIN e.changes |-> e.changes[j]]
    BY <2>1, EntryShape
  <2>4. ListLost(e.changes, e.changes)
    BY <2>2, <2>3 DEF ListLost
  <2> QED
    BY <2>1, <2>4, EntryShape DEF EntryLost
<1>2. p.entries = [i \in DOMAIN p.entries |-> p.entries[i]]
  BY PayloadShape
<1>3. EntriesLost(p.entries, p.entries)
  BY <1>1, <1>2 DEF EntriesLost
<1> QED
  BY <1>3, PayloadShape DEF Lost

\* An entry of what is left is replaced by what is left of that.
LEMMA EntryGoes ==
    ASSUME NEW p, NEW q, Lost(p, q), q.entries # Unread, NEW i \in DOMAIN q.entries,
           NEW f, EntryLost(p.entries[i], f),
           NEW r, r = [q EXCEPT !.entries[i] = f]
    PROVE  Lost(p, r) /\ (q = p /\ OneOfEntry(p.entries[i], f) => OneLost(p, r))
<1>1. /\ q.entries = [k \in DOMAIN p.entries |-> q.entries[k]]
      /\ \A k \in DOMAIN p.entries : EntryLost(p.entries[k], q.entries[k])
  BY DEF Lost, EntriesLost
<1>2. i \in DOMAIN p.entries
  BY <1>1
<1>3. PICK k : k = [q.entries EXCEPT ![i] = f]
  OBVIOUS
<1>4. k[i] = f /\ \A j \in DOMAIN p.entries : j # i => k[j] = q.entries[j]
  BY <1>1, <1>2, <1>3
<1>5. k = [j \in DOMAIN p.entries |-> k[j]]
  BY <1>1, <1>3
<1>6. \A j \in DOMAIN p.entries : EntryLost(p.entries[j], k[j])
  BY <1>1, <1>4
<1>7. EntriesLost(p.entries, k)
  BY <1>5, <1>6 DEF EntriesLost
<1>8. q = [feePayer |-> q.feePayer, fee |-> q.fee, header |-> q.header, entries |-> q.entries]
  BY DEF Lost
<1>9. r = [feePayer |-> q.feePayer, fee |-> q.fee, header |-> q.header, entries |-> k]
  BY <1>3, <1>8
<1>10. Lost(p, r)
  BY <1>7, <1>9 DEF Lost
<1>11. ASSUME q = p, OneOfEntry(p.entries[i], f) PROVE OneLost(p, r)
  BY <1>2, <1>4, <1>9, <1>11 DEF OneLost
<1> QED
  BY <1>10, <1>11
\* The entry that a loss is in, and what of it is left.
LEMMA SeenEntryIs ==
    ASSUME NEW p, NEW q, Lost(p, q), q.entries # Unread, NEW i \in ReadableAmount(q),
           NEW e, e = p.entries[i], NEW f, f = q.entries[i]
    PROVE  /\ i \in DOMAIN p.entries /\ i \in DOMAIN q.entries /\ f # Unread
           /\ f = [account |-> f.account, native |-> f.native, changes |-> f.changes]
           /\ f.account \in {e.account, Unread} /\ f.native \in {e.native, Unread}
           /\ ListLost(e.changes, f.changes)
<1>1. q.entries = [k \in DOMAIN p.entries |-> q.entries[k]]
  BY DEF Lost, EntriesLost
<1>2. i \in DOMAIN q.entries /\ f # Unread
  BY DEF ReadableAmount
<1>3. i \in DOMAIN p.entries
  BY <1>1, <1>2
<1>4. EntryLost(e, f)
  BY <1>3 DEF Lost, EntriesLost
<1> QED
  BY <1>2, <1>3, <1>4 DEF EntryLost

\* Whatever was lost of it, the payload is as before but for that.
LEMMA GoesOn ==
    ASSUME PayloadOK, NEW r, HideSome(r), Lost(truth, r), seen = truth => OneLost(truth, r)
    PROVE  PayloadOK'
<1>1. hidden' = hidden + 1 /\ seen' = r /\ UNCHANGED <<truth, minuteRate>> /\ hidden \in Nat
  BY DEF HideSome, PayloadOK
<1>2. hidden' \in Nat /\ hidden' # 0
  BY <1>1
<1>3. hidden' <= 1 => seen = truth
  BY <1>1 DEF PayloadOK
<1>4. Lost(truth', seen')
  BY <1>1
<1>5. hidden' <= 1 => OneLost(truth', seen')
  BY <1>1, <1>3
<1> QED
  BY <1>1, <1>2, <1>4, <1>5 DEF PayloadOK

LEMMA HideHeaderOK == ASSUME PayloadOK, HideHeader PROVE PayloadOK'
<1>1. PICK f \in {"feePayer", "fee", "header", "entries"} : HideSome([seen EXCEPT ![f] = Unread])
  BY DEF HideHeader
<1>2. Lost(truth, seen)
  BY DEF PayloadOK
<1>3. PICK r : r = [seen EXCEPT ![f] = Unread]
  OBVIOUS
<1>4. seen = [feePayer |-> seen.feePayer, fee |-> seen.fee, header |-> seen.header, entries |-> seen.entries]
  BY <1>2 DEF Lost
<1>5. /\ r = [feePayer |-> r.feePayer, fee |-> r.fee, header |-> r.header, entries |-> r.entries]
      /\ r.feePayer \in {seen.feePayer, Unread} /\ r.fee \in {seen.fee, Unread}
      /\ r.header \in {seen.header, Unread} /\ r.entries \in {seen.entries, Unread}
  <2>1. CASE f = "feePayer"
    BY <1>3, <1>4, <2>1
  <2>2. CASE f = "fee"
    BY <1>3, <1>4, <2>2
  <2>3. CASE f = "header"
    BY <1>3, <1>4, <2>3
  <2>4. CASE f = "entries"
    BY <1>3, <1>4, <2>4
  <2> QED
    BY <1>1, <2>1, <2>2, <2>3, <2>4
<1>6. EntriesLost(truth.entries, r.entries)
  BY <1>2, <1>5 DEF Lost, EntriesLost
<1>7. Lost(truth, r)
  BY <1>2, <1>5, <1>6 DEF Lost
<1>8. seen = truth => OneLost(truth, r)
  BY <1>5 DEF OneLost
<1> QED
  BY <1>1, <1>3, <1>7, <1>8, GoesOn

LEMMA HideEntryOK == ASSUME PayloadOK, HideEntry PROVE PayloadOK'
<1>1. Lost(truth, seen) /\ seen.entries # Unread
  BY DEF PayloadOK, HideEntry
<1>2. PICK i \in ReadableAmount(seen) :
         \/ HideSome([seen EXCEPT !.entries[i] = Unread])
         \/ \E f \in {"account", "changes"} : HideSome([seen EXCEPT !.entries[i][f] = Unread])
  BY DEF HideEntry
<1>3. PICK e, f : e = truth.entries[i] /\ f = seen.entries[i]
  OBVIOUS
<1>4. /\ i \in DOMAIN truth.entries /\ i \in DOMAIN seen.entries
      /\ f = [account |-> f.account, native |-> f.native, changes |-> f.changes]
      /\ f.account \in {e.account, Unread} /\ f.native \in {e.native, Unread}
      /\ ListLost(e.changes, f.changes)
  BY <1>1, <1>3, SeenEntryIs
<1>5. ASSUME NEW g, EntryLost(e, g), seen = truth => OneOfEntry(e, g),
             NEW r, r = [seen EXCEPT !.entries[i] = g], HideSome(r)
      PROVE  PayloadOK'
  <2>1. Lost(truth, r) /\ (seen = truth => OneLost(truth, r))
    BY <1>1, <1>3, <1>4, <1>5, EntryGoes
  <2> QED
    BY <1>5, <2>1, GoesOn
<1>6. CASE HideSome([seen EXCEPT !.entries[i] = Unread])
  <2>1. EntryLost(e, Unread) /\ OneOfEntry(e, Unread)
    BY DEF EntryLost, OneOfEntry
  <2> QED
    BY <1>5, <1>6, <2>1
<1>7. ASSUME NEW n \in {"account", "changes"}, HideSome([seen EXCEPT !.entries[i][n] = Unread])
      PROVE  PayloadOK'
  <2>1. PICK g : g = [f EXCEPT ![n] = Unread]
    OBVIOUS
  <2>2. [seen EXCEPT !.entries[i][n] = Unread] = [seen EXCEPT !.entries[i] = g]
    BY <1>3, <2>1
  <2>3. g = [account |-> g.account, native |-> g.native, changes |-> g.changes] /\ g.native = f.native
        /\ ((g.account = f.account /\ g.changes = Unread) \/ (g.account = Unread /\ g.changes = f.changes))
    BY <1>4, <1>7, <2>1
  <2>4. EntryLost(e, g)
    BY <1>4, <2>3 DEF EntryLost, ListLost
  <2>5. seen = truth => OneOfEntry(e, g)
    BY <1>3, <2>3 DEF OneOfEntry
  <2> QED
    BY <1>5, <1>7, <2>2, <2>4, <2>5
<1> QED
  BY <1>2, <1>6, <1>7

LEMMA HideNativeOK == ASSUME PayloadOK, HideNative PROVE PayloadOK'
<1>1. Lost(truth, seen) /\ seen.entries # Unread
  BY DEF PayloadOK, HideNative
<1>2. PICK i \in ReadableAmount(seen) : HideSome([seen EXCEPT !.entries[i].native = Unread])
  BY DEF HideNative
<1>3. PICK e, f : e = truth.entries[i] /\ f = seen.entries[i]
  OBVIOUS
<1>4. /\ i \in DOMAIN truth.entries /\ i \in DOMAIN seen.entries
      /\ f = [account |-> f.account, native |-> f.native, changes |-> f.changes]
      /\ f.account \in {e.account, Unread} /\ f.native \in {e.native, Unread}
      /\ ListLost(e.changes, f.changes)
  BY <1>1, <1>3, SeenEntryIs
<1>5. PICK g : g = [f EXCEPT !.native = Unread]
  OBVIOUS
<1>6. PICK r : r = [seen EXCEPT !.entries[i].native = Unread]
  OBVIOUS
<1>7. r = [seen EXCEPT !.entries[i] = g]
  BY <1>3, <1>5, <1>6
<1>8. g = [account |-> g.account, native |-> g.native, changes |-> g.changes] /\ g.native = Unread
      /\ g.account = f.account /\ g.changes = f.changes
  BY <1>4, <1>5
<1>9. EntryLost(e, g)
  BY <1>4, <1>8 DEF EntryLost
<1>10. seen = truth => OneOfEntry(e, g)
  BY <1>3, <1>8 DEF OneOfEntry
<1>11. Lost(truth, r) /\ (seen = truth => OneLost(truth, r))
  BY <1>1, <1>3, <1>4, <1>7, <1>9, <1>10, EntryGoes
<1> QED
  BY <1>2, <1>6, <1>11, GoesOn

LEMMA HideChangeOK == ASSUME PayloadOK, HideChange PROVE PayloadOK'
<1>1. Lost(truth, seen) /\ seen.entries # Unread
  BY DEF PayloadOK, HideChange
<1>0. PICK i \in ReadableAmount(seen) : \E j \in ChangesOf(seen.entries[i]) :
         \/ HideSome([seen EXCEPT !.entries[i].changes[j] = Unread])
         \/ \E n \in {"owner", "mint", "raw", "dec"} :
               HideSome([seen EXCEPT !.entries[i].changes[j][n] = Unread])
  BY DEF HideChange
<1>2. PICK j \in ChangesOf(seen.entries[i]) :
         \/ HideSome([seen EXCEPT !.entries[i].changes[j] = Unread])
         \/ \E n \in {"owner", "mint", "raw", "dec"} :
               HideSome([seen EXCEPT !.entries[i].changes[j][n] = Unread])
  BY <1>0
<1>3. PICK e, f : e = truth.entries[i] /\ f = seen.entries[i]
  OBVIOUS
<1>4. /\ i \in DOMAIN truth.entries /\ i \in DOMAIN seen.entries
      /\ f = [account |-> f.account, native |-> f.native, changes |-> f.changes]
      /\ f.account \in {e.account, Unread} /\ f.native \in {e.native, Unread}
      /\ ListLost(e.changes, f.changes)
  BY <1>1, <1>3, SeenEntryIs
<1>5. f.changes # Unread /\ j \in DOMAIN f.changes /\ f.changes[j] # Unread
  BY <1>3, <1>2 DEF ChangesOf
<1>6. /\ f.changes = [k \in DOMAIN e.changes |-> f.changes[k]]
      /\ \A k \in DOMAIN e.changes : ChangeLost(e.changes[k], f.changes[k])
  BY <1>4, <1>5 DEF ListLost
<1>7. j \in DOMAIN e.changes
  BY <1>5, <1>6
<1>8. ASSUME NEW d, ChangeLost(e.changes[j], d), NEW r, r = [seen EXCEPT !.entries[i].changes[j] = d], HideSome(r)
      PROVE  PayloadOK'
  <2>1. PICK l : l = [f.changes EXCEPT ![j] = d]
    OBVIOUS
  <2>2. PICK g : g = [f EXCEPT !.changes = l]
    OBVIOUS
  <2>3. r = [seen EXCEPT !.entries[i] = g]
    BY <1>3, <1>8, <2>1, <2>2
  <2>4. g = [account |-> g.account, native |-> g.native, changes |-> g.changes]
        /\ g.native = f.native /\ g.account = f.account /\ g.changes = l
    BY <1>4, <2>2
  <2>5. l = [k \in DOMAIN e.changes |-> l[k]] /\ l[j] = d
        /\ \A k \in DOMAIN e.changes : k # j => l[k] = f.changes[k]
    BY <1>6, <1>7, <2>1
  <2>6. ListLost(e.changes, l)
    BY <1>6, <1>8, <2>5 DEF ListLost
  <2>7. EntryLost(e, g)
    BY <1>4, <2>4, <2>6 DEF EntryLost
  <2>8. seen = truth => OneOfEntry(e, g)
    BY <1>3, <2>4 DEF OneOfEntry
  <2>9. Lost(truth, r) /\ (seen = truth => OneLost(truth, r))
    BY <1>1, <1>3, <1>4, <2>3, <2>7, <2>8, EntryGoes
  <2> QED
    BY <1>8, <2>9, GoesOn
<1>9. CASE HideSome([seen EXCEPT !.entries[i].changes[j] = Unread])
  <2>1. ChangeLost(e.changes[j], Unread)
    BY DEF ChangeLost
  <2> QED
    BY <1>8, <1>9, <2>1
<1>10. ASSUME NEW n \in {"owner", "mint", "raw", "dec"}, HideSome([seen EXCEPT !.entries[i].changes[j][n] = Unread])
      PROVE  PayloadOK'
  <2>1. PICK c : c = f.changes[j]
    OBVIOUS
  <2>2. PICK d : d = [c EXCEPT ![n] = Unread]
    OBVIOUS
  <2>3. c \in SeenChange /\ c.owner \in {e.changes[j].owner, Unread} /\ c.mint \in {e.changes[j].mint, Unread}
        /\ c.raw \in {e.changes[j].raw, Unread} /\ c.dec \in {e.changes[j].dec, Unread}
    BY <1>5, <1>6, <1>7, <2>1 DEF ChangeLost
  <2>4. d \in SeenChange /\ d.owner \in {c.owner, Unread} /\ d.mint \in {c.mint, Unread}
        /\ d.raw \in {c.raw, Unread} /\ d.dec \in {c.dec, Unread}
    <3>1. CASE n = "owner"
      BY <2>2, <2>3, <3>1 DEF SeenChange
    <3>2. CASE n = "mint"
      BY <2>2, <2>3, <3>2 DEF SeenChange
    <3>3. CASE n = "raw"
      BY <2>2, <2>3, <3>3 DEF SeenChange
    <3>4. CASE n = "dec"
      BY <2>2, <2>3, <3>4 DEF SeenChange
    <3> QED
      BY <1>10, <3>1, <3>2, <3>3, <3>4
  <2>5. ChangeLost(e.changes[j], d)
    BY <2>3, <2>4 DEF ChangeLost
  <2>6. [seen EXCEPT !.entries[i].changes[j][n] = Unread] = [seen EXCEPT !.entries[i].changes[j] = d]
    BY <1>3, <2>1, <2>2
  <2> QED
    BY <1>8, <1>10, <2>5, <2>6
<1> QED
  BY <1>2, <1>9, <1>10

LEMMA PayloadAlways == ClassifierSpec => []PayloadOK
<1>1. ClassifierInit => PayloadOK
  <2> SUFFICES ASSUME ClassifierInit PROVE PayloadOK
    OBVIOUS
  <2>1. truth \in Payloads /\ seen = truth /\ hidden = 0 /\ minuteRate \in SolUsd
    BY DEF ClassifierInit
  <2>2. Lost(truth, seen)
    BY <2>1, NothingLost
  <2>3. OneLost(truth, seen)
    BY <2>1 DEF OneLost
  <2> QED
    BY <2>1, <2>2, <2>3 DEF PayloadOK
<1>2. PayloadOK /\ [ClassifierNext]_classifierVars => PayloadOK'
  <2> SUFFICES ASSUME PayloadOK, [ClassifierNext]_classifierVars PROVE PayloadOK'
    OBVIOUS
  <2>1. CASE UNCHANGED classifierVars
    BY <2>1 DEF classifierVars, PayloadOK
  <2>2. CASE ClassifierNext
    BY <2>2, HideHeaderOK, HideEntryOK, HideNativeOK, HideChangeOK DEF ClassifierNext
  <2> QED
    BY <2>1, <2>2
<1> QED
  BY <1>1, <1>2, PTL DEF ClassifierSpec
-----------------------------------------------------------------------------
(* What of a payload is ours, before and after parts of it are lost.       *)

LEMMA OwnChangesAre ==
    ASSUME NEW p
    PROVE  \A x : x \in OwnChanges(p) <=>
              \E i \in ReadableAmount(p) : \E j \in ChangesOf(p.entries[i]) :
                 p.entries[i].changes[j].owner = Us /\ x = <<i, j>>
BY DEF OwnChanges

LEMMA AllReadable ==
    ASSUME NEW p \in Payloads
    PROVE  /\ p.entries # Unread /\ ReadableAmount(p) = DOMAIN p.entries
           /\ \A i \in DOMAIN p.entries : ChangesOf(p.entries[i]) = DOMAIN p.entries[i].changes
<1>1. p.entries # Unread
  BY PayloadShape
<1>2. ReadableAmount(p) = DOMAIN p.entries
  <2>1. \A i \in DOMAIN p.entries : p.entries[i] # Unread
    BY EntryShape
  <2> QED
    BY <2>1 DEF ReadableAmount
<1>3. ASSUME NEW i \in DOMAIN p.entries PROVE ChangesOf(p.entries[i]) = DOMAIN p.entries[i].changes
  <2>1. p.entries[i].changes # Unread
    BY EntryShape
  <2>2. \A j \in DOMAIN p.entries[i].changes : p.entries[i].changes[j] # Unread
    BY ChangeShape
  <2> QED
    BY <2>1, <2>2 DEF ChangesOf
<1> QED
  BY <1>1, <1>2, <1>3

LEMMA OwnIsFinite ==
    ASSUME NEW p \in Payloads
    PROVE  IsFiniteSet(DOMAIN p.entries) /\ IsFiniteSet(OwnChanges(p))
<1> DEFINE D == DOMAIN p.entries
<1>1. p.entries \in Seq(AccountEntry)
  BY PayloadShape
<1>2. IsFiniteSet(D)
  <2>1. D = 1 .. Len(p.entries) /\ Len(p.entries) \in Nat
    BY <1>1
  <2> QED
    BY <2>1, FS_Interval
<1>3. PICK f : f = [i \in D |-> {i} \X DOMAIN p.entries[i].changes]
  OBVIOUS
<1>4. PICK T : T = {f[i] : i \in D}
  OBVIOUS
<1>5. f \in Surjection(D, T)
  BY <1>3, <1>4 DEF Surjection
<1>6. IsFiniteSet(T)
  BY <1>2, <1>5, FS_Surjection
<1>7. ASSUME NEW t \in T PROVE IsFiniteSet(t)
  <2>1. PICK i \in D : t = {i} \X DOMAIN p.entries[i].changes
    BY <1>3, <1>4
  <2>2. p.entries[i].changes \in Seq(TokenChange)
    BY <2>1, EntryShape
  <2>3. PICK n \in Nat : DOMAIN p.entries[i].changes = 1 .. n
    BY <2>2
  <2>4. IsFiniteSet(1 .. n)
    BY FS_Interval
  <2>5. IsFiniteSet({i})
    BY FS_Singleton
  <2> QED
    BY <2>1, <2>3, <2>4, <2>5, FS_Product
<1>8. IsFiniteSet(UNION T)
  BY <1>6, <1>7, FS_UNION
<1>9. OwnChanges(p) \in SUBSET (UNION T)
  <2> SUFFICES ASSUME NEW x \in OwnChanges(p) PROVE x \in UNION T
    OBVIOUS
  <2>1. PICK i, j : i \in ReadableAmount(p) /\ j \in ChangesOf(p.entries[i]) /\ x = <<i, j>>
    BY OwnChangesAre
  <2>2. i \in D /\ j \in DOMAIN p.entries[i].changes
    BY <2>1, AllReadable
  <2>3. x \in f[i] /\ f[i] \in T
    BY <1>3, <1>4, <2>1, <2>2
  <2> QED
    BY <2>3
<1>10. IsFiniteSet(OwnChanges(p))
  BY <1>8, <1>9, FS_Subset
<1> QED
  BY <1>2, <1>10

\* One of our changes: what it says.
LEMMA OwnChangeIs ==
    ASSUME NEW p \in Payloads, NEW x \in OwnChanges(p)
    PROVE  /\ x[1] \in DOMAIN p.entries /\ x[2] \in DOMAIN p.entries[x[1]].changes
           /\ At(p, x).owner = Us /\ At(p, x).mint \in SomeMint /\ At(p, x).raw \in Int /\ At(p, x).dec \in Nat
<1>1. PICK i, j : /\ i \in ReadableAmount(p) /\ j \in ChangesOf(p.entries[i])
                  /\ x = <<i, j>> /\ p.entries[i].changes[j].owner = Us
  BY OwnChangesAre
<1>2. i \in DOMAIN p.entries /\ j \in DOMAIN p.entries[i].changes
  BY <1>1, AllReadable
<1>3. At(p, x) = p.entries[i].changes[j] /\ x[1] = i /\ x[2] = j
  BY <1>1 DEF At
<1> QED
  BY <1>1, <1>2, <1>3, ChangeShape

\* What the parser has to have read before it looks at any leg.
Read(q) == q.entries # Unread /\ ~ChangesMalformed(q) /\ ~Unattributable(q)

\* Of what is left, every entry, and every change but for its owner.
LEMMA ReadIs ==
    ASSUME NEW p \in Payloads, NEW q, Lost(p, q), q.entries # Unread, ~Unattributable(q)
    PROVE  /\ DOMAIN q.entries = DOMAIN p.entries /\ ReadableAmount(q) = DOMAIN p.entries
           /\ \A i \in DOMAIN p.entries :
                 /\ DOMAIN q.entries[i].changes = DOMAIN p.entries[i].changes
                 /\ ChangesOf(q.entries[i]) = DOMAIN p.entries[i].changes
                 /\ q.entries[i].account \in {p.entries[i].account, Unread}
                 /\ q.entries[i].native \in {p.entries[i].native, Unread}
                 /\ \A j \in DOMAIN p.entries[i].changes :
                       LET c == p.entries[i].changes[j]
                           d == q.entries[i].changes[j]
                       IN  /\ d.owner \in {c.owner, Unread} /\ (d.owner = Unread => d.raw = 0)
                           /\ d.mint \in {c.mint, Unread} /\ d.raw \in {c.raw, Unread} /\ d.dec \in {c.dec, Unread}
<1>1. q.entries = [i \in DOMAIN p.entries |-> q.entries[i]]
      /\ \A i \in DOMAIN p.entries : EntryLost(p.entries[i], q.entries[i])
  BY DEF Lost, EntriesLost
<1>2. DOMAIN q.entries = DOMAIN p.entries
  BY <1>1
<1>3. \A i \in DOMAIN p.entries : ~MayHide(q.entries[i])
  BY <1>2 DEF Unattributable
<1>4. ReadableAmount(q) = DOMAIN p.entries
  BY <1>2, <1>3 DEF ReadableAmount, MayHide
<1>5. ASSUME NEW i \in DOMAIN p.entries
      PROVE  /\ DOMAIN q.entries[i].changes = DOMAIN p.entries[i].changes
             /\ ChangesOf(q.entries[i]) = DOMAIN p.entries[i].changes
             /\ q.entries[i].account \in {p.entries[i].account, Unread}
             /\ q.entries[i].native \in {p.entries[i].native, Unread}
  <2>1. ~MayHide(q.entries[i]) /\ EntryLost(p.entries[i], q.entries[i])
    BY <1>1, <1>3
  <2>2. ListLost(p.entries[i].changes, q.entries[i].changes) /\ q.entries[i].changes # Unread
    BY <2>1 DEF EntryLost, MayHide
  <2>3. DOMAIN q.entries[i].changes = DOMAIN p.entries[i].changes
    BY <2>2 DEF ListLost
  <2>4. ChangesOf(q.entries[i]) = DOMAIN p.entries[i].changes
    BY <2>1, <2>2, <2>3 DEF ChangesOf, MayHide
  <2> QED
    BY <2>1, <2>3, <2>4 DEF EntryLost, MayHide
<1>6. ASSUME NEW i \in DOMAIN p.entries, NEW j \in DOMAIN p.entries[i].changes,
             NEW c, c = p.entries[i].changes[j], NEW d, d = q.entries[i].changes[j]
      PROVE  /\ d.owner \in {c.owner, Unread} /\ (d.owner = Unread => d.raw = 0)
             /\ d.mint \in {c.mint, Unread} /\ d.raw \in {c.raw, Unread} /\ d.dec \in {c.dec, Unread}
  <2>1. ~MayHide(q.entries[i]) /\ EntryLost(p.entries[i], q.entries[i])
    BY <1>1, <1>3
  <2>2. ListLost(p.entries[i].changes, q.entries[i].changes) /\ q.entries[i].changes # Unread
    BY <2>1 DEF EntryLost, MayHide
  <2>3. ChangeLost(c, d) /\ j \in DOMAIN q.entries[i].changes
    BY <1>6, <2>2 DEF ListLost
  <2>4. d # Unread /\ (d.owner = Unread => d.raw = 0)
    BY <1>6, <2>1, <2>3 DEF MayHide
  <2> QED
    BY <2>3, <2>4 DEF ChangeLost
<1> QED
  BY <1>2, <1>4, <1>5, <1>6
\* Of our changes those are lost that moved nothing.
OwnAreKept(p, q) ==
    /\ OwnChanges(q) \in SUBSET OwnChanges(p)
    /\ \A x \in OwnChanges(q) :
          At(q, x).mint = At(p, x).mint /\ At(q, x).raw = At(p, x).raw /\ At(q, x).dec = At(p, x).dec
    /\ \A x \in OwnChanges(p) \ OwnChanges(q) : At(p, x).raw = 0

LEMMA OwnKept ==
    ASSUME NEW p \in Payloads, NEW q, Lost(p, q), Read(q)
    PROVE  OwnAreKept(p, q)
<1>1. q.entries # Unread /\ ~Unattributable(q)
  BY DEF Read
<1>2. ASSUME NEW x \in OwnChanges(q)
      PROVE  /\ x \in OwnChanges(p)
             /\ At(q, x).mint = At(p, x).mint /\ At(q, x).raw = At(p, x).raw /\ At(q, x).dec = At(p, x).dec
  <2>1. PICK i, j : /\ i \in ReadableAmount(q) /\ j \in ChangesOf(q.entries[i])
                    /\ x = <<i, j>> /\ q.entries[i].changes[j].owner = Us
    BY OwnChangesAre
  <2>2. i \in DOMAIN p.entries /\ j \in DOMAIN p.entries[i].changes
    BY <1>1, <2>1, ReadIs
  <2>3. PICK c, d : c = p.entries[i].changes[j] /\ d = q.entries[i].changes[j]
    OBVIOUS
  <2>4. /\ d.owner \in {c.owner, Unread}
        /\ d.mint \in {c.mint, Unread} /\ d.raw \in {c.raw, Unread} /\ d.dec \in {c.dec, Unread}
    BY <1>1, <2>2, <2>3, ReadIs
  <2>5. At(p, x) = c /\ At(q, x) = d
    BY <2>1, <2>3 DEF At
  <2>6. Unread \notin {d.mint, d.raw, d.dec}
    BY <2>5 DEF Read, ChangesMalformed
  <2>7. Us # Unread
    BY UnreadAssumption DEF Accounts
  <2>8. c.owner = Us
    BY <2>1, <2>3, <2>4, <2>7
  <2>9. x \in OwnChanges(p)
    BY <2>1, <2>2, <2>3, <2>8, AllReadable, OwnChangesAre
  <2> QED
    BY <2>4, <2>5, <2>6, <2>9
<1>3. ASSUME NEW x \in OwnChanges(p), x \notin OwnChanges(q) PROVE At(p, x).raw = 0
  <2>1. PICK i, j : /\ i \in ReadableAmount(p) /\ j \in ChangesOf(p.entries[i])
                    /\ x = <<i, j>> /\ p.entries[i].changes[j].owner = Us
    BY OwnChangesAre
  <2>2. i \in DOMAIN p.entries /\ j \in DOMAIN p.entries[i].changes
    BY <2>1, AllReadable
  <2>3. PICK c, d : c = p.entries[i].changes[j] /\ d = q.entries[i].changes[j]
    OBVIOUS
  <2>4. d.owner \in {c.owner, Unread} /\ (d.owner = Unread => d.raw = 0) /\ d.raw \in {c.raw, Unread}
    BY <1>1, <2>2, <2>3, ReadIs
  <2>5. i \in ReadableAmount(q) /\ j \in ChangesOf(q.entries[i])
    BY <1>1, <2>2, ReadIs
  <2>6. d.owner # Us
    BY <1>3, <2>1, <2>3, <2>5, OwnChangesAre
  <2>7. d.raw = 0
    BY <2>1, <2>3, <2>4, <2>6
  <2>8. Unread # 0
    BY UnreadAssumption
  <2>9. c.raw = 0
    BY <2>4, <2>7, <2>8
  <2> QED
    BY <2>1, <2>3, <2>9 DEF At
<1> QED
  BY <1>2, <1>3 DEF OwnAreKept

\* A mint's changes of ours, and what they give when some that moved nothing are left out.
LEMMA InMintIs ==
    ASSUME NEW p \in Payloads, NEW m
    PROVE  /\ IsFiniteSet(InMint(p, m)) /\ InMint(p, m) \in SUBSET OwnChanges(p)
           /\ \A x \in InMint(p, m) : At(p, x).raw \in Int /\ At(p, x).dec \in Nat
<1>1. InMint(p, m) \in SUBSET OwnChanges(p)
  BY DEF InMint
<1> QED
  BY <1>1, OwnIsFinite, OwnChangeIs, FS_Subset

LEMMA MintKept ==
    ASSUME NEW p \in Payloads, NEW q, OwnAreKept(p, q), NEW m
    PROVE  /\ InMint(q, m) \in SUBSET InMint(p, m)
           /\ \A x \in InMint(q, m) : At(q, x).raw = At(p, x).raw /\ At(q, x).dec = At(p, x).dec
           /\ \A x \in InMint(p, m) \ InMint(q, m) : At(p, x).raw = 0
  BY DEF InMint, OwnAreKept

ScaleIs(p, m) == Scale(p, m) \in Nat /\ \A x \in InMint(p, m) : At(p, x).dec <= Scale(p, m)

\* The finest scale is one of the scales.
LEMMA ScaleOf ==
    ASSUME NEW p, NEW m, NEW S, S = InMint(p, m), S # {}, IsFiniteSet(S), \A x \in S : At(p, x).dec \in Nat
    PROVE  ScaleIs(p, m) /\ \E x \in S : At(p, x).dec = Scale(p, m)
<1>1. PICK T : T = {At(p, x).dec : x \in S}
  OBVIOUS
<1>2. PICK f : f = [x \in S |-> At(p, x).dec]
  OBVIOUS
<1>3. f \in Surjection(S, T)
  BY <1>1, <1>2 DEF Surjection
<1>4. IsFiniteSet(T) /\ T \subseteq Int /\ T # {}
  BY <1>1, <1>3, FS_Surjection
<1>5. PICK n \in T : \A y \in T : n >= y
  <2>1. \E n \in T : \A y \in T : y <= n
    BY <1>4, Greatest
  <2> QED
    BY <1>4, <2>1
<1>6. Max(T) \in T /\ \A y \in T : Max(T) >= y
  BY <1>5 DEF Max
<1>7. Scale(p, m) = Max(T)
  BY <1>1 DEF Scale
<1> QED
  BY <1>1, <1>4, <1>6, <1>7 DEF ScaleIs
-----------------------------------------------------------------------------
(* The token side: legs and dust do not depend on what is lost.            *)

LEMMA Cancel ==
    ASSUME NEW k \in Nat \ {0}, NEW a \in Int, NEW b \in Int
    PROVE  (k * a <= k * b <=> a <= b) /\ (k * a = 0 <=> a = 0) /\ (k * a > 0 <=> a > 0)
<1>1. a < b => k * a < k * b
  <2>1. \A x \in Nat \ {0} : k * x > 0
    OBVIOUS
  <2>2. a < b => b - a \in Nat \ {0}
    OBVIOUS
  <2>3. k * (b - a) = k * b - k * a
    OBVIOUS
  <2>4. k * a \in Int /\ k * b \in Int
    OBVIOUS
  <2> QED
    BY <2>1, <2>2, <2>3, <2>4
<1>2. b < a => k * b < k * a
  <2>1. \A x \in Nat \ {0} : k * x > 0
    OBVIOUS
  <2>2. b < a => a - b \in Nat \ {0}
    OBVIOUS
  <2>3. k * (a - b) = k * a - k * b
    OBVIOUS
  <2>4. k * a \in Int /\ k * b \in Int
    OBVIOUS
  <2> QED
    BY <2>1, <2>2, <2>3, <2>4
<1>3. k * a <= k * b <=> a <= b
  <2>1. k * a \in Int /\ k * b \in Int
    OBVIOUS
  <2>2. a = b => k * a = k * b
    OBVIOUS
  <2> QED
    BY <1>1, <1>2, <2>1, <2>2
<1>4. (k * a = 0 <=> a = 0) /\ (k * a > 0 <=> a > 0)
  <2>1. \A x \in Nat \ {0} : k * x > 0
    OBVIOUS
  <2>2. a < 0 => -a \in Nat \ {0}
    OBVIOUS
  <2>3. k * (-a) = -(k * a) /\ k * a \in Int /\ k * 0 = 0
    OBVIOUS
  <2> QED
    BY <2>1, <2>2, <2>3
<1> QED
  BY <1>3, <1>4

LEMMA AbsScaled ==
    ASSUME NEW k \in Nat \ {0}, NEW a \in Int
    PROVE  Abs(k * a) = k * Abs(a) /\ Abs(a) \in Nat
<1>1. k * a \in Int /\ k * (-a) = -(k * a)
  OBVIOUS
<1>2. k * a > 0 <=> a > 0
  BY Cancel
<1>3. k * a = 0 <=> a = 0
  BY Cancel
<1> QED
  BY <1>1, <1>2, <1>3 DEF Abs

\* Without a change that moved, nothing moved.
LEMMA NoLeg ==
    ASSUME NEW p \in Payloads, NEW m, \A x \in InMint(p, m) : At(p, x).raw = 0
    PROVE  LegRaw(p, m) = 0
<1>1. PICK T : T = InMint(p, m)
  OBVIOUS
<1>2. IsFiniteSet(T) /\ \A x \in T : At(p, x).dec \in Nat
  BY <1>1, InMintIs
<1>3. PICK h : h = [x \in T |-> At(p, x).raw * PowerOfTen[Scale(p, m) - At(p, x).dec]]
  OBVIOUS
<1>4. ASSUME NEW x \in T PROVE h[x] = 0
  <2>1. ScaleIs(p, m)
    BY <1>1, <1>2, ScaleOf
  <2>2. Scale(p, m) - At(p, x).dec \in Nat
    BY <1>1, <1>2, <2>1 DEF ScaleIs
  <2>3. PowerOfTen[Scale(p, m) - At(p, x).dec] \in Nat
    BY <2>2, PowersArePositive
  <2>4. h[x] = 0 * PowerOfTen[Scale(p, m) - At(p, x).dec]
    BY <1>1, <1>3
  <2> QED
    BY <2>3, <2>4
<1>5. h \in [T -> Int]
  BY <1>3, <1>4
<1>6. SumOver(h) = 0
  BY <1>2, <1>4, <1>5, SumOfZeros
<1> QED
  BY <1>1, <1>3, <1>6 DEF LegRaw

\* How many times finer p states a mint than q does.
Finer(p, q, m) == PowerOfTen[Scale(p, m) - Scale(q, m)]

LEMMA LegKept ==
    ASSUME NEW p \in Payloads, NEW q, OwnAreKept(p, q), NEW m, InMint(q, m) # {}
    PROVE  /\ Scale(p, m) \in Nat /\ Scale(q, m) \in Nat /\ Scale(q, m) <= Scale(p, m)
           /\ Finer(p, q, m) \in Nat \ {0} /\ PowerOfTen[Scale(p, m)] = Finer(p, q, m) * PowerOfTen[Scale(q, m)]
           /\ LegRaw(q, m) \in Int /\ LegRaw(p, m) = Finer(p, q, m) * LegRaw(q, m)
<1>1. PICK S, T : S = InMint(q, m) /\ T = InMint(p, m)
  OBVIOUS
<1>2. /\ IsFiniteSet(T) /\ S \in SUBSET T /\ S # {}
      /\ \A x \in T : At(p, x).raw \in Int /\ At(p, x).dec \in Nat
      /\ \A x \in S : At(q, x).raw = At(p, x).raw /\ At(q, x).dec = At(p, x).dec
      /\ \A x \in T \ S : At(p, x).raw = 0
  BY <1>1, InMintIs, MintKept
<1>3. IsFiniteSet(S)
  BY <1>2, FS_Subset
<1>4. PICK s, t : s = Scale(q, m) /\ t = Scale(p, m)
  OBVIOUS
<1>5. t \in Nat /\ \A x \in T : At(p, x).dec <= t
  BY <1>1, <1>2, <1>4, ScaleOf DEF ScaleIs
<1>6. s \in Nat /\ (\A x \in S : At(q, x).dec <= s) /\ \E x \in S : At(q, x).dec = s
  BY <1>1, <1>2, <1>3, <1>4, ScaleOf DEF ScaleIs
<1>7. s <= t /\ t - s \in Nat
  BY <1>2, <1>5, <1>6
<1>8. PICK k : k = PowerOfTen[t - s]
  OBVIOUS
<1>9. k \in Nat \ {0}
  BY <1>7, <1>8, PowersArePositive
<1>10. PowerOfTen[t] = k * PowerOfTen[s]
  <2>1. PowerOfTen[(t - s) + s] = PowerOfTen[t - s] * PowerOfTen[s]
    BY <1>6, <1>7, PowersMultiply
  <2>2. (t - s) + s = t
    BY <1>5, <1>6
  <2> QED
    BY <1>8, <2>1, <2>2
<1>11. PICK g : g = [x \in S |-> At(q, x).raw * PowerOfTen[s - At(q, x).dec]]
  OBVIOUS
<1>12. PICK h : h = [x \in T |-> At(p, x).raw * PowerOfTen[t - At(p, x).dec]]
  OBVIOUS
<1>13. ASSUME NEW x \in S PROVE g[x] \in Int /\ h[x] = k * g[x]
  <2>1. PICK r, d : r = At(p, x).raw /\ d = At(p, x).dec
    OBVIOUS
  <2>2. r \in Int /\ d \in Nat /\ d <= s /\ s - d \in Nat /\ x \in T
    BY <1>2, <1>6, <2>1
  <2>3. g[x] = r * PowerOfTen[s - d] /\ h[x] = r * PowerOfTen[t - d]
    BY <1>2, <1>11, <1>12, <2>1, <2>2
  <2>4. PowerOfTen[(t - s) + (s - d)] = k * PowerOfTen[s - d]
    BY <1>7, <1>8, <2>2, PowersMultiply
  <2>5. (t - s) + (s - d) = t - d
    BY <1>5, <1>6, <2>2
  <2>6. PICK n : n = PowerOfTen[s - d]
    OBVIOUS
  <2>7. n \in Nat
    BY <2>2, <2>6, PowersArePositive
  <2>8. r * (k * n) = k * (r * n) /\ r * n \in Int
    BY <1>9, <2>2, <2>7
  <2> QED
    BY <2>3, <2>4, <2>5, <2>6, <2>8
<1>14. ASSUME NEW x \in T, x \notin S PROVE h[x] = 0
  <2>1. At(p, x).dec \in Nat /\ At(p, x).raw = 0 /\ t - At(p, x).dec \in Nat
    BY <1>2, <1>5, <1>14
  <2>2. PowerOfTen[t - At(p, x).dec] \in Nat
    BY <2>1, PowersArePositive
  <2>3. h[x] = 0 * PowerOfTen[t - At(p, x).dec]
    BY <1>12, <2>1
  <2> QED
    BY <2>2, <2>3
<1>15. g \in [S -> Int]
  BY <1>11, <1>13
<1>16. h \in [T -> Int]
  <2>1. \A x \in T : h[x] \in Int
    BY <1>9, <1>13, <1>14
  <2> QED
    BY <1>12, <2>1
<1>17. SumOver(g) \in Int /\ SumOver(h) = k * SumOver(g)
  <2>1. k \in Int /\ IsFiniteSet(T) /\ S \in SUBSET T
    BY <1>2, <1>9
  <2>2. (\A x \in S : h[x] = k * g[x]) /\ (\A x \in T \ S : h[x] = 0)
    BY <1>13, <1>14
  <2> QED
    BY <1>15, <1>16, <2>1, <2>2, SumScaled
<1>18. LegRaw(q, m) = SumOver(g) /\ LegRaw(p, m) = SumOver(h)
  BY <1>1, <1>4, <1>11, <1>12 DEF LegRaw
<1> QED
  BY <1>4, <1>5, <1>6, <1>7, <1>8, <1>9, <1>10, <1>17, <1>18 DEF Finer

LEMMA LegsKept ==
    ASSUME NEW p \in Payloads, NEW q, OwnAreKept(p, q)
    PROVE  /\ AllLegs(p) = AllLegs(q) /\ Legs(p) = Legs(q)
           /\ \A m \in AllLegs(q) : InMint(q, m) # {}
<1>1. \A m \in AllLegs(q) : InMint(q, m) # {}
  BY DEF AllLegs
<1>2. ASSUME NEW m \in SomeMint \ {"wsol"} PROVE m \in AllLegs(p) <=> m \in AllLegs(q)
  <2>1. CASE InMint(q, m) = {}
    <3>1. \A x \in InMint(p, m) : At(p, x).raw = 0
      BY <2>1, MintKept
    <3>2. LegRaw(p, m) = 0
      BY <3>1, NoLeg
    <3> QED
      BY <2>1, <3>2 DEF AllLegs
  <2>2. CASE InMint(q, m) # {}
    <3>1. PICK k, a, b : k = Finer(p, q, m) /\ a = LegRaw(q, m) /\ b = LegRaw(p, m)
      OBVIOUS
    <3>2. k \in Nat \ {0} /\ a \in Int /\ b = k * a
      BY <2>2, <3>1, LegKept
    <3>3. b = 0 <=> a = 0
      BY <3>2, Cancel
    <3>4. InMint(p, m) # {}
      BY <2>2, MintKept
    <3> QED
      BY <2>2, <3>1, <3>3, <3>4 DEF AllLegs
  <2> QED
    BY <2>1, <2>2
<1>3. AllLegs(p) = AllLegs(q)
  BY <1>2 DEF AllLegs
<1>4. ASSUME NEW m \in AllLegs(q) PROVE IsDust(p, m) <=> IsDust(q, m)
  <2>1. PICK k, a, b, s, t : /\ k = Finer(p, q, m) /\ a = LegRaw(q, m) /\ b = LegRaw(p, m)
                             /\ s = PowerOfTen[Scale(q, m)] /\ t = PowerOfTen[Scale(p, m)]
    OBVIOUS
  <2>2. k \in Nat \ {0} /\ a \in Int /\ b = k * a /\ t = k * s
    BY <1>1, <2>1, LegKept
  <2>3. s \in Nat
    BY <1>1, <2>1, LegKept, PowersArePositive
  <2>4. Abs(b) = k * Abs(a) /\ Abs(a) \in Nat
    BY <2>2, AbsScaled
  <2>5. DustDen \in Nat
    BY ClassifierAssumption
  <2>6. (k * Abs(a)) * DustDen = k * (Abs(a) * DustDen) /\ Abs(a) * DustDen \in Int
    BY <2>2, <2>4, <2>5
  <2>7. k * (Abs(a) * DustDen) <= k * s <=> Abs(a) * DustDen <= s
    BY <2>2, <2>3, <2>6, Cancel
  <2> QED
    BY <2>1, <2>2, <2>4, <2>6, <2>7 DEF IsDust
<1>5. Legs(p) = Legs(q)
  BY <1>3, <1>4 DEF Legs
<1> QED
  BY <1>1, <1>3, <1>5
-----------------------------------------------------------------------------
(* The SOL side.                                                           *)

LEMMA TruncatedIs ==
    ASSUME NEW a \in Int, NEW b \in Nat \ {0}
    PROVE  Truncated(a, b) \in Int
  BY DEF Truncated

\* A quotient does not change when both numbers are multiplied.
LEMMA TruncatedScaled ==
    ASSUME NEW k \in Nat \ {0}, NEW a \in Int, NEW b \in Nat \ {0}
    PROVE  Truncated(k * a, k * b) = Truncated(a, b)
<1>1. ASSUME NEW n \in Nat PROVE (k * n) \div (k * b) = n \div b
  <2>1. PICK d, r : d = n \div b /\ r = n % b
    OBVIOUS
  <2>2. d \in Nat /\ r \in Nat /\ r < b /\ n = b * d + r
    BY <2>1
  <2>3. k * n = (k * b) * d + k * r
    <3>1. k * (b * d + r) = (k * b) * d + k * r
      BY <2>2
    <3> QED
      BY <2>2, <3>1
  <2>4. k * r \in Nat /\ k * b \in Nat \ {0} /\ k * r < k * b
    <3>1. k * r <= k * b /\ ~(k * b <= k * r)
      BY <2>2, Cancel
    <3>2. k * r \in Nat /\ k * b \in Nat
      BY <2>2
    <3> QED
      BY <3>1, <3>2
  <2>5. PICK B, R, N : B = k * b /\ R = k * r /\ N = k * n
    OBVIOUS
  <2>6. N = B * d + R /\ B \in Nat \ {0} /\ R \in Nat /\ R < B
    BY <2>3, <2>4, <2>5
  <2>7. N \div B = d
    BY <2>2, <2>6
  <2> QED
    BY <2>1, <2>5, <2>7
<1>2. k * a \in Int /\ k * (-a) = -(k * a)
  OBVIOUS
<1>3. k * a < 0 <=> a < 0
  BY Cancel, <1>2
<1>4. CASE a < 0
  <2>1. -a \in Nat
    BY <1>4
  <2>2. (k * (-a)) \div (k * b) = (-a) \div b
    BY <1>1, <2>1
  <2> QED
    BY <1>2, <1>3, <1>4, <2>2 DEF Truncated
<1>5. CASE ~(a < 0)
  <2>1. a \in Nat
    BY <1>5
  <2> QED
    BY <1>1, <1>3, <1>5, <2>1 DEF Truncated
<1> QED
  BY <1>4, <1>5

LEMMA LamportsAre ==
    ASSUME NEW r \in Int, NEW d \in Nat
    PROVE  ToLamports(r, d) \in Int /\ (r = 0 => ToLamports(r, d) = 0)
<1>1. LamportDecimals \in Nat
  BY ClassifierAssumption
<1>2. CASE d <= LamportDecimals
  <2>1. LamportDecimals - d \in Nat
    BY <1>1, <1>2
  <2>2. PICK n \in Nat : n = PowerOfTen[LamportDecimals - d]
    BY <2>1, PowersArePositive
  <2>3. r * n \in Int /\ 0 * n = 0
    BY <2>2
  <2> QED
    BY <1>2, <2>2, <2>3 DEF ToLamports
<1>3. CASE ~(d <= LamportDecimals)
  <2>1. d - LamportDecimals \in Nat
    BY <1>1, <1>3
  <2>2. PICK n \in Nat \ {0} : n = PowerOfTen[d - LamportDecimals]
    BY <2>1, PowersArePositive
  <2>3. Truncated(r, n) \in Int /\ Truncated(0, n) = 0
    BY <2>2 DEF Truncated
  <2> QED
    BY <1>3, <2>2, <2>3 DEF ToLamports
<1> QED
  BY <1>2, <1>3

LEMMA WsolKept ==
    ASSUME NEW p \in Payloads, NEW q, OwnAreKept(p, q)
    PROVE  WsolLamports(q) \in Int /\ WsolLamports(p) = WsolLamports(q)
<1>1. PICK S, T : S = InMint(q, "wsol") /\ T = InMint(p, "wsol")
  OBVIOUS
<1>2. /\ IsFiniteSet(T) /\ S \in SUBSET T
      /\ \A x \in T : At(p, x).raw \in Int /\ At(p, x).dec \in Nat
      /\ \A x \in S : At(q, x).raw = At(p, x).raw /\ At(q, x).dec = At(p, x).dec
      /\ \A x \in T \ S : At(p, x).raw = 0
  BY <1>1, InMintIs, MintKept
<1>3. PICK g : g = [x \in S |-> ToLamports(At(q, x).raw, At(q, x).dec)]
  OBVIOUS
<1>4. PICK h : h = [x \in T |-> ToLamports(At(p, x).raw, At(p, x).dec)]
  OBVIOUS
<1>5. \A x \in S : g[x] \in Int /\ h[x] = g[x]
  BY <1>2, <1>3, <1>4, LamportsAre
<1>6. \A x \in T : h[x] \in Int
  BY <1>2, <1>4, LamportsAre
<1>7. \A x \in T \ S : h[x] = 0
  BY <1>2, <1>4, LamportsAre
<1>8. g \in [S -> Int] /\ h \in [T -> Int]
  BY <1>3, <1>4, <1>5, <1>6
<1>9. SumOver(g) \in Int /\ SumOver(h) = SumOver(g)
  BY <1>2, <1>5, <1>7, <1>8, SumWithZeros
<1> QED
  BY <1>1, <1>3, <1>4, <1>9 DEF WsolLamports

\* Lamports that are not known to have moved did not, when nothing of ours is malformed.
LEMMA NativeKept ==
    ASSUME NEW p \in Payloads, NEW q, Lost(p, q), Read(q), ~NativeMalformed(q)
    PROVE  Native(q) \in Int /\ Native(p) = Native(q)
<1>1. PICK S, T : S = OwnEntries(q) /\ T = OwnEntries(p)
  OBVIOUS
<1>2. q.entries # Unread /\ ~Unattributable(q)
  BY DEF Read
<1>3. T = {i \in DOMAIN p.entries : p.entries[i].account = Us}
  BY <1>1, AllReadable DEF OwnEntries
<1>4. S = {i \in DOMAIN p.entries : q.entries[i].account = Us} /\ ReadableAmount(q) = DOMAIN p.entries
  BY <1>1, <1>2, ReadIs DEF OwnEntries
<1>5. \A i \in DOMAIN p.entries :
         /\ q.entries[i].account \in {p.entries[i].account, Unread}
         /\ q.entries[i].native \in {p.entries[i].native, Unread}
  BY <1>2, ReadIs
<1>6. Us # Unread /\ Unread # 0
  BY UnreadAssumption DEF Accounts
<1>7. S \in SUBSET T
  BY <1>3, <1>4, <1>5, <1>6
<1>8. \A i \in T : p.entries[i].native \in Int
  BY <1>3, EntryShape
<1>9. \A i \in S : q.entries[i].native = p.entries[i].native
  BY <1>1, <1>4, <1>5 DEF NativeMalformed
<1>10. \A i \in T \ S : p.entries[i].native = 0
  <2> SUFFICES ASSUME NEW i \in T \ S PROVE p.entries[i].native = 0
    OBVIOUS
  <2>1. i \in ReadableAmount(q) /\ q.entries[i].account = Unread
    BY <1>3, <1>4, <1>5
  <2>2. q.entries[i].native = 0
    BY <2>1 DEF NativeMalformed
  <2> QED
    BY <1>3, <1>5, <1>6, <2>2
<1>11. IsFiniteSet(T)
  BY <1>3, OwnIsFinite, FS_Subset
<1>12. PICK g : g = [i \in S |-> q.entries[i].native]
  OBVIOUS
<1>13. PICK h : h = [i \in T |-> p.entries[i].native]
  OBVIOUS
<1>14. g \in [S -> Int] /\ h \in [T -> Int]
  BY <1>7, <1>8, <1>9, <1>12, <1>13
<1>15. (\A i \in S : h[i] = g[i]) /\ (\A i \in T \ S : h[i] = 0)
  BY <1>7, <1>9, <1>10, <1>12, <1>13
<1>16. SumOver(g) \in Int /\ SumOver(h) = SumOver(g)
  BY <1>7, <1>11, <1>14, <1>15, SumWithZeros
<1> QED
  BY <1>1, <1>12, <1>13, <1>16 DEF Native

LEMMA SolKept ==
    ASSUME NEW p \in Payloads, NEW q, Lost(p, q), Read(q), ~SolMalformed(q)
    PROVE  /\ ~SolMalformed(p) /\ SolDelta(q) \in Int /\ SolDelta(p) = SolDelta(q)
           /\ p.feePayer = q.feePayer /\ p.fee = q.fee
<1>1. p.feePayer = q.feePayer /\ p.fee = q.fee
  BY DEF Lost, SolMalformed
<1>2. Native(q) \in Int /\ Native(p) = Native(q)
  BY NativeKept DEF SolMalformed
<1>3. WsolLamports(q) \in Int /\ WsolLamports(p) = WsolLamports(q)
  BY OwnKept, WsolKept
<1>4. p.fee \in Nat /\ p.feePayer # Unread /\ p.fee # Unread
  BY PayloadShape
<1>5. ~NativeMalformed(p)
  BY AllReadable, EntryShape DEF NativeMalformed, OwnEntries
<1>6. SolDelta(q) \in Int /\ SolDelta(p) = SolDelta(q)
  BY <1>1, <1>2, <1>3, <1>4 DEF SolDelta
<1> QED
  BY <1>1, <1>4, <1>5, <1>6 DEF SolMalformed
-----------------------------------------------------------------------------
(* Rent.                                                                   *)

LEMMA MaxOfTwo ==
    ASSUME NEW a \in Int, NEW b \in Int
    PROVE  Max({a, b}) = IF a > b THEN a ELSE b
<1>1. PICK n \in {a, b} : n = IF a > b THEN a ELSE b
  OBVIOUS
<1>2. \A y \in {a, b} : n >= y
  BY <1>1
<1>3. Max({a, b}) \in {a, b} /\ \A y \in {a, b} : Max({a, b}) >= y
  BY <1>2 DEF Max
<1> QED
  BY <1>1, <1>2, <1>3

LEMMA FloorKept ==
    ASSUME NEW p \in Payloads, NEW q, OwnAreKept(p, q)
    PROVE  RentFloor(p) \in Int /\ RentFloor(p) = RentFloor(q)
<1>1. PICK S, T : /\ S = {x \in OwnChanges(q) : At(q, x).raw # 0}
                  /\ T = {x \in OwnChanges(p) : At(p, x).raw # 0}
  OBVIOUS
<1>2. S = T
  BY <1>1 DEF OwnAreKept
<1>3. IsFiniteSet(T)
  BY <1>1, OwnIsFinite, FS_Subset
<1>4. Cardinality(T) \in Nat /\ AtaRent \in Nat
  BY <1>3, FS_CardinalityType, ClassifierAssumption
<1>5. PICK c \in Nat : c = Cardinality(T)
  BY <1>4
<1>6. RentFloor(p) = AtaRent * c /\ RentFloor(q) = AtaRent * c
  BY <1>1, <1>2, <1>5 DEF RentFloor
<1> QED
  BY <1>4, <1>6

\* What an entry states is a number, whatever can be read of the payload.
LEMMA RentStatedIs ==
    ASSUME NEW p \in Payloads, NEW q, Lost(p, q), q.entries # Unread, NEW i \in ReadableAmount(q)
    PROVE  RentStatedBy(q, i) \in Nat
<1>1. PICK e, f : e = p.entries[i] /\ f = q.entries[i]
  OBVIOUS
<1>2. i \in DOMAIN p.entries /\ f.native \in {e.native, Unread}
  BY <1>1, SeenEntryIs
<1>3. e.native \in Int
  BY <1>1, <1>2, EntryShape
<1>4. f.native # Unread => Abs(f.native) \in Nat
  BY <1>2, <1>3 DEF Abs
<1> QED
  BY <1>1, <1>4 DEF RentStatedBy

LEMMA ReadableIsFinite ==
    ASSUME NEW p \in Payloads, NEW q, Lost(p, q), q.entries # Unread
    PROVE  IsFiniteSet(ReadableAmount(q)) /\ ReadableAmount(q) \in SUBSET DOMAIN p.entries
<1>1. DOMAIN q.entries = DOMAIN p.entries
  BY DEF Lost, EntriesLost
<1>2. ReadableAmount(q) \in SUBSET DOMAIN p.entries
  BY <1>1 DEF ReadableAmount
<1> QED
  BY <1>2, OwnIsFinite, FS_Subset

LEMMA SumIsInt ==
    ASSUME NEW S, IsFiniteSet(S), NEW g \in [S -> Int]
    PROVE  SumOver(g) \in Int
<1>1. PICK f : Sums(f, g, S)
  BY SumsExist
<1> QED
  BY <1>1, SumIs

LEMMA RentIs ==
    ASSUME NEW p \in Payloads, NEW q, Lost(p, q), q.entries # Unread
    PROVE  IdentifiableRent(q) \in Int
<1>1. PICK g : g = [i \in ReadableAmount(q) |-> RentStatedBy(q, i)]
  OBVIOUS
<1>2. g \in [ReadableAmount(q) -> Int]
  BY <1>1, RentStatedIs
<1>3. SumOver(g) \in Int
  BY <1>2, ReadableIsFinite, SumIsInt
<1> QED
  BY <1>1, <1>3 DEF IdentifiableRent

LEMMA KnownIs ==
    ASSUME NEW p \in Payloads, NEW q, Lost(p, q), q.entries # Unread
    PROVE  NativeKnown(q) \in Int
<1>1. PICK S : S = {i \in OwnEntries(q) : q.entries[i].native # Unread}
  OBVIOUS
<1>2. S \in SUBSET ReadableAmount(q)
  BY <1>1 DEF OwnEntries
<1>3. ASSUME NEW i \in S PROVE q.entries[i].native \in Int
  <2>1. i \in ReadableAmount(q) /\ q.entries[i].native # Unread
    BY <1>1, <1>2
  <2>2. i \in DOMAIN p.entries /\ q.entries[i].native \in {p.entries[i].native, Unread}
    BY <2>1, SeenEntryIs
  <2> QED
    BY <2>1, <2>2, EntryShape
<1>4. IsFiniteSet(S)
  BY <1>2, ReadableIsFinite, FS_Subset
<1>5. PICK g : g = [i \in S |-> q.entries[i].native]
  OBVIOUS
<1>6. g \in [S -> Int]
  BY <1>3, <1>5
<1> QED
  BY <1>1, <1>4, <1>5, <1>6, SumIsInt DEF NativeKnown

LEMMA BoundIs ==
    ASSUME NEW p \in Payloads, NEW q, Lost(p, q), OwnAreKept(p, q), q.entries # Unread, NEW n \in Int
    PROVE  /\ n <= RentBound(p) /\ ~(n <= RentBound(q)) => IdentifiableRent(p) > IdentifiableRent(q)
           /\ n <= RentBound(q) /\ ~(n <= RentBound(p)) => IdentifiableRent(q) > IdentifiableRent(p)
           /\ IdentifiableRent(p) \in Int /\ IdentifiableRent(q) \in Int
<1>1. IdentifiableRent(q) \in Int
  BY RentIs
<1>2. IdentifiableRent(p) \in Int
  BY RentIs, NothingLost, PayloadShape
<1>3. PICK c : c = RentFloor(p)
  OBVIOUS
<1>4. c \in Int /\ RentFloor(q) = c
  BY <1>3, FloorKept
<1>5. RentBound(p) = IF IdentifiableRent(p) > c THEN IdentifiableRent(p) ELSE c
  BY <1>2, <1>3, <1>4, MaxOfTwo DEF RentBound
<1>6. RentBound(q) = IF IdentifiableRent(q) > c THEN IdentifiableRent(q) ELSE c
  BY <1>1, <1>4, MaxOfTwo DEF RentBound
<1> QED
  BY <1>1, <1>2, <1>4, <1>5, <1>6

-----------------------------------------------------------------------------
(* The decision follows.                                                   *)

\* What came of q is what came of p, or it is malformed, or rent stands between the two.
Follows(P, Q, p, q) ==
    \/ Q.outcome = "malformed"
    \/ Q.outcome = P.outcome /\ (Q.outcome = "trade" => SameTrade(Q, P))
    \/ Q.outcome = "trade" /\ P.outcome = "sol_leg_is_residue" /\ IdentifiableRent(p) > IdentifiableRent(q)
    \/ /\ Q.outcome = "sol_leg_is_residue" /\ P.outcome = "trade"
       /\ IdentifiableRent(q) > IdentifiableRent(p) /\ ~SolMalformed(q)

LEMMA SettleFollows ==
    ASSUME NEW p \in Payloads, NEW q, Lost(p, q), Read(q), NEW m \in AllLegs(q), NEW quote \in Int
    PROVE  Follows(Settle(p, m, quote), Settle(q, m, quote), p, q)
<1>1. PICK P, Q : P = Settle(p, m, quote) /\ Q = Settle(q, m, quote)
  OBVIOUS
<1>2. CASE SolMalformed(q)
  <2>1. Q.outcome = "malformed"
    BY <1>1, <1>2 DEF Settle, Says
  <2> QED
    BY <1>1, <2>1 DEF Follows
<1>3. CASE ~SolMalformed(q)
  <2>1. OwnAreKept(p, q) /\ q.entries # Unread
    BY OwnKept DEF Read
  <2>2. PICK k, a, b, s, t : /\ k = Finer(p, q, m) /\ a = LegRaw(q, m) /\ b = LegRaw(p, m)
                             /\ s = PowerOfTen[Scale(q, m)] /\ t = PowerOfTen[Scale(p, m)]
    OBVIOUS
  <2>3. InMint(q, m) # {}
    BY <2>1, LegsKept
  <2>4. k \in Nat \ {0} /\ a \in Int /\ b = k * a /\ t = k * s /\ Scale(q, m) \in Nat
    BY <2>1, <2>2, <2>3, LegKept
  <2>5. s \in Nat
    BY <2>2, <2>4, PowersArePositive
  <2>6. b > 0 <=> a > 0
    BY <2>4, Cancel
  <2>7. Abs(b) = k * Abs(a) /\ Abs(a) \in Nat
    BY <2>4, AbsScaled
  <2>8. Abs(a) * t = Abs(b) * s
    <3>1. PICK n \in Nat : n = Abs(a)
      BY <2>7
    <3>2. n * (k * s) = (k * n) * s
      BY <2>4, <2>5, <3>1
    <3> QED
      BY <2>4, <2>7, <3>1, <3>2
  <2>9. ~SolMalformed(p) /\ SolDelta(q) \in Int /\ SolDelta(p) = SolDelta(q)
        /\ p.feePayer = q.feePayer /\ p.fee = q.fee
    BY <1>3, SolKept
  <2>10. PICK sol : sol = SolDelta(q) + quote
    OBVIOUS
  <2>11. sol \in Int /\ sol = SolDelta(p) + quote /\ Abs(sol) \in Int
    BY <2>9, <2>10 DEF Abs
  <2>12. PICK fee : fee = IF q.feePayer = Us THEN q.fee ELSE 0
    OBVIOUS
  <2>13. Q = IF sol = 0 THEN Says("no_sol_leg")
             ELSE IF (a > 0) = (sol > 0) THEN Says("sol_leg_wrong_direction")
             ELSE IF Abs(sol) <= RentBound(q) THEN Says("sol_leg_is_residue")
             ELSE [outcome |-> "trade", side |-> IF a > 0 THEN "buy" ELSE "sell", mint |-> m,
                   raw |-> Abs(a), dec |-> Scale(q, m), sol |-> Abs(sol), fee |-> fee]
    BY <1>1, <1>3, <2>2, <2>10, <2>12 DEF Settle
  <2>14. P = IF sol = 0 THEN Says("no_sol_leg")
             ELSE IF (b > 0) = (sol > 0) THEN Says("sol_leg_wrong_direction")
             ELSE IF Abs(sol) <= RentBound(p) THEN Says("sol_leg_is_residue")
             ELSE [outcome |-> "trade", side |-> IF b > 0 THEN "buy" ELSE "sell", mint |-> m,
                   raw |-> Abs(b), dec |-> Scale(p, m), sol |-> Abs(sol), fee |-> fee]
    BY <1>1, <2>2, <2>9, <2>11, <2>12 DEF Settle
  <2>15. CASE sol = 0
    <3>1. Q = Says("no_sol_leg") /\ P = Says("no_sol_leg")
      BY <2>13, <2>14, <2>15
    <3> QED
      BY <1>1, <3>1 DEF Follows, Says
  <2>16. CASE sol # 0 /\ (a > 0) = (sol > 0)
    <3>1. (b > 0) = (sol > 0)
      BY <2>6, <2>16
    <3>2. Q = Says("sol_leg_wrong_direction") /\ P = Says("sol_leg_wrong_direction")
      BY <2>13, <2>14, <2>16, <3>1
    <3> QED
      BY <1>1, <3>2 DEF Follows, Says
  <2>17. CASE sol # 0 /\ ~((a > 0) = (sol > 0))
    <3>1. ~((b > 0) = (sol > 0))
      BY <2>6, <2>17
    <3>2. Q = IF Abs(sol) <= RentBound(q) THEN Says("sol_leg_is_residue")
              ELSE [outcome |-> "trade", side |-> IF a > 0 THEN "buy" ELSE "sell", mint |-> m,
                    raw |-> Abs(a), dec |-> Scale(q, m), sol |-> Abs(sol), fee |-> fee]
      BY <2>13, <2>17
    <3>3. P = IF Abs(sol) <= RentBound(p) THEN Says("sol_leg_is_residue")
              ELSE [outcome |-> "trade", side |-> IF b > 0 THEN "buy" ELSE "sell", mint |-> m,
                    raw |-> Abs(b), dec |-> Scale(p, m), sol |-> Abs(sol), fee |-> fee]
      BY <2>14, <2>17, <3>1
    <3>4. CASE Abs(sol) <= RentBound(p) /\ Abs(sol) <= RentBound(q)
      <4>1. Q = Says("sol_leg_is_residue") /\ P = Says("sol_leg_is_residue")
        BY <3>2, <3>3, <3>4
      <4> QED
        BY <1>1, <4>1 DEF Follows, Says
    <3>5. CASE Abs(sol) <= RentBound(p) /\ ~(Abs(sol) <= RentBound(q))
      <4>1. Q.outcome = "trade" /\ P = Says("sol_leg_is_residue")
        BY <3>2, <3>3, <3>5
      <4>2. IdentifiableRent(p) > IdentifiableRent(q)
        BY <2>1, <2>11, <3>5, BoundIs
      <4> QED
        BY <1>1, <4>1, <4>2 DEF Follows, Says
    <3>6. CASE ~(Abs(sol) <= RentBound(p)) /\ Abs(sol) <= RentBound(q)
      <4>1. P.outcome = "trade" /\ Q = Says("sol_leg_is_residue")
        BY <3>2, <3>3, <3>6
      <4>2. IdentifiableRent(q) > IdentifiableRent(p)
        BY <2>1, <2>11, <3>6, BoundIs
      <4> QED
        BY <1>1, <1>3, <4>1, <4>2 DEF Follows, Says
    <3>7. CASE ~(Abs(sol) <= RentBound(p)) /\ ~(Abs(sol) <= RentBound(q))
      <4>1. Q.outcome = "trade" /\ P.outcome = "trade" /\ Q.mint = P.mint /\ Q.sol = P.sol /\ Q.fee = P.fee
            /\ Q.raw = Abs(a) /\ P.raw = Abs(b) /\ Q.dec = Scale(q, m) /\ P.dec = Scale(p, m)
        BY <3>2, <3>3, <3>7
      <4>2. Q.side = P.side
        BY <2>6, <3>2, <3>3, <3>7
      <4>3. Q.raw * PowerOfTen[P.dec] = P.raw * PowerOfTen[Q.dec]
        BY <2>2, <2>8, <4>1
      <4>4. SameTrade(Q, P)
        BY <4>1, <4>2, <4>3 DEF SameTrade
      <4> QED
        BY <1>1, <4>1, <4>4 DEF Follows
    <3> QED
      BY <3>4, <3>5, <3>6, <3>7
  <2> QED
    BY <2>15, <2>16, <2>17
<1> QED
  BY <1>2, <1>3

\* The truth can be read, and says nothing malformed.
LEMMA TruthIsRead ==
    ASSUME NEW p \in Payloads
    PROVE  Read(p) /\ ~SolMalformed(p)
<1>1. p.entries # Unread /\ p.feePayer # Unread /\ p.fee # Unread
  BY PayloadShape
<1>2. ASSUME NEW i \in DOMAIN p.entries PROVE ~MayHide(p.entries[i])
  <2>1. p.entries[i] # Unread /\ p.entries[i].changes # Unread
    BY EntryShape
  <2>2. \A j \in DOMAIN p.entries[i].changes :
           p.entries[i].changes[j] # Unread /\ p.entries[i].changes[j].owner # Unread
    BY ChangeShape
  <2> QED
    BY <2>1, <2>2 DEF MayHide
<1>3. ~Unattributable(p)
  BY <1>2 DEF Unattributable
<1>4. ~OwnIsUnreadable(p)
  <2>1. ASSUME NEW i \in OwnEntries(p) PROVE ~MayHide(p.entries[i]) /\ i \in DOMAIN p.entries
    BY <1>2 DEF OwnEntries, ReadableAmount
  <2>2. ASSUME NEW i \in OwnEntries(p), NEW j \in DOMAIN p.entries[i].changes
        PROVE  p.entries[i].changes[j] # Unread /\ p.entries[i].changes[j].owner # Unread
    BY <2>1, ChangeShape
  <2> QED
    BY <2>1, <2>2 DEF OwnIsUnreadable, MayHide
<1>5. ASSUME NEW x \in OwnChanges(p) PROVE Unread \notin {At(p, x).mint, At(p, x).raw, At(p, x).dec}
  <2>1. x[1] \in DOMAIN p.entries /\ x[2] \in DOMAIN p.entries[x[1]].changes
    BY OwnChangeIs
  <2> QED
    BY <2>1, ChangeShape DEF At
<1>6. ~ChangesMalformed(p)
  BY <1>3, <1>4, <1>5 DEF ChangesMalformed
<1>7. ~NativeMalformed(p)
  BY AllReadable, EntryShape DEF NativeMalformed, OwnEntries
<1> QED
  BY <1>1, <1>3, <1>6, <1>7 DEF Read, SolMalformed

\* What the stablecoin was worth.
LEMMA StableKept ==
    ASSUME NEW p \in Payloads, NEW q, OwnAreKept(p, q), NEW m, InMint(q, m) # {}, NEW usd \in Nat \ {0}
    PROVE  StableLamports(q, m, usd) \in Int /\ StableLamports(p, m, usd) = StableLamports(q, m, usd)
<1>1. PICK k, a, b, s, t, l : /\ k = Finer(p, q, m) /\ a = LegRaw(q, m) /\ b = LegRaw(p, m)
                              /\ s = PowerOfTen[Scale(q, m)] /\ t = PowerOfTen[Scale(p, m)]
                              /\ l = PowerOfTen[LamportDecimals]
  OBVIOUS
<1>2. k \in Nat \ {0} /\ a \in Int /\ b = k * a /\ t = k * s /\ Scale(q, m) \in Nat
  BY <1>1, LegKept
<1>3. s \in Nat \ {0} /\ l \in Nat \ {0}
  BY <1>1, <1>2, PowersArePositive, ClassifierAssumption
<1>4. PICK x, y : x = a * l /\ y = s * usd
  OBVIOUS
<1>5. x \in Int /\ y \in Nat /\ y # 0
  BY <1>2, <1>3, <1>4
<1>6. b * l = k * x
  <2>1. (k * a) * l = k * (a * l)
    BY <1>2, <1>3
  <2> QED
    BY <1>2, <1>4, <2>1
<1>7. t * usd = k * y
  <2>1. (k * s) * usd = k * (s * usd)
    BY <1>2, <1>3
  <2> QED
    BY <1>2, <1>4, <2>1
<1>8. StableLamports(q, m, usd) = Truncated(x, y) /\ StableLamports(p, m, usd) = Truncated(k * x, k * y)
  BY <1>1, <1>4, <1>6, <1>7 DEF StableLamports
<1>9. y \in Nat \ {0}
  BY <1>5
<1>10. Truncated(x, y) \in Int
  BY <1>5, <1>9, TruncatedIs
<1>11. Truncated(k * x, k * y) = Truncated(x, y)
  BY <1>2, <1>5, <1>9, TruncatedScaled
<1> QED
  BY <1>8, <1>10, <1>11

\* With nothing to settle, the same is said.
LEMMA SaysFollows ==
    ASSUME NEW o, o # "trade", NEW p, NEW q
    PROVE  Follows(Says(o), Says(o), p, q)
  BY DEF Follows, Says

LEMMA EvaluateFollows ==
    ASSUME NEW p \in Payloads, NEW q, Lost(p, q), Read(q), NEW usd \in Nat
    PROVE  Follows(EvaluateSwap(p, usd), EvaluateSwap(q, usd), p, q)
<1>1. OwnAreKept(p, q) /\ q.entries # Unread /\ ~ChangesMalformed(q) /\ ~Unattributable(q)
  BY OwnKept DEF Read
<1>2. Read(p) /\ p.entries # Unread /\ ~ChangesMalformed(p) /\ ~Unattributable(p)
  BY TruthIsRead DEF Read
<1>3. PICK L, n : L = Legs(q) /\ n = Cardinality(L)
  OBVIOUS
<1>4. Legs(p) = L /\ AllLegs(p) = AllLegs(q) /\ L \subseteq AllLegs(q) /\ \A m \in AllLegs(q) : InMint(q, m) # {}
  BY <1>1, <1>3, LegsKept DEF Legs
<1>5. EvaluateSwap(q, usd) = IF n = 0 THEN WithoutLegs(q) ELSE IF n = 1 THEN WithOneLeg(q)
                             ELSE IF n = 2 THEN WithTwoLegs(q, usd) ELSE Says("unsupported_quote")
  BY <1>1, <1>3 DEF EvaluateSwap
<1>6. EvaluateSwap(p, usd) = IF n = 0 THEN WithoutLegs(p) ELSE IF n = 1 THEN WithOneLeg(p)
                             ELSE IF n = 2 THEN WithTwoLegs(p, usd) ELSE Says("unsupported_quote")
  BY <1>2, <1>3, <1>4 DEF EvaluateSwap
<1>7. Follows(WithoutLegs(p), WithoutLegs(q), p, q)
  <2>1. WithoutLegs(q) = IF AllLegs(q) # {} THEN Says("dust_only") ELSE Says("no_token_leg")
    BY <1>1 DEF WithoutLegs
  <2>2. WithoutLegs(p) = IF AllLegs(q) # {} THEN Says("dust_only") ELSE Says("no_token_leg")
    BY <1>2, <1>4 DEF WithoutLegs
  <2> QED
    BY <2>1, <2>2, SaysFollows
<1>8. n # 0 => L # {}
  BY <1>3, FS_EmptySet
<1>9. ASSUME n # 0 PROVE Follows(WithOneLeg(p), WithOneLeg(q), p, q)
  <2>1. CASE L \subseteq Stables
    <3>1. WithOneLeg(q) = Says("stable_rotation") /\ WithOneLeg(p) = Says("stable_rotation")
      BY <1>3, <1>4, <2>1 DEF WithOneLeg
    <3> QED
      BY <3>1, SaysFollows
  <2>2. CASE ~(L \subseteq Stables)
    <3>0. PICK zero \in Int : zero = 0
      OBVIOUS
    <3>1. PICK m : m = CHOOSE x \in L : TRUE
      OBVIOUS
    <3>2. m \in AllLegs(q)
      BY <1>4, <1>8, <1>9, <3>1
    <3>3. WithOneLeg(q) = Settle(q, m, zero) /\ WithOneLeg(p) = Settle(p, m, zero)
      BY <1>3, <1>4, <2>2, <3>0, <3>1 DEF WithOneLeg
    <3>4. Follows(Settle(p, m, zero), Settle(q, m, zero), p, q)
      BY <3>2, SettleFollows
    <3> QED
      BY <3>3, <3>4
  <2> QED
    BY <2>1, <2>2
<1>10. Follows(WithTwoLegs(p, usd), WithTwoLegs(q, usd), p, q)
  <2>1. CASE L \subseteq Stables
    <3>1. WithTwoLegs(q, usd) = Says("stable_rotation") /\ WithTwoLegs(p, usd) = Says("stable_rotation")
      BY <1>3, <1>4, <2>1 DEF WithTwoLegs
    <3> QED
      BY <3>1, SaysFollows
  <2>2. CASE ~(L \subseteq Stables) /\ "usdc" \notin L
    <3>1. PICK o : o = IF "usdt" \in L THEN "unsupported_quote_unpriced_stable" ELSE "unsupported_quote_token_token"
      OBVIOUS
    <3>2. WithTwoLegs(q, usd) = Says(o) /\ WithTwoLegs(p, usd) = Says(o)
      BY <1>3, <1>4, <2>2, <3>1 DEF WithTwoLegs
    <3>3. o # "trade"
      BY <3>1
    <3> QED
      BY <3>2, <3>3, SaysFollows
  <2>3. CASE ~(L \subseteq Stables) /\ "usdc" \in L /\ usd = 0
    <3>1. WithTwoLegs(q, usd) = Says("unsupported_quote_no_rate") /\ WithTwoLegs(p, usd) = Says("unsupported_quote_no_rate")
      BY <1>3, <1>4, <2>3 DEF WithTwoLegs
    <3> QED
      BY <3>1, SaysFollows
  <2>4. CASE ~(L \subseteq Stables) /\ "usdc" \in L /\ usd # 0
    <3>1. PICK quote : quote = StableLamports(q, "usdc", usd)
      OBVIOUS
    <3>2. InMint(q, "usdc") # {} /\ usd \in Nat \ {0}
      BY <1>4, <2>4
    <3>3. quote \in Int /\ StableLamports(p, "usdc", usd) = quote
      BY <1>1, <3>1, <3>2, StableKept
    <3>4. PICK m : m = CHOOSE x \in L : x # "usdc"
      OBVIOUS
    <3>5. m \in AllLegs(q)
      <4>1. PICK x \in L : x \notin Stables
        BY <2>4
      <4>2. x # "usdc"
        BY <4>1 DEF Stables
      <4> QED
        BY <1>4, <3>4, <4>1, <4>2
    <3>6. WithTwoLegs(q, usd) = IF quote = 0 THEN Says("unsupported_quote") ELSE Settle(q, m, quote)
      BY <1>3, <2>4, <3>1, <3>4 DEF WithTwoLegs
    <3>7. WithTwoLegs(p, usd) = IF quote = 0 THEN Says("unsupported_quote") ELSE Settle(p, m, quote)
      BY <1>4, <2>4, <3>3, <3>4 DEF WithTwoLegs
    <3>8. Follows(Settle(p, m, quote), Settle(q, m, quote), p, q)
      BY <3>3, <3>5, SettleFollows
    <3> QED
      BY <3>6, <3>7, <3>8, SaysFollows
  <2> QED
    BY <2>1, <2>2, <2>3, <2>4
<1> QED
  BY <1>5, <1>6, <1>7, <1>9, <1>10, SaysFollows

\* With the rate of the minute looked up for what needs one.
LEMMA ClassifyFollows ==
    ASSUME NEW p \in Payloads, NEW q, Lost(p, q), Read(q), NEW usd \in Nat
    PROVE  Follows(Classify(p, usd), Classify(q, usd), p, q)
<1>1. PICK zero \in Nat : zero = 0
  OBVIOUS
<1>2. PICK P, Q : P = EvaluateSwap(p, zero) /\ Q = EvaluateSwap(q, zero)
  OBVIOUS
<1>3. Follows(P, Q, p, q)
  BY <1>2, EvaluateFollows
<1>4. PICK R, S : R = EvaluateSwap(p, usd) /\ S = EvaluateSwap(q, usd)
  OBVIOUS
<1>5. Follows(R, S, p, q)
  BY <1>4, EvaluateFollows
<1>6. p.header # Unread
  BY PayloadShape
<1>7. Classify(p, usd) = IF P.outcome = "unsupported_quote_no_rate" /\ usd # 0 THEN R ELSE P
  BY <1>1, <1>2, <1>4, <1>6 DEF Classify
<1>8. Classify(q, usd) = IF NeedsHeader(Q.outcome) /\ q.header = Unread THEN Says("malformed")
                         ELSE IF Q.outcome = "unsupported_quote_no_rate" /\ usd # 0 THEN S ELSE Q
  BY <1>1, <1>2, <1>4 DEF Classify
<1>9. CASE NeedsHeader(Q.outcome) /\ q.header = Unread
  <2>1. Classify(q, usd).outcome = "malformed"
    BY <1>8, <1>9 DEF Says
  <2> QED
    BY <2>1 DEF Follows
<1>10. CASE ~(NeedsHeader(Q.outcome) /\ q.header = Unread)
  <2>1. CASE Q.outcome = "malformed"
    <3>1. Classify(q, usd).outcome = "malformed"
      BY <1>8, <1>10, <2>1
    <3> QED
      BY <3>1 DEF Follows
  <2>2. CASE Q.outcome # "malformed"
    <3>1. Q.outcome = "unsupported_quote_no_rate" <=> P.outcome = "unsupported_quote_no_rate"
      BY <1>3, <2>2 DEF Follows
    <3> QED
      BY <1>3, <1>5, <1>7, <1>8, <1>10, <3>1
  <2> QED
    BY <2>1, <2>2
<1> QED
  BY <1>9, <1>10

-----------------------------------------------------------------------------
(* A payload that was not read is refused, or says nothing of the wallet.  *)

\* Nothing of ours is left.
NothingOurs(q) == q.entries # Unread /\ OwnChanges(q) = {} /\ ~OwnIsUnreadable(q) /\ Unattributable(q)

LEMMA NoWsol ==
    ASSUME NEW q, OwnChanges(q) = {}
    PROVE  WsolLamports(q) = 0
<1>1. PICK T : T = InMint(q, "wsol")
  OBVIOUS
<1>2. T = {}
  BY <1>1 DEF InMint
<1>3. IsFiniteSet(T)
  BY <1>2, FS_EmptySet
<1>4. PICK h : h = [x \in T |-> ToLamports(At(q, x).raw, At(q, x).dec)]
  OBVIOUS
<1>5. h \in [T -> Int] /\ \A x \in T : h[x] = 0
  BY <1>2, <1>4
<1>6. SumOver(h) = 0
  BY <1>3, <1>5, SumOfZeros
<1> QED
  BY <1>1, <1>4, <1>6 DEF WsolLamports

LEMMA NotRead ==
    ASSUME NEW p \in Payloads, NEW q, Lost(p, q), ~Read(q), NEW usd \in Nat
    PROVE  \/ Classify(q, usd).outcome = "malformed"
           \/ Classify(q, usd).outcome = "no_token_leg" /\ NothingOurs(q) /\ Uninvolved(q)
<1>1. PICK Q : Q = EvaluateSwap(q, 0)
  OBVIOUS
<1>2. ASSUME Q.outcome \in {"malformed", "no_token_leg"} PROVE Classify(q, usd) = Q
  BY <1>1, <1>2 DEF Classify, NeedsHeader
<1>3. CASE q.entries = Unread \/ ChangesMalformed(q)
  <2>1. Q.outcome = "malformed"
    BY <1>1, <1>3 DEF EvaluateSwap, Says
  <2> QED
    BY <1>2, <2>1
<1>4. CASE q.entries # Unread /\ ~ChangesMalformed(q)
  <2>1. NothingOurs(q)
    BY <1>4 DEF Read, ChangesMalformed, NothingOurs
  <2>2. AllLegs(q) = {} /\ Legs(q) = {}
    BY <2>1 DEF NothingOurs, AllLegs, Legs, InMint
  <2>3. Cardinality(Legs(q)) = 0
    BY <2>2, FS_EmptySet
  <2>4. Q = WithoutLegs(q)
    BY <1>1, <1>4, <2>3 DEF EvaluateSwap
  <2>5. WsolLamports(q) = 0
    BY <2>1, NoWsol DEF NothingOurs
  <2>6. NativeKnown(q) \in Int
    BY <1>4, KnownIs
  <2>7. CASE NativeKnown(q) # 0 /\ (SolMalformed(q) \/ SolDelta(q) # 0)
    <3>1. Q.outcome = "malformed"
      BY <2>1, <2>2, <2>4, <2>5, <2>6, <2>7 DEF WithoutLegs, Says, NothingOurs
    <3> QED
      BY <1>2, <3>1
  <2>8. CASE ~(NativeKnown(q) # 0 /\ (SolMalformed(q) \/ SolDelta(q) # 0))
    <3>1. Q.outcome = "no_token_leg"
      BY <2>1, <2>2, <2>4, <2>5, <2>6, <2>8 DEF WithoutLegs, Says, NothingOurs
    <3>2. Uninvolved(q)
      BY <2>1, <2>8 DEF Uninvolved, NothingOurs
    <3> QED
      BY <1>2, <2>1, <3>1, <3>2
  <2> QED
    BY <2>7, <2>8
<1> QED
  BY <1>3, <1>4

-----------------------------------------------------------------------------
(* The loss of one part.                                                   *)

\* What an entry states of rent, spelt out.
LEMMA RentBy ==
    ASSUME NEW q, NEW i, NEW e, e = q.entries[i]
    PROVE  /\ \/ e.account = Us
              \/ \A j \in ChangesOf(e) : e.changes[j].owner # Us
              \/ e.native = Unread
              \/ \E j \in ChangesOf(e) : e.changes[j].owner = Us /\ e.changes[j].mint = "wsol"
              => RentStatedBy(q, i) = 0
           /\ RentStatedBy(q, i) \in {0, Abs(e.native)}
           /\ /\ e.account # Us /\ e.native # Unread
              /\ \E j \in ChangesOf(e) : e.changes[j].owner = Us
              /\ \A j \in ChangesOf(e) : e.changes[j].owner = Us => e.changes[j].mint # "wsol"
              => RentStatedBy(q, i) = Abs(e.native)
  BY DEF RentStatedBy

\* One part less never states more rent, when one mint is held by each account.
LEMMA RentNoMore ==
    ASSUME NEW p \in Payloads, NEW q, Lost(p, q), Read(q), OneLost(p, q), OneMintEach(p), ~SolMalformed(q)
    PROVE  IdentifiableRent(q) <= IdentifiableRent(p)
<1>1. q.entries # Unread /\ ~Unattributable(q) /\ OwnAreKept(p, q) /\ ~NativeMalformed(q)
  BY OwnKept DEF Read, SolMalformed
<1>2. PICK D : D = DOMAIN p.entries
  OBVIOUS
<1>3. ReadableAmount(q) = D /\ ReadableAmount(p) = D /\ IsFiniteSet(D)
  BY <1>1, <1>2, ReadIs, AllReadable, OwnIsFinite
<1>4. ASSUME NEW i \in D
      PROVE  RentStatedBy(q, i) \in Nat /\ RentStatedBy(p, i) \in Nat /\ RentStatedBy(q, i) <= RentStatedBy(p, i)
  <2>1. PICK e, f : e = p.entries[i] /\ f = q.entries[i]
    OBVIOUS
  <2>2. RentStatedBy(q, i) \in Nat
    BY <1>1, <1>3, RentStatedIs
  <2>3. RentStatedBy(p, i) \in Nat
    BY <1>3, RentStatedIs, NothingLost, PayloadShape
  <2>4. e.native \in Int /\ Abs(0) = 0 /\ Us # Unread
    BY <1>2, <2>1, EntryShape, UnreadAssumption DEF Abs, Accounts
  <2>5. f.account \in {e.account, Unread} /\ f.native \in {e.native, Unread} /\ f # Unread
    BY <1>1, <1>2, <1>3, <2>1, ReadIs DEF ReadableAmount
  <2>6. CASE f = e
    <3>1. RentStatedBy(q, i) = RentStatedBy(p, i)
      BY <2>1, <2>6 DEF RentStatedBy
    <3> QED
      BY <2>2, <2>3, <3>1
  <2>7. CASE f.account = e.account /\ f.native = e.native
    <3>1. CASE RentStatedBy(q, i) = 0
      BY <2>2, <2>3, <3>1
    <3>2. CASE RentStatedBy(q, i) # 0
      <4>1. /\ f.account # Us /\ f.native # Unread
            /\ \E j \in ChangesOf(f) : f.changes[j].owner = Us
            /\ \A j \in ChangesOf(f) : f.changes[j].owner = Us => f.changes[j].mint # "wsol"
        BY <2>1, <3>2, RentBy
      <4>2. PICK j \in ChangesOf(f) : f.changes[j].owner = Us
        BY <4>1
      <4>3. <<i, j>> \in OwnChanges(q)
        BY <1>3, <2>1, <4>2, OwnChangesAre
      <4>4. <<i, j>> \in OwnChanges(p) /\ At(q, <<i, j>>).mint = At(p, <<i, j>>).mint
        BY <1>1, <4>3 DEF OwnAreKept
      <4>5. At(p, <<i, j>>).mint # "wsol"
        BY <2>1, <4>1, <4>2, <4>4 DEF At
      <4>6. ASSUME NEW k \in ChangesOf(e), e.changes[k].owner = Us PROVE e.changes[k].mint # "wsol"
        <5>1. <<i, k>> \in OwnChanges(p)
          BY <1>3, <2>1, <4>6, OwnChangesAre
        <5>2. At(p, <<i, k>>).mint = At(p, <<i, j>>).mint
          BY <4>4, <5>1 DEF OneMintEach
        <5> QED
          BY <2>1, <4>5, <5>2 DEF At
      <4>7. j \in ChangesOf(e) /\ e.changes[j].owner = Us
        <5>1. PICK k, l : /\ k \in ReadableAmount(p) /\ l \in ChangesOf(p.entries[k])
                          /\ <<i, j>> = <<k, l>> /\ p.entries[k].changes[l].owner = Us
          BY <4>4, OwnChangesAre
        <5>2. k = i /\ l = j
          BY <5>1
        <5> QED
          BY <2>1, <5>1, <5>2
      <4>8. e.account # Us /\ e.native # Unread
        BY <2>7, <4>1
      <4>9. RentStatedBy(p, i) = Abs(e.native)
        BY <2>1, <4>6, <4>7, <4>8, RentBy
      <4>10. RentStatedBy(q, i) = Abs(e.native)
        BY <2>1, <2>7, <3>2, RentBy
      <4> QED
        BY <2>2, <2>3, <4>9, <4>10
    <3> QED
      BY <3>1, <3>2
  <2>8. CASE f.changes = e.changes /\ f # e /\ (f.account # e.account \/ f.native # e.native)
    <3>1. CASE f.native = Unread
      <4>1. RentStatedBy(q, i) = 0
        BY <2>1, <3>1, RentBy
      <4> QED
        BY <2>2, <2>3, <4>1
    <3>2. CASE f.native # Unread
      <4>1. f.account = Unread
        BY <2>5, <2>8, <3>2
      <4>2. f.native = 0
        BY <1>1, <1>3, <2>1, <4>1 DEF NativeMalformed
      <4>3. RentStatedBy(q, i) = 0
        BY <2>1, <2>4, <4>2, RentBy
      <4> QED
        BY <2>2, <2>3, <4>3
    <3> QED
      BY <3>1, <3>2
  <2> QED
    BY <1>1, <1>2, <2>1, <2>2, <2>3, <2>5, <2>6, <2>7, <2>8 DEF OneLost, OneOfEntry
<1>5. PICK g, h : g = [i \in D |-> RentStatedBy(q, i)] /\ h = [i \in D |-> RentStatedBy(p, i)]
  OBVIOUS
<1>6. g \in [D -> Int] /\ h \in [D -> Int] /\ (\A i \in D : g[i] <= h[i]) /\ (\A i \in D \ D : 0 <= h[i])
  BY <1>4, <1>5
<1>7. D \in SUBSET D
  OBVIOUS
<1>8. SumOver(g) <= SumOver(h)
  BY <1>3, <1>6, <1>7, SumNoMore
<1> QED
  BY <1>3, <1>5, <1>8 DEF IdentifiableRent

\* A trade has a leg, and lamports against it or a second leg.
LEMMA TradeIs ==
    ASSUME NEW p, NEW usd, EvaluateSwap(p, usd).outcome = "trade", SolDelta(p) \in Int
    PROVE  \E m \in Legs(p) : SolDelta(p) # 0 \/ \E w \in Legs(p) : w # m
<1>1. ASSUME NEW o, Says(o).outcome = "trade" PROVE o = "trade"
  BY <1>1 DEF Says
<1>2. ASSUME NEW m, NEW quote, Settle(p, m, quote).outcome = "trade" PROVE SolDelta(p) + quote # 0
  BY <1>2, <1>1 DEF Settle
<1>3. WithoutLegs(p).outcome # "trade"
  BY <1>1 DEF WithoutLegs
<1>4. CASE Cardinality(Legs(p)) = 1
  <2>1. WithOneLeg(p).outcome = "trade"
    BY <1>4 DEF EvaluateSwap, Says
  <2>2. ~(Legs(p) \subseteq Stables)
    BY <2>1, <1>1 DEF WithOneLeg
  <2>3. PICK m \in Legs(p) : m \notin Stables
    BY <2>2
  <2>4. SolDelta(p) + 0 # 0
    BY <2>1, <2>2, <1>2 DEF WithOneLeg
  <2> QED
    BY <2>3, <2>4
<1>5. CASE Cardinality(Legs(p)) # 1
  <2>1. WithTwoLegs(p, usd).outcome = "trade"
    BY <1>3, <1>5 DEF EvaluateSwap, Says
  <2>2. ~(Legs(p) \subseteq Stables) /\ "usdc" \in Legs(p)
    BY <2>1, <1>1 DEF WithTwoLegs
  <2>3. PICK m \in Legs(p) : m \notin Stables
    BY <2>2
  <2>4. m # "usdc"
    BY <2>3 DEF Stables
  <2> QED
    BY <2>2, <2>3, <2>4
<1> QED
  BY <1>4, <1>5

\* Whether a payload can be attributed to anybody is said by its entries.
LEMMA SameEntries ==
    ASSUME NEW p, NEW q, q.entries = p.entries
    PROVE  Unattributable(q) = Unattributable(p)
  BY DEF Unattributable

\* One part less leaves of a trade over lamports that one is involved.
LEMMA StillInvolved ==
    ASSUME NEW p \in Payloads, NEW q, Lost(p, q), OneLost(p, q), OneMintEach(p), Native(p) # 0,
           NothingOurs(q), Uninvolved(q), NEW usd, EvaluateSwap(p, usd).outcome = "trade"
    PROVE  FALSE
<1>1. q.entries # Unread /\ OwnChanges(q) = {} /\ Unattributable(q)
  BY DEF NothingOurs
<1>2. q.entries # p.entries
  BY <1>1, SameEntries, TruthIsRead DEF Read
<1>3. q.feePayer = p.feePayer /\ q.fee = p.fee
  BY <1>1, <1>2 DEF OneLost
<1>4. PICK i \in DOMAIN p.entries :
         /\ OneOfEntry(p.entries[i], q.entries[i])
         /\ \A k \in DOMAIN p.entries : k # i => q.entries[k] = p.entries[k]
  BY <1>1, <1>2 DEF OneLost
<1>5. DOMAIN q.entries = DOMAIN p.entries /\ ReadableAmount(p) = DOMAIN p.entries
  BY <1>1, AllReadable DEF Lost, EntriesLost
<1>6. ASSUME NEW k \in DOMAIN p.entries, k # i
      PROVE  k \in ReadableAmount(q) /\ q.entries[k] = p.entries[k]
  BY <1>4, <1>5, <1>6 DEF ReadableAmount
\* What was ours was all in the entry that lost something.
<1>7. ASSUME NEW x \in OwnChanges(p) PROVE x[1] = i
  <2>1. PICK k, j : /\ k \in ReadableAmount(p) /\ j \in ChangesOf(p.entries[k])
                    /\ x = <<k, j>> /\ p.entries[k].changes[j].owner = Us
    BY OwnChangesAre
  <2>2. ASSUME k # i PROVE x \in OwnChanges(q)
    BY <1>5, <1>6, <2>1, <2>2, OwnChangesAre
  <2> QED
    BY <1>1, <2>1, <2>2
<1>8. ~SolMalformed(p) /\ SolDelta(p) \in Int
  BY SolKept, TruthIsRead, NothingLost
<1>9. PICK m \in Legs(p) : SolDelta(p) # 0 \/ \E w \in Legs(p) : w # m
  BY <1>8, TradeIs
<1>10. ASSUME NEW w \in Legs(p) PROVE w # "wsol" /\ \E x \in OwnChanges(p) : At(p, x).mint = w
  BY DEF Legs, AllLegs, InMint
<1>11. PICK x \in OwnChanges(p) : At(p, x).mint = m
  BY <1>10
<1>12. p.entries[i].account # Us
  BY <1>7, <1>11 DEF OneMintEach
<1>13. ASSUME NEW y \in OwnChanges(p) PROVE At(p, y).mint = m
  BY <1>7, <1>11 DEF OneMintEach
\* So there is one leg, and lamports that moved against it.
<1>14. SolDelta(p) # 0
  BY <1>9, <1>10, <1>13
<1>15. WsolLamports(p) = 0
  <2>1. InMint(p, "wsol") = {}
    BY <1>10, <1>13 DEF InMint
  <2>2. PICK T : T = InMint(p, "wsol")
    OBVIOUS
  <2>3. IsFiniteSet(T)
    BY <2>1, <2>2, FS_EmptySet
  <2>4. PICK h : h = [y \in T |-> ToLamports(At(p, y).raw, At(p, y).dec)]
    OBVIOUS
  <2>5. h \in [T -> Int] /\ \A y \in T : h[y] = 0
    BY <2>1, <2>2, <2>4
  <2>6. SumOver(h) = 0
    BY <2>3, <2>5, SumOfZeros
  <2> QED
    BY <2>2, <2>4, <2>6 DEF WsolLamports
<1>16. WsolLamports(q) = 0
  BY <1>1, NoWsol
\* The lamports of the wallet's own account are elsewhere.
<1>17. PICK S : S = OwnEntries(p)
  OBVIOUS
<1>18. OwnEntries(q) = S /\ i \notin S /\ S \subseteq DOMAIN p.entries
  <2>1. i \notin S /\ S \subseteq DOMAIN p.entries
    BY <1>12, <1>17, <1>5 DEF OwnEntries
  <2>2. i \notin OwnEntries(q)
    <3> SUFFICES ASSUME i \in OwnEntries(q) PROVE FALSE
      OBVIOUS
    <3>1. i \in ReadableAmount(q) /\ q.entries[i].account = Us
      BY DEF OwnEntries
    <3>2. q.entries[i].account \in {p.entries[i].account, Unread}
      BY <1>1, <3>1, SeenEntryIs
    <3> QED
      BY <1>12, <3>1, <3>2, UnreadAssumption DEF Accounts
  <2>3. \A k \in DOMAIN p.entries : k # i => (k \in OwnEntries(q) <=> k \in S)
    BY <1>5, <1>6, <1>17 DEF OwnEntries
  <2>4. OwnEntries(q) \subseteq DOMAIN p.entries
    BY <1>5 DEF OwnEntries, ReadableAmount
  <2> QED
    BY <2>1, <2>2, <2>3, <2>4
<1>19. \A k \in S : q.entries[k].native = p.entries[k].native /\ q.entries[k].native # Unread
  BY <1>6, <1>18, EntryShape
<1>20. Native(q) = Native(p)
  <2>1. [k \in S |-> q.entries[k].native] = [k \in S |-> p.entries[k].native]
    BY <1>19
  <2> QED
    BY <1>17, <1>18, <2>1 DEF Native
<1>21. NativeKnown(q) = Native(p)
  <2>1. {k \in OwnEntries(q) : q.entries[k].native # Unread} = S
    BY <1>18, <1>19
  <2>2. [k \in S |-> q.entries[k].native] = [k \in S |-> p.entries[k].native]
    BY <1>19
  <2> QED
    BY <1>17, <2>1, <2>2 DEF Native, NativeKnown
<1>22. SolDelta(q) = SolDelta(p)
  BY <1>3, <1>15, <1>16, <1>20 DEF SolDelta
<1> QED
  BY <1>14, <1>21, <1>22 DEF Uninvolved

-----------------------------------------------------------------------------
(* The theorem.                                                            *)

\* A trade was evaluated at no rate, or at the minute's.
LEMMA TradeWasEvaluated ==
    ASSUME NEW p, NEW usd \in Nat, Classify(p, usd).outcome = "trade"
    PROVE  \E r \in Nat : EvaluateSwap(p, r).outcome = "trade"
<1>1. EvaluateSwap(p, 0).outcome = "trade" \/ EvaluateSwap(p, usd).outcome = "trade"
  BY DEF Classify, Says
<1>2. 0 \in Nat
  OBVIOUS
<1> QED
  BY <1>1, <1>2

LEMMA ParseErrorIs ==
    /\ ParseErrorFor("malformed") # "none"
    /\ ParseErrorFor("sol_leg_is_residue") # "none"
  BY DEF ParseErrorFor

\* UnreadIsRefused, of any transactions: whatever and however many parts of one
\* cannot be read, evaluateSwap makes no trade of it that the whole of it does not
\* make, the rent it states set aside, and passes no trade over in silence while
\* anything left of it says that the wallet took part.  The legs, the dust and the
\* lamports of what was read are those of the whole: a part that is lost throws, or
\* moved nothing of ours.
THEOREM UnreadNeverMisleads == ClassifierSpec => []UnreadIsRefused
<1>1. PayloadOK => UnreadIsRefused
  <2> SUFFICES ASSUME PayloadOK PROVE UnreadIsRefused
    OBVIOUS
  <2>1. PICK p, q, usd : p = truth /\ q = seen /\ usd = minuteRate
    OBVIOUS
  <2>2. p \in Payloads /\ usd \in Nat /\ Lost(p, q) /\ (hidden <= 1 => OneLost(p, q))
    BY <2>1, ClassifierAssumption DEF PayloadOK
  <2>3. PICK was, is : was = Classify(p, usd) /\ is = Classify(q, usd)
    OBVIOUS
  <2>4. Read(q) => Follows(was, is, p, q)
    BY <2>2, <2>3, ClassifyFollows
  <2>5. ~Read(q) => is.outcome = "malformed" \/ (is.outcome = "no_token_leg" /\ NothingOurs(q) /\ Uninvolved(q))
    BY <2>2, <2>3, NotRead
  <2>6. ASSUME is.outcome = "trade"
        PROVE  SameTrade(is, was) \/ (was.outcome = "sol_leg_is_residue" /\ IdentifiableRent(q) # IdentifiableRent(p))
    <3>1. Read(q)
      BY <2>5, <2>6
    <3>2. IdentifiableRent(p) \in Int /\ IdentifiableRent(q) \in Int
      <4>1. q.entries # Unread /\ p.entries # Unread
        BY <2>2, <3>1, PayloadShape DEF Read
      <4> QED
        BY <2>2, <4>1, RentIs, NothingLost
    <3> QED
      BY <2>4, <2>6, <3>1, <3>2 DEF Follows
  <2>7. ASSUME was.outcome = "trade"
        PROVE  SameTrade(is, was) \/ ParseErrorFor(is.outcome) # "none" \/ Uninvolved(q)
    BY <2>4, <2>5, <2>7, ParseErrorIs DEF Follows
  <2>8. ASSUME was.outcome = "trade", hidden <= 1, OneMintEach(p), Native(p) # 0
        PROVE  SameTrade(is, was) \/ is.outcome = "malformed"
    <3>1. OneLost(p, q)
      BY <2>2, <2>8
    <3>2. CASE Read(q)
      <4>1. ASSUME IdentifiableRent(q) > IdentifiableRent(p), ~SolMalformed(q) PROVE FALSE
        <5>1. IdentifiableRent(q) <= IdentifiableRent(p)
          BY <2>2, <2>8, <3>1, <3>2, <4>1, RentNoMore
        <5>2. q.entries # Unread /\ p.entries # Unread
          BY <2>2, <3>2, PayloadShape DEF Read
        <5>3. IdentifiableRent(p) \in Int /\ IdentifiableRent(q) \in Int
          BY <2>2, <5>2, RentIs, NothingLost
        <5> QED
          BY <4>1, <5>1, <5>3
      <4> QED
        BY <2>4, <2>8, <3>2, <4>1 DEF Follows
    <3>3. CASE ~Read(q)
      <4>1. PICK r \in Nat : EvaluateSwap(p, r).outcome = "trade"
        BY <2>2, <2>3, <2>8, TradeWasEvaluated
      <4>2. ~(NothingOurs(q) /\ Uninvolved(q))
        BY <2>2, <2>8, <3>1, <4>1, StillInvolved
      <4> QED
        BY <2>5, <3>3, <4>2
    <3> QED
      BY <3>2, <3>3
  <2> QED
    BY <2>1, <2>3, <2>6, <2>7, <2>8 DEF UnreadIsRefused, RentWasStated
<1> QED
  BY <1>1, PayloadAlways, PTL
=============================================================================
