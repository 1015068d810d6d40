----------------------------- MODULE FoldLemmas -----------------------------
(***************************************************************************)
(* Numbers and folds, for the proofs about the components: the least       *)
(* element of a set of numbers, induction up to a number, and what a fold  *)
(* over a sequence goes through.                                           *)
(***************************************************************************)
EXTENDS SequencesExt, SequenceTheorems, FiniteSetTheorems, WellFoundedInduction, TLAPS

LEMMA LeastNumber ==
  ASSUME NEW T \in SUBSET Nat, T # {}
  PROVE  \E x \in T : \A y \in T : x <= y
<1> DEFINE R == OpToRel(<, Nat)
<1>1. PICK x \in T : \A y \in T : ~(<<y, x>> \in R)
  <2>1. IsWellFoundedOn(R, Nat) BY NatLessThanWellFounded
  <2> HIDE DEF R
  <2> QED BY <2>1, WFMin
<1>2. \A y \in T : y < x => <<y, x>> \in R BY DEF OpToRel
<1> HIDE DEF R
<1>3. ASSUME NEW y \in T PROVE x <= y
  <2>1. ~(y < x) BY <1>1, <1>2
  <2> QED BY <2>1
<1> QED BY <1>3

(* Induction up to n, for a set of numbers.                                *)
LEMMA UpTo ==
  ASSUME NEW n \in Nat, NEW S, 0 \in S, \A k \in 1..n : k - 1 \in S => k \in S
  PROVE  \A k \in 0..n : k \in S
<1> DEFINE Out == {k \in 0..n : k \notin S}
<1> SUFFICES ASSUME Out # {} PROVE FALSE OBVIOUS
<1>1. Out \in SUBSET Nat OBVIOUS
<1>2. PICK k \in Out : \A j \in Out : k <= j BY <1>1, LeastNumber
<1>3. k \in 1..n /\ k - 1 \in 0..n /\ k - 1 \notin Out BY <1>2
<1> QED BY <1>3

LEMMA MinIs ==
  ASSUME NEW T \in SUBSET Nat, T # {}
  PROVE  Min(T) \in T /\ \A y \in T : Min(T) <= y
BY LeastNumber DEF Min

LEMMA MaxIs ==
  ASSUME NEW n \in Nat, NEW S \in SUBSET (0..n), S # {}
  PROVE  Max(S) \in S /\ \A k \in S : k <= Max(S)
<1> DEFINE Gaps == {n - k : k \in S}
<1>1. Gaps \in SUBSET Nat /\ Gaps # {}
  <2>1. \A k \in S : k \in 0..n OBVIOUS
  <2>2. \A k \in S : n - k \in Nat BY <2>1
  <2> QED BY <2>2
<1>2. PICK x \in Gaps : \A y \in Gaps : x <= y BY <1>1, LeastNumber
<1>3. PICK k \in S : x = n - k BY <1>2
<1>4. \A j \in S : j \in Int /\ n - j \in Gaps /\ k \in Int OBVIOUS
<1>5. \A j \in S : k >= j BY <1>2, <1>3, <1>4
<1>6. \E m \in S : \A j \in S : m >= j BY <1>3, <1>5
<1>7. Max(S) \in S /\ \A j \in S : Max(S) >= j BY <1>6 DEF Max
<1> QED BY <1>7, <1>4

LEMMA MaxUpTo ==
  ASSUME NEW n \in Nat, NEW S \in SUBSET (1..n), n \in S
  PROVE  Max(S) = n
<1>1. S \in SUBSET (0..n) /\ S # {} OBVIOUS
<1>2. Max(S) \in S /\ n <= Max(S) BY <1>1, MaxIs
<1>3. Max(S) \in 1..n BY <1>2
<1> QED BY <1>2, <1>3

(* The recursion of a fold over the places of q, in values of T.           *)
Folded(g, T, t, F, q) ==
  /\ g \in [SUBSET DOMAIN q -> T]
  /\ \A S \in SUBSET DOMAIN q :
       g[S] = IF S = {} THEN t ELSE F[g[S \ {Max(S)}]][q[Max(S)]]

(* The same, of a function g whose other values are not known.             *)
Folds(g, T, F, q) ==
  /\ g[{}] \in T
  /\ \A S \in SUBSET DOMAIN q :
       S # {} /\ g[S \ {Max(S)}] \in T => g[S] = F[g[S \ {Max(S)}]][q[Max(S)]]

(* h has the values a fold goes through.                                   *)
Through(h, g, T, F, q) ==
  /\ h \in [0..Len(q) -> T]
  /\ h[0] = g[{}] /\ h[Len(q)] = g[DOMAIN q]
  /\ \A k \in 1..Len(q) : h[k] = F[h[k - 1]][q[k]]

LEMMA FoldExists ==
  ASSUME NEW T, NEW D, NEW F \in [T -> [D -> T]], NEW t \in T, NEW q \in Seq(D)
  PROVE  \E g : Folded(g, T, t, F, q)
<1> DEFINE n == Len(q)
           Eq(g, k) == \A S \in SUBSET (1..k) :
                         g[S] = IF S = {} THEN t ELSE F[g[S \ {Max(S)}]][q[Max(S)]]
           Has(k) == \E g \in [SUBSET (1..k) -> T] : Eq(g, k)
           Ok == {k \in 0..n : Has(k)}
<1>1. n \in Nat /\ DOMAIN q = 1..n /\ \A i \in 1..n : q[i] \in D BY LenProperties, ElementOfSeq
<1>f. ASSUME NEW u \in T, NEW d \in D PROVE F[u][d] \in T
  <2>1. F[u] \in [D -> T] OBVIOUS
  <2> QED BY <2>1
<1>2. 0 \in Ok
  <2> DEFINE e == [S \in SUBSET (1..0) |-> t]
  <2>1. e \in [SUBSET (1..0) -> T] OBVIOUS
  <2>2. \A S \in SUBSET (1..0) : S = {} /\ e[S] = t OBVIOUS
  <2> HIDE DEF e
  <2>3. Eq(e, 0) BY <2>2
  <2>4. Has(0)
    <3> HIDE DEF Eq
    <3> QED BY <2>1, <2>3
  <2> HIDE DEF Has
  <2> QED BY <1>1, <2>4
<1>3. ASSUME NEW k \in 1..n, k - 1 \in Ok PROVE k \in Ok
  <2>1. PICK g \in [SUBSET (1..(k - 1)) -> T] : Eq(g, k - 1)
    <3>1. \E g \in [SUBSET (1..(k - 1)) -> T] : Eq(g, k - 1)
      <4>1. Has(k - 1)
        <5> HIDE DEF Has
        <5> QED BY <1>3
      <4> QED BY <4>1
    <3> HIDE DEF Eq
    <3> QED BY <3>1
  <2> DEFINE e == [S \in SUBSET (1..k) |-> IF k \in S THEN F[g[S \ {k}]][q[k]] ELSE g[S]]
  <2>2. k \in Nat /\ q[k] \in D BY <1>1
  <2>3. \A S \in SUBSET (1..k) : /\ S \ {k} \in SUBSET (1..(k - 1))
                                 /\ k \notin S => S \in SUBSET (1..(k - 1))
    <3> TAKE S \in SUBSET (1..k)
    <3>1. \A i \in S : i \in 1..k /\ (i # k => i \in 1..(k - 1)) BY <2>2
    <3> QED BY <3>1
  <2>4. ASSUME NEW S \in SUBSET (1..k) PROVE F[g[S \ {k}]][q[k]] \in T
    <3>1. g[S \ {k}] \in T BY <2>3
    <3> QED BY <1>f, <2>2, <3>1
  <2>5. e \in [SUBSET (1..k) -> T] BY <2>3, <2>4
  <2>6. ASSUME NEW S \in SUBSET (1..k)
        PROVE  e[S] = IF S = {} THEN t ELSE F[e[S \ {Max(S)}]][q[Max(S)]]
    <3>1. CASE k \in S
      <4>1. Max(S) = k BY <2>2, <3>1, MaxUpTo
      <4>2. e[S \ {k}] = g[S \ {k}] BY <2>3
      <4> QED BY <3>1, <4>1, <4>2
    <3>2. CASE k \notin S
      <4>1. S \in SUBSET (1..(k - 1)) BY <2>3, <3>2
      <4>2. e[S] = g[S] BY <3>2
      <4>3. S # {} => S \ {Max(S)} \in SUBSET (1..(k - 1)) /\ k \notin S \ {Max(S)}
        <5>1. k \notin 1..(k - 1) BY <2>2
        <5> QED BY <4>1, <5>1
      <4>4. S # {} => e[S \ {Max(S)}] = g[S \ {Max(S)}]
        <5>1. S \ {Max(S)} \in SUBSET (1..k) OBVIOUS
        <5> QED BY <4>3, <5>1
      <4> QED BY <2>1, <4>1, <4>2, <4>4
    <3> QED BY <3>1, <3>2
  <2> HIDE DEF e
  <2>7. Eq(e, k) BY <2>6
  <2>8. Has(k)
    <3> HIDE DEF Eq
    <3> QED BY <2>5, <2>7
  <2> HIDE DEF Has
  <2> QED BY <2>8
<1>4. n \in Ok
  <2> HIDE DEF Ok, n
  <2>1. n \in Nat /\ \A k \in 1..n : k - 1 \in Ok => k \in Ok BY <1>1, <1>3
  <2>2. \A k \in 0..n : k \in Ok BY <1>2, <2>1, UpTo
  <2> QED BY <2>1, <2>2
<1>5. PICK g \in [SUBSET (1..n) -> T] : Eq(g, n)
  <2>1. \E g \in [SUBSET (1..n) -> T] : Eq(g, n)
    <3>1. Has(n)
      <4> HIDE DEF Has
      <4> QED BY <1>4
    <3> QED BY <3>1
  <2> HIDE DEF Eq
  <2> QED BY <2>1
<1>6. Folded(g, T, t, F, q) BY <1>1, <1>5 DEF Folded
<1> QED BY <1>6

(* The values that a fold goes through.                                    *)
LEMMA FoldSteps ==
  ASSUME NEW T, NEW D, NEW F \in [T -> [D -> T]], NEW q \in Seq(D), NEW g, Folds(g, T, F, q)
  PROVE  \E h : Through(h, g, T, F, q)
<1> DEFINE n == Len(q)
           h == [k \in 0..n |-> g[1..k]]
           Ok == {k \in 0..n : g[1..k] \in T}
<1>1. n \in Nat /\ DOMAIN q = 1..n /\ \A i \in 1..n : q[i] \in D BY LenProperties, ElementOfSeq
<1>2. 1..0 = {} OBVIOUS
<1>f. ASSUME NEW u \in T, NEW d \in D PROVE F[u][d] \in T
  <2>1. F[u] \in [D -> T] OBVIOUS
  <2> QED BY <2>1
<1>3. ASSUME NEW k \in 1..n, g[1..(k - 1)] \in T PROVE g[1..k] = F[g[1..(k - 1)]][q[k]]
  <2>0. n \in Int /\ k \in Int /\ 1 <= k /\ k <= n BY <1>1
  <2>a. \A i \in 1..k : i \in 1..n BY <2>0
  <2>b. k \in Nat /\ k \in 1..k BY <2>0
  <2>c. 1..k \in SUBSET DOMAIN q
    <3> DEFINE K == 1..k
    <3>1. \A i \in K : i \in DOMAIN q BY <1>1, <2>a
    <3> HIDE DEF K
    <3>2. K \in SUBSET DOMAIN q BY <3>1
    <3> QED BY <3>2 DEF K
  <2>1. k \in Nat /\ 1..k \in SUBSET DOMAIN q /\ 1..k # {} /\ k \in 1..k BY <2>b, <2>c
  <2>2. Max(1..k) = k BY <2>1, MaxUpTo
  <2>m. g[(1..k) \ {k}] \in T => g[1..k] = F[g[(1..k) \ {k}]][q[k]] BY <2>1, <2>2 DEF Folds
  <2>3. (1..k) \ {k} = 1..(k - 1)
    <3>1. \A i \in Int : i \in 1..k /\ i # k <=> i \in 1..(k - 1) BY <2>1
    <3> QED BY <3>1
  <2> QED BY <1>3, <2>m, <2>3
<1>4. ASSUME NEW k \in 1..n, k - 1 \in Ok PROVE k \in Ok
  <2>1. k - 1 \in 0..n /\ g[1..(k - 1)] \in T BY <1>4
  <2>2. g[1..k] = F[g[1..(k - 1)]][q[k]] /\ q[k] \in D BY <1>1, <1>3, <2>1
  <2> QED BY <1>f, <2>1, <2>2
<1>5. \A k \in 0..n : k \in Ok
  <2>1. 0 \in Ok BY <1>1, <1>2 DEF Folds
  <2> HIDE DEF Ok
  <2> QED BY <1>1, <1>4, <2>1, UpTo
<1>6. h \in [0..n -> T] BY <1>5
<1>7. h[0] = g[{}] /\ h[n] = g[DOMAIN q] BY <1>1, <1>2
<1>8. \A k \in 1..n : h[k] = F[h[k - 1]][q[k]] BY <1>1, <1>3, <1>5
<1>9. Through(h, g, T, F, q) BY <1>6, <1>7, <1>8 DEF Through
<1> QED BY <1>9

(* Induction down from n, for a set of numbers.                            *)
LEMMA DownFrom ==
  ASSUME NEW n \in Nat, NEW S, \A i \in 1..n : (\A j \in (i + 1)..n : j \in S) => i \in S
  PROVE  \A i \in 1..n : i \in S
<1> DEFINE Out == {i \in 1..n : i \notin S}
<1> SUFFICES ASSUME Out # {} PROVE FALSE OBVIOUS
<1>1. Out \in SUBSET (0..n) OBVIOUS
<1>2. Max(Out) \in Out /\ \A k \in Out : k <= Max(Out) BY <1>1, MaxIs
<1> DEFINE m == Max(Out)
<1>3. m \in 1..n /\ m \notin S /\ \A k \in Out : k <= m BY <1>2
<1> HIDE DEF m
<1>4. \A j \in (m + 1)..n : j \in 1..n /\ ~(j <= m) BY <1>3
<1>5. \A j \in (m + 1)..n : j \in S BY <1>3, <1>4
<1> QED BY <1>3, <1>5

(* A function of 1..n whose value at a place depends on those above it.    *)
DependsAbove(n, V, H) ==
  \A i \in 1..n : \A f, g \in [1..n -> V] :
    (\A j \in (i + 1)..n : f[j] = g[j]) => H[i][f] = H[i][g]

Descends(f, n, V, H) == f \in [1..n -> V] /\ \A i \in 1..n : f[i] = H[i][f]

LEMMA DownExists ==
  ASSUME NEW n \in Nat, NEW V, V # {}, NEW H \in [1..n -> [[1..n -> V] -> V]],
         DependsAbove(n, V, H)
  PROVE  \E f : Descends(f, n, V, H)
<1> DEFINE Has(k) == \E f \in [1..n -> V] : \A i \in 1..n : i > n - k => f[i] = H[i][f]
           Ok == {k \in 0..n : Has(k)}
<1>1. 0 \in Ok
  <2>1. PICK v \in V : TRUE OBVIOUS
  <2>2. [i \in 1..n |-> v] \in [1..n -> V] /\ \A i \in 1..n : ~(i > n - 0) OBVIOUS
  <2>3. Has(0) BY <2>2
  <2> HIDE DEF Has
  <2> QED BY <2>3
<1>2. ASSUME NEW k \in 1..n, k - 1 \in Ok PROVE k \in Ok
  <2>1. Has(k - 1) BY <1>2
  <2>2. PICK f \in [1..n -> V] : \A i \in 1..n : i > n - (k - 1) => f[i] = H[i][f]
    BY <2>1
  <2> DEFINE m == n - k + 1
             e == [f EXCEPT ![m] = H[m][f]]
  <2>3. m \in 1..n /\ \A i \in 1..n : (i > n - (k - 1) <=> i > m) /\ (i > n - k => i = m \/ i > m)
    OBVIOUS
  <2> HIDE DEF m
  <2>4. H[m][f] \in V /\ e \in [1..n -> V] BY <2>3
  <2>5. e[m] = H[m][f] /\ \A j \in 1..n : j # m => e[j] = f[j] BY <2>3
  <2> HIDE DEF e
  <2>6. ASSUME NEW i \in 1..n, i = m \/ i > m PROVE e[i] = H[i][e]
    <3>1. \A j \in (i + 1)..n : j \in 1..n /\ j # m BY <2>3, <2>6
    <3>2. \A j \in (i + 1)..n : e[j] = f[j] BY <2>5, <3>1
    <3>3. H[i][e] = H[i][f] BY <2>4, <3>2 DEF DependsAbove
    <3>4. e[i] = H[i][f]
      <4>1. CASE i = m BY <2>5, <4>1
      <4>2. CASE i # m BY <2>2, <2>3, <2>5, <2>6, <4>2
      <4> QED BY <4>1, <4>2
    <3> QED BY <3>3, <3>4
  <2>7. \A i \in 1..n : i > n - k => e[i] = H[i][e] BY <2>3, <2>6
  <2>8. Has(k) BY <2>4, <2>7
  <2> HIDE DEF Has
  <2> QED BY <2>8
<1>3. n \in Ok
  <2> HIDE DEF Ok
  <2>1. \A k \in 0..n : k \in Ok BY <1>1, <1>2, UpTo
  <2> QED BY <2>1
<1>4. Has(n) BY <1>3
<1>5. PICK f \in [1..n -> V] : \A i \in 1..n : i > n - n => f[i] = H[i][f] BY <1>4
<1>6. Descends(f, n, V, H) BY <1>5 DEF Descends
<1> QED BY <1>6
=============================================================================
