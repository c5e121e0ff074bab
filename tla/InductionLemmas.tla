--------------------------- MODULE InductionLemmas ---------------------------
(***************************************************************************)
(* Induction over the natural numbers in a form the provers can apply, and *)
(* what it says of sums.  The induction theorems of the library take the   *)
(* property to be proved as an operator; here it is a set of numbers, and  *)
(* the principle follows from the well-foundedness of < on Nat.            *)
(***************************************************************************)
EXTENDS Integers, FiniteSetsExt, WellFoundedInduction, TLAPS

\* Every non-empty set of natural numbers has a least element.
LEMMA LeastNatural ==
    ASSUME NEW S \in SUBSET Nat, S # {}
    PROVE  \E m \in S : \A k \in S : m <= k
<1> DEFINE R == {ss \in Nat \X Nat : ss[1] < ss[2]}
<1>1. IsWellFoundedOn(R, Nat)
  BY NatLessThanWellFounded DEF OpToRel
<1>2. PICK x \in S : \A y \in S : ~ (<<y, x>> \in R)
  <2> HIDE DEF R
  <2> QED
    BY <1>1, WFMin
<1>3. \A y \in S : ~ (y < x)
  BY <1>2
<1> QED
  BY <1>3

\* A set with 0 and the successor of each of its numbers has all numbers.
LEMMA InductionOnNat ==
    ASSUME NEW S, 0 \in S, \A n \in Nat : n \in S => n + 1 \in S
    PROVE  Nat \subseteq S
<1> SUFFICES ASSUME ~ (Nat \subseteq S) PROVE FALSE
  OBVIOUS
<1> DEFINE T == Nat \ S
<1>1. PICK m \in T : \A k \in T : m <= k
  <2>1. T \subseteq Nat /\ T # {}
    OBVIOUS
  <2> HIDE DEF T
  <2> QED
    BY <2>1, LeastNatural
<1>2. m \in Nat \ {0}
  OBVIOUS
<1>3. m - 1 \in S
  BY <1>1, <1>2
<1> QED
  BY <1>2, <1>3

\* The same up to a bound.
LEMMA InductionUpTo ==
    ASSUME NEW n \in Nat, NEW S, 0 \in S, \A i \in 0 .. n - 1 : i \in S => i + 1 \in S
    PROVE  \A i \in 0 .. n : i \in S
<1> DEFINE T == {i \in Nat : i <= n => i \in S}
<1>1. 0 \in T /\ \A i \in Nat : i \in T => i + 1 \in T
  OBVIOUS
<1>2. Nat \subseteq T
  <2> HIDE DEF T
  <2> QED
    BY <1>1, InductionOnNat
<1> QED
  BY <1>2

-----------------------------------------------------------------------------
(* Sums *)

\* f[i] is the sum of d[0] to d[i - 1], for i up to n.
SumsUp(f, d, n) == f = [i \in 0 .. n |-> IF i = 0 THEN 0 ELSE f[i - 1] + d[i - 1]]

\* The recursion defines a function: there is one that satisfies it.
LEMMA SumsExist ==
    ASSUME NEW n \in Nat, NEW d, \A i \in 0 .. n - 1 : d[i] \in Int
    PROVE  \E f : SumsUp(f, d, n)
<1> DEFINE S == {m \in 0 .. n : \E f \in [0 .. m -> Int] : SumsUp(f, d, m)}
<1>1. 0 \in S
  <2> DEFINE f == [i \in 0 .. 0 |-> 0]
  <2>1. f \in [0 .. 0 -> Int] /\ SumsUp(f, d, 0)
    BY DEF SumsUp
  <2> QED
    BY <2>1
<1>2. ASSUME NEW m \in 0 .. n - 1, m \in S PROVE m + 1 \in S
  <2>1. PICK f \in [0 .. m -> Int] : SumsUp(f, d, m)
    BY <1>2
  <2>2. f[m] \in Int /\ d[m] \in Int
    OBVIOUS
  <2> DEFINE g == [i \in 0 .. m + 1 |-> IF i <= m THEN f[i] ELSE f[m] + d[m]]
  <2>3. g \in [0 .. m + 1 -> Int]
    BY <2>2
  <2>4. \A i \in 0 .. m + 1 : g[i] = IF i = 0 THEN 0 ELSE g[i - 1] + d[i - 1]
    <3> TAKE i \in 0 .. m + 1
    <3>1. CASE i \in 0 .. m
      BY <2>1, <3>1 DEF SumsUp
    <3>2. CASE i = m + 1
      BY <3>2
    <3> QED
      BY <3>1, <3>2
  <2> HIDE DEF g
  <2>5. SumsUp(g, d, m + 1)
    BY <2>3, <2>4 DEF SumsUp
  <2> QED
    BY <2>3, <2>5
<1>3. n \in S
  <2> HIDE DEF S
  <2> QED
    BY <1>1, <1>2, InductionUpTo
<1> QED
  BY <1>3

\* Sums of natural numbers are natural numbers.
LEMMA SumsType ==
    ASSUME NEW n \in Nat, NEW d, \A i \in 0 .. n - 1 : d[i] \in Nat, NEW f, SumsUp(f, d, n)
    PROVE  \A i \in 0 .. n : f[i] \in Nat
<1> DEFINE S == {m \in 0 .. n : f[m] \in Nat}
<1>1. 0 \in S /\ \A m \in 0 .. n - 1 : m \in S => m + 1 \in S
  BY DEF SumsUp
<1> HIDE DEF S
<1>2. \A m \in 0 .. n : m \in S
  BY <1>1, InductionUpTo
<1> QED
  BY <1>2 DEF S

\* d2 is d but for the number at k.
ChangedAt(d2, d, k, n) ==
    \A i \in 0 .. n - 1 : /\ d[i] \in Nat /\ d2[i] \in Nat
                          /\ i # k => d2[i] = d[i]

\* When one number changes the sum changes by as much.
LEMMA SumsChange ==
    ASSUME NEW n \in Nat, NEW d, NEW d2, NEW f, NEW g, NEW k \in 0 .. n - 1,
           ChangedAt(d2, d, k, n), SumsUp(f, d, n), SumsUp(g, d2, n)
    PROVE  g[n] = f[n] + d2[k] - d[k]
<1> USE DEF ChangedAt
<1>1. \A i \in 0 .. n : f[i] \in Nat /\ g[i] \in Nat
  BY SumsType
<1> DEFINE S == {m \in 0 .. n : g[m] = f[m] + (IF m > k THEN d2[k] - d[k] ELSE 0)}
<1>2. 0 \in S
  BY DEF SumsUp
<1>3. ASSUME NEW m \in 0 .. n - 1, m \in S PROVE m + 1 \in S
  <2>1. f[m + 1] = f[m] + d[m] /\ g[m + 1] = g[m] + d2[m]
    BY DEF SumsUp
  <2> QED
    BY <1>1, <1>3, <2>1
<1> HIDE DEF S
<1>4. \A m \in 0 .. n - 1 : m \in S => m + 1 \in S
  BY <1>3
<1>5. n \in S
  <2>1. \A m \in 0 .. n : m \in S
    BY ONLY <1>2, <1>4, n \in Nat, InductionUpTo
  <2> QED
    BY <2>1
<1> QED
  BY <1>1, <1>5 DEF S

\* The same numbers have the same sum.
LEMMA SumsSame ==
    ASSUME NEW n \in Nat, NEW d, NEW d2, NEW f, NEW g,
           \A i \in 0 .. n - 1 : d[i] \in Nat /\ d2[i] = d[i],
           SumsUp(f, d, n), SumsUp(g, d2, n)
    PROVE  g[n] = f[n]
<1>1. \A i \in 0 .. n : f[i] \in Nat /\ g[i] \in Nat
  BY SumsType
<1> DEFINE S == {m \in 0 .. n : g[m] = f[m]}
<1>2. 0 \in S /\ \A m \in 0 .. n - 1 : m \in S => m + 1 \in S
  BY <1>1 DEF SumsUp
<1> HIDE DEF S
<1>3. n \in S
  BY <1>2, InductionUpTo, SMTT(30)
<1> QED
  BY <1>3 DEF S

\* Numbers that are zero have the sum zero.
LEMMA SumsZero ==
    ASSUME NEW n \in Nat, NEW d, \A i \in 0 .. n - 1 : d[i] = 0, NEW f, SumsUp(f, d, n)
    PROVE  f[n] = 0
<1> DEFINE S == {m \in 0 .. n : f[m] = 0}
<1>1. 0 \in S /\ \A m \in 0 .. n - 1 : m \in S => m + 1 \in S
  BY DEF SumsUp
<1> HIDE DEF S
<1>2. n \in S
  BY <1>1, InductionUpTo
<1> QED
  BY <1>2 DEF S

\* A sum is not smaller than any of its numbers.
LEMMA SumsBound ==
    ASSUME NEW n \in Nat, NEW d, \A i \in 0 .. n - 1 : d[i] \in Nat, NEW f, SumsUp(f, d, n),
           NEW k \in 0 .. n - 1
    PROVE  d[k] <= f[n]
<1>1. \A i \in 0 .. n : f[i] \in Nat
  BY SumsType
<1> DEFINE S == {m \in 0 .. n : m > k => d[k] <= f[m]}
<1>2. 0 \in S
  OBVIOUS
<1>3. ASSUME NEW m \in 0 .. n - 1, m \in S PROVE m + 1 \in S
  <2>1. f[m + 1] = f[m] + d[m]
    BY DEF SumsUp
  <2> QED
    BY <1>1, <1>3, <2>1
<1> HIDE DEF S
<1>4. n \in S
  BY <1>2, <1>3, InductionUpTo, SMTT(30)
<1> QED
  BY <1>4 DEF S

-----------------------------------------------------------------------------
(* Folds over sequences *)

\* The greatest number of a non-empty set of numbers from 1 to n is one of them.
LEMMA MaxOfNumbers ==
    ASSUME NEW n \in Nat, NEW S \in SUBSET (1 .. n), S # {}
    PROVE  Max(S) \in S /\ \A y \in S : Max(S) >= y
<1> DEFINE T == {n - y : y \in S}
<1>1. T \in SUBSET Nat /\ T # {}
  <2>1. PICK x \in S : TRUE
    OBVIOUS
  <2>2. n - x \in T
    BY <2>1
  <2>3. \A y \in S : n - y \in Nat
    OBVIOUS
  <2> QED
    BY <2>2, <2>3
<1> HIDE DEF T
<1>2. PICK m \in T : \A k \in T : m <= k
  BY <1>1, LeastNatural
<1>3. \E x \in S : \A y \in S : x >= y
  BY <1>2 DEF T
<1> QED
  BY <1>3 DEF Max

LEMMA MaxOfInterval ==
    ASSUME NEW k \in Nat \ {0}
    PROVE  Max(1 .. k) = k /\ (1 .. k) \ {k} = 1 .. k - 1
<1> DEFINE S == 1 .. k
<1>1. k \in Nat /\ S \in SUBSET (1 .. k) /\ S # {} /\ k \in S
  OBVIOUS
<1> HIDE DEF S
<1>2. Max(S) \in S /\ \A y \in S : Max(S) >= y
  BY ONLY <1>1, MaxOfNumbers
<1>3. Max(S) >= k /\ Max(S) \in 1 .. k
  BY <1>1, <1>2 DEF S
<1>4. Max(S) = k
  BY <1>3
<1> QED
  BY <1>4 DEF S

\* g folds the step `st' over the sets of numbers up to n, the greatest last.
FoldsOver(g, n, base, st) ==
    g = [s \in SUBSET (1 .. n) |-> IF s = {} THEN base ELSE st[<<Max(s), g[s \ {Max(s)}]>>]]

\* The recursion of a fold defines a function.
LEMMA FoldExists ==
    ASSUME NEW n \in Nat, NEW A, NEW base \in A, NEW st \in [(1 .. n) \X A -> A]
    PROVE  \E g \in [SUBSET (1 .. n) -> A] : FoldsOver(g, n, base, st)
<1> DEFINE S == {m \in 0 .. n : \E g \in [SUBSET (1 .. m) -> A] : FoldsOver(g, m, base, st)}
<1>1. 0 \in S
  <2> DEFINE g == [s \in SUBSET (1 .. 0) |-> base]
  <2>1. g \in [SUBSET (1 .. 0) -> A]
    OBVIOUS
  <2>2. \A s \in SUBSET (1 .. 0) : s = {}
    OBVIOUS
  <2>3. FoldsOver(g, 0, base, st)
    BY <2>2 DEF FoldsOver
  <2> QED
    BY <2>1, <2>3
<1>2. ASSUME NEW m \in 0 .. n - 1, m \in S PROVE m + 1 \in S
  <2>1. PICK g \in [SUBSET (1 .. m) -> A] : FoldsOver(g, m, base, st)
    BY <1>2
  <2> DEFINE g2 == [s \in SUBSET (1 .. m + 1) |->
                        IF s \subseteq 1 .. m THEN g[s] ELSE st[<<m + 1, g[s \ {m + 1}]>>]]
  <2>2. m + 1 \in 1 .. n /\ \A s \in SUBSET (1 .. m + 1) : s \ {m + 1} \in SUBSET (1 .. m)
    OBVIOUS
  <2>3. g2 \in [SUBSET (1 .. m + 1) -> A]
    BY <2>2
  <2>4. ASSUME NEW s \in SUBSET (1 .. m + 1)
        PROVE  g2[s] = IF s = {} THEN base ELSE st[<<Max(s), g2[s \ {Max(s)}]>>]
    <3>1. CASE s = {}
      BY <2>1, <3>1 DEF FoldsOver
    <3>2. CASE s # {} /\ s \subseteq 1 .. m
      <4>1. s \ {Max(s)} \subseteq 1 .. m
        BY <3>2
      <4>2. g2[s] = g[s] /\ g2[s \ {Max(s)}] = g[s \ {Max(s)}]
        BY <3>2, <4>1
      <4> QED
        BY <2>1, <3>2, <4>2 DEF FoldsOver
    <3>3. CASE ~(s \subseteq 1 .. m)
      <4>1. m + 1 \in s /\ s # {}
        BY <3>3
      <4>2. Max(s) = m + 1
        <5>1. m + 1 \in Nat
          OBVIOUS
        <5>2. Max(s) \in s /\ \A y \in s : Max(s) >= y
          BY ONLY <4>1, <5>1, s \in SUBSET (1 .. m + 1), MaxOfNumbers
        <5>3. Max(s) >= m + 1 /\ Max(s) \in 1 .. m + 1
          BY <4>1, <5>2
        <5> QED
          BY <5>3
      <4>3. g2[s \ {m + 1}] = g[s \ {m + 1}]
        BY <2>2
      <4> QED
        BY <3>3, <4>1, <4>2, <4>3
    <3> QED
      BY <3>1, <3>2, <3>3
  <2> HIDE DEF g2
  <2>5. FoldsOver(g2, m + 1, base, st)
    BY <2>3, <2>4 DEF FoldsOver
  <2> QED
    BY <2>3, <2>5
<1>3. n \in S
  <2> HIDE DEF S
  <2> QED
    BY <1>1, <1>2, InductionUpTo
<1> QED
  BY <1>3

\* h has the intermediate results of folding `st' over the numbers from 1 to n.
StepsUpTo(h, n, base, st) == h[0] = base /\ \A i \in 1 .. n : h[i] = st[<<i, h[i - 1]>>]

\* What a fold over a sequence comes to, one element after the other.
LEMMA FoldSteps ==
    ASSUME NEW n \in Nat, NEW A, NEW base, NEW st,
           NEW g \in [SUBSET (1 .. n) -> A], FoldsOver(g, n, base, st)
    PROVE  \E h \in [0 .. n -> A] : h[n] = g[1 .. n] /\ StepsUpTo(h, n, base, st)
<1> DEFINE h == [i \in 0 .. n |-> g[1 .. i]]
<1>1. h \in [0 .. n -> A]
  OBVIOUS
<1>2. h[0] = base
  <2>1. 1 .. 0 = {}
    OBVIOUS
  <2> QED
    BY <2>1 DEF FoldsOver
<1>3. \A i \in 1 .. n : h[i] = st[<<i, h[i - 1]>>]
  <2> TAKE i \in 1 .. n
  <2>1. Max(1 .. i) = i /\ (1 .. i) \ {i} = 1 .. i - 1
    BY MaxOfInterval
  <2>2. 1 .. i \in SUBSET (1 .. n) /\ 1 .. i # {}
    OBVIOUS
  <2>3. g[1 .. i] = st[<<Max(1 .. i), g[(1 .. i) \ {Max(1 .. i)}]>>]
    BY ONLY <2>2, FoldsOver(g, n, base, st) DEF FoldsOver
  <2>4. g[1 .. i] = st[<<i, g[1 .. i - 1]>>]
    BY <2>1, <2>3
  <2>5. i \in 0 .. n /\ i - 1 \in 0 .. n
    OBVIOUS
  <2>6. h[i] = g[1 .. i] /\ h[i - 1] = g[1 .. i - 1]
    BY ONLY <2>5
  <2> QED
    BY <2>4, <2>6
<1>4. h[n] = g[1 .. n]
  OBVIOUS
<1> HIDE DEF h
<1> QED
  BY <1>1, <1>2, <1>3, <1>4 DEF StepsUpTo

-----------------------------------------------------------------------------
(* Remainders *)

LEMMA RemainderUnique ==
    ASSUME NEW M \in Nat \ {0}, NEW q \in Int, NEW p \in Int,
           NEW r \in 0 .. M - 1, NEW s \in 0 .. M - 1, M * q + r = M * p + s
    PROVE  r = s
<1>1. CASE q = p
  BY <1>1
<1>2. CASE q > p
  <2>1. M * (q - p) = s - r /\ M * (q - p) >= M
    BY <1>2
  <2> QED
    BY <2>1
<1>3. CASE q < p
  <2>1. M * (p - q) = r - s /\ M * (p - q) >= M
    BY <1>3
  <2> QED
    BY <2>1
<1> QED
  BY <1>1, <1>2, <1>3

LEMMA RemainderIs ==
    ASSUME NEW M \in Nat \ {0}, NEW k \in Int, NEW r \in 0 .. M - 1, NEW b \in Int, b = M * k + r
    PROVE  b % M = r
<1>1. b % M \in 0 .. M - 1 /\ b = M * (b \div M) + (b % M)
  OBVIOUS
<1>2. M * k + r = M * (b \div M) + (b % M) /\ b \div M \in Int
  BY <1>1
<1> HIDE <1>1
<1> QED
  BY <1>1, <1>2, RemainderUnique
=============================================================================
