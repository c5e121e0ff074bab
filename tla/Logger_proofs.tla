---------------------------- MODULE Logger_proofs ----------------------------
(***************************************************************************)
(* Proofs about the logger and the memory region it lives in: both rings   *)
(* stay rings, references are counted, every block has one owner, and      *)
(* messages leave in order.                                                *)
(***************************************************************************)
EXTENDS Logger, InductionLemmas, FiniteSetTheorems, FunctionTheorems, SequenceTheorems

-----------------------------------------------------------------------------
(* Rings: c[0] is the sentinel, c[1] to c[n] are the nodes behind it, and  *)
(* c[n + 1] is the sentinel again.                                         *)

Link == [Blocks -> Blocks \cup {NoBlock}]
Links == [next : Link, prev : Link]

Cycle(c, n) ==
    /\ n \in Nat
    /\ c \in [0 .. n + 1 -> Blocks]
    /\ c[n + 1] = c[0]
    /\ \A i, k \in 0 .. n : c[i] = c[k] => i = k

RingOf(ring, c, n) ==
    /\ ring \in Links
    /\ Cycle(c, n)
    /\ \A i \in 0 .. n : ring.next[c[i]] = c[i + 1] /\ ring.prev[c[i + 1]] = c[i]

Members(c, n) == {c[i] : i \in 0 .. n}
NodesOf(c, n) == {c[i] : i \in 1 .. n}

LEMMA BlocksFinite == IsFiniteSet(Blocks) /\ Cardinality(Blocks) = NumBlocks
<1>1. NumBlocks \in Int /\ 0 \in Int /\ NumBlocks - 1 \in Int /\ NumBlocks > 0
  BY RingAssumption
<1> QED
  BY <1>1, FS_Interval DEF Blocks

LEMMA NoBlockIsNone == NoBlock \notin Blocks
BY RingAssumption DEF Blocks

\* A ring has no more members than there are blocks.
LEMMA CycleFits ==
    ASSUME NEW n, NEW c, Cycle(c, n)
    PROVE  n + 1 <= NumBlocks
<1> DEFINE f == [i \in 0 .. n |-> c[i]]
<1>1. n \in Nat /\ f \in [0 .. n -> Blocks] /\ \A i, k \in 0 .. n : f[i] = f[k] => i = k
  BY DEF Cycle
<1>2. IsFiniteSet(0 .. n) /\ Cardinality(0 .. n) = n + 1
  BY <1>1, FS_Interval
<1> HIDE DEF f
<1>3. f \in Injection(0 .. n, Blocks)
  BY <1>1, Fun_IsInj
<1> QED
  BY <1>2, <1>3, FS_Injection, BlocksFinite

LEMMA NodesAre ==
    ASSUME NEW n, NEW c, Cycle(c, n)
    PROVE  /\ NodesOf(c, n) = Members(c, n) \ {c[0]}
           /\ c[0] \in Members(c, n)
           /\ Members(c, n) \subseteq Blocks
           /\ \A i \in 1 .. n : c[i] # c[0] /\ c[i] \in Blocks
           /\ \A i \in 0 .. n + 1 : c[i] \in Members(c, n)
<1>1. n \in Nat /\ c \in [0 .. n + 1 -> Blocks] /\ 0 \in 0 .. n /\ n + 1 \in 0 .. n + 1
  BY DEF Cycle
<1>2. \A i \in 1 .. n : c[i] # c[0] /\ c[i] \in Blocks
  BY <1>1 DEF Cycle
<1>3. \A i \in 0 .. n + 1 : c[i] \in Members(c, n)
  <2>1. c[n + 1] \in Members(c, n)
    BY <1>1 DEF Cycle, Members
  <2>2. \A i \in 0 .. n : c[i] \in Members(c, n)
    BY DEF Members
  <2>3. \A i \in 0 .. n + 1 : i \in 0 .. n \/ i = n + 1
    BY <1>1
  <2> QED
    BY <2>1, <2>2, <2>3
<1>4. Members(c, n) \subseteq Blocks
  BY <1>1 DEF Members
<1>5. NodesOf(c, n) = Members(c, n) \ {c[0]}
  <2>1. \A i \in 0 .. n : i = 0 \/ i \in 1 .. n
    BY <1>1
  <2>2. \A i \in 1 .. n : i \in 0 .. n
    BY <1>1
  <2> QED
    BY <1>2, <2>1, <2>2 DEF NodesOf, Members
<1> QED
  BY <1>1, <1>2, <1>3, <1>4, <1>5

\* A ring of its sentinel alone.
LEMMA NewRingIs ==
    ASSUME NEW s \in Blocks
    PROVE  \E c : RingOf(NewRing(s), c, 0) /\ c[0] = s /\ Members(c, 0) = {s}
<1> DEFINE c == [i \in 0 .. 1 |-> s]
<1>1. c \in [0 .. 0 + 1 -> Blocks] /\ c[0] = s /\ c[1] = s
  OBVIOUS
<1> HIDE DEF c
<1>2. Cycle(c, 0)
  BY <1>1 DEF Cycle
<1>3. NewRing(s) \in Links /\ NewRing(s).next[s] = s /\ NewRing(s).prev[s] = s
  <2> DEFINE l == [NoLinks.next EXCEPT ![s] = s]
             r == [NoLinks.prev EXCEPT ![s] = s]
  <2>1. l \in Link /\ r \in Link /\ l[s] = s /\ r[s] = s
    BY DEF Link, NoLinks
  <2>2. NewRing(s) = [next |-> l, prev |-> r]
    BY DEF NewRing
  <2> HIDE DEF l, r
  <2> QED
    BY <2>1, <2>2 DEF Links
<1>4. RingOf(NewRing(s), c, 0)
  BY <1>1, <1>2, <1>3 DEF RingOf
<1>5. Members(c, 0) = {s}
  BY <1>1 DEF Members
<1> QED
  BY <1>1, <1>4, <1>5

\* c with b after the sentinel.
Longer(c, n, b) == [i \in 0 .. n + 2 |-> IF i = 0 THEN c[0] ELSE IF i = 1 THEN b ELSE c[i - 1]]

LEMMA InsertedIs ==
    ASSUME NEW ring, NEW c, NEW n, RingOf(ring, c, n), NEW b \in Blocks, b \notin Members(c, n)
    PROVE  /\ RingOf(Inserted(ring, c[0], b), Longer(c, n, b), n + 1)
           /\ Longer(c, n, b)[0] = c[0] /\ Longer(c, n, b)[1] = b
           /\ \A i \in 1 .. n : Longer(c, n, b)[i + 1] = c[i]
           /\ Members(Longer(c, n, b), n + 1) = Members(c, n) \cup {b}
<1> DEFINE e == Longer(c, n, b)
           s == c[0]
           l == [ring.next EXCEPT ![s] = b, ![b] = ring.next[s]]
           r == [ring.prev EXCEPT ![ring.next[s]] = b, ![b] = s]
<1>1. /\ ring \in Links /\ Cycle(c, n) /\ n \in Nat /\ c \in [0 .. n + 1 -> Blocks]
      /\ c[n + 1] = c[0] /\ s \in Blocks
      /\ ring.next \in Link /\ ring.prev \in Link
  BY DEF RingOf, Cycle, Links
<1>2. \A i \in 0 .. n + 1 : c[i] # b /\ c[i] \in Blocks
  BY <1>1, NodesAre
<1>3. /\ ring.next[s] = c[1]
      /\ \A i \in 0 .. n : ring.next[c[i]] = c[i + 1] /\ ring.prev[c[i + 1]] = c[i]
  BY <1>1 DEF RingOf
<1>4. /\ e[0] = s /\ e[1] = b /\ \A i \in 2 .. n + 2 : e[i] = c[i - 1]
      /\ \A i \in 0 .. n + 2 : e[i] \in Blocks
      /\ \A i \in 1 .. n : e[i + 1] = c[i]
      /\ e[n + 2] = s
  BY <1>1, <1>2 DEF Longer
<1>5. e \in [0 .. n + 2 -> Blocks]
  BY <1>4 DEF Longer
<1> HIDE DEF e
<1>6. Cycle(e, n + 1)
  <2>1. ASSUME NEW i \in 0 .. n + 1, NEW k \in 0 .. n + 1, e[i] = e[k] PROVE i = k
    <3>1. \A j \in 0 .. n + 1 : j = 0 \/ j = 1 \/ (j \in 2 .. n + 1 /\ j - 1 \in 1 .. n)
      BY <1>1
    <3>2. \A j \in 2 .. n + 1 : e[j] = c[j - 1]
      BY <1>1, <1>4
    <3>3. \A j, h \in 0 .. n : c[j] = c[h] => j = h
      BY <1>1 DEF Cycle
    <3>4. \A j \in 1 .. n : j \in 0 .. n /\ j # 0 /\ j \in 0 .. n + 1
      BY <1>1
    <3>5. 0 \in 0 .. n /\ 0 \in 0 .. n + 1
      BY <1>1
    <3>6. \A j \in 2 .. n + 1 : c[j - 1] # b /\ c[j - 1] # s
      BY <1>2, <3>1, <3>3, <3>4, <3>5
    <3>7. s # b
      BY <1>2, <3>5
    <3>8. CASE i \in 2 .. n + 1 /\ k \in 2 .. n + 1
      <4>1. i - 1 = k - 1
        BY <2>1, <3>1, <3>2, <3>3, <3>4, <3>8
      <4> QED
        BY <4>1
    <3> QED
      BY <1>4, <2>1, <3>1, <3>2, <3>6, <3>7, <3>8
  <2>2. (n + 1) + 1 = n + 2 /\ n + 1 \in Nat
    BY <1>1
  <2> QED
    BY <1>4, <1>5, <2>1, <2>2 DEF Cycle
<1>7. Inserted(ring, s, b) = [next |-> l, prev |-> r]
  BY DEF Inserted
<1>8. /\ l \in Link /\ r \in Link /\ l[b] = c[1] /\ l[s] = b /\ r[b] = s /\ r[c[1]] = b
      /\ \A x \in Blocks : x # s /\ x # b => l[x] = ring.next[x]
      /\ \A x \in Blocks : x # c[1] /\ x # b => r[x] = ring.prev[x]
  <2>1. c[1] \in Blocks /\ c[1] # b /\ s # b
    BY <1>1, <1>2
  <2> QED
    BY <1>1, <1>3, <2>1 DEF Link
<1> HIDE DEF l, r
<1>9. \A i \in 0 .. n + 1 : l[e[i]] = e[i + 1] /\ r[e[i + 1]] = e[i]
  <2>1. ASSUME NEW i \in 2 .. n + 1 PROVE l[e[i]] = e[i + 1] /\ r[e[i + 1]] = e[i]
    <3>1. /\ i - 1 \in 1 .. n /\ e[i] = c[i - 1] /\ e[i + 1] = c[i] /\ i \in 1 .. n + 1
          /\ i - 1 \in 0 .. n /\ i \in 0 .. n + 1 /\ (i - 1) + 1 = i
      <4>1. e[i + 1] = c[(i + 1) - 1] /\ (i + 1) - 1 = i
        BY <1>1, <1>4
      <4>2. e[i] = c[i - 1]
        BY <1>1, <1>4
      <4> QED
        BY <1>1, <4>1, <4>2
    <3>2. \A j, h \in 0 .. n : c[j] = c[h] => j = h
      BY <1>1 DEF Cycle
    <3>3. c[i - 1] # s /\ c[i - 1] # b /\ c[i - 1] \in Blocks
      BY <1>1, <1>2, <3>1, <3>2
    <3>4. c[i] # c[1]
      <4>1. CASE i = n + 1
        BY <1>1, <3>1, <3>2, <4>1
      <4>2. CASE i # n + 1
        BY <1>1, <3>1, <3>2, <4>2
      <4> QED
        BY <4>1, <4>2
    <3>5. c[i] # b /\ c[i] \in Blocks
      BY <1>2, <3>1
    <3> QED
      BY <1>3, <1>8, <3>1, <3>3, <3>4, <3>5
  <2>2. l[e[0]] = e[0 + 1] /\ r[e[0 + 1]] = e[0]
    BY <1>4, <1>8
  <2>3. l[e[1]] = e[1 + 1] /\ r[e[1 + 1]] = e[1]
    <3>1. e[2] = c[1]
      BY <1>1, <1>4
    <3> QED
      BY <1>4, <1>8, <3>1
  <2>4. \A i \in 0 .. n + 1 : i = 0 \/ i = 1 \/ i \in 2 .. n + 1
    BY <1>1
  <2> QED
    BY <2>1, <2>2, <2>3, <2>4
<1>10. RingOf([next |-> l, prev |-> r], e, n + 1)
  BY <1>6, <1>8, <1>9 DEF RingOf, Links
<1>11. Members(e, n + 1) = Members(c, n) \cup {b}
  <2>1. \A i \in 0 .. n + 1 : e[i] \in Members(c, n) \cup {b}
    <3>1. \A i \in 0 .. n + 1 : i = 0 \/ i = 1 \/ (i \in 2 .. n + 2 /\ i - 1 \in 0 .. n + 1)
      BY <1>1
    <3> QED
      BY <1>1, <1>4, <3>1, NodesAre
  <2>2. \A i \in 0 .. n : c[i] \in Members(e, n + 1)
    <3>1. \A i \in 0 .. n + 1 : e[i] \in Members(e, n + 1)
      BY DEF Members
    <3>2. \A i \in 1 .. n : c[i] = e[i + 1] /\ i + 1 \in 0 .. n + 1
      BY <1>1, <1>4
    <3>3. \A i \in 0 .. n : i = 0 \/ i \in 1 .. n
      BY <1>1
    <3>4. 0 \in 0 .. n + 1
      BY <1>1
    <3> QED
      BY <1>4, <3>1, <3>2, <3>3, <3>4
  <2>3. b \in Members(e, n + 1)
    <3>1. 1 \in 0 .. n + 1
      BY <1>1
    <3> QED
      BY <1>4, <3>1 DEF Members
  <2> QED
    BY <2>1, <2>2, <2>3 DEF Members
<1> QED
  BY <1>4, <1>7, <1>10, <1>11 DEF e

\* c without its node k.
Shorter(c, n, k) == [i \in 0 .. n |-> IF i < k THEN c[i] ELSE c[i + 1]]

LEMMA UnlinkedIs ==
    ASSUME NEW ring, NEW c, NEW n, RingOf(ring, c, n), NEW k \in 1 .. n
    PROVE  /\ RingOf(Unlinked(ring, c[k]), Shorter(c, n, k), n - 1)
           /\ Shorter(c, n, k)[0] = c[0]
           /\ \A i \in 1 .. n - 1 : Shorter(c, n, k)[i] = IF i < k THEN c[i] ELSE c[i + 1]
           /\ Members(Shorter(c, n, k), n - 1) = Members(c, n) \ {c[k]}
<1> DEFINE e == Shorter(c, n, k)
           b == c[k]
           l == [ring.next EXCEPT ![ring.prev[b]] = ring.next[b], ![b] = NoBlock]
           r == [ring.prev EXCEPT ![ring.next[b]] = ring.prev[b], ![b] = NoBlock]
<1>1. /\ ring \in Links /\ Cycle(c, n) /\ n \in Nat /\ c \in [0 .. n + 1 -> Blocks]
      /\ c[n + 1] = c[0]
      /\ ring.next \in Link /\ ring.prev \in Link
  BY DEF RingOf, Cycle, Links
<1>2. k \in 1 .. n /\ k \in 0 .. n /\ k - 1 \in 0 .. n /\ k + 1 \in 1 .. n + 1 /\ (k - 1) + 1 = k
  BY <1>1
<1>3. \A i \in 0 .. n : ring.next[c[i]] = c[i + 1] /\ ring.prev[c[i + 1]] = c[i]
  BY DEF RingOf
<1>4. \A i \in 0 .. n + 1 : c[i] \in Blocks
  BY <1>1
<1>5. \A i, j \in 0 .. n : c[i] = c[j] => i = j
  BY <1>1 DEF Cycle
<1>6. ring.next[b] = c[k + 1] /\ ring.prev[b] = c[k - 1]
  BY <1>2, <1>3
<1>7. /\ e \in [0 .. n -> Blocks]
      /\ \A i \in 0 .. n : e[i] = IF i < k THEN c[i] ELSE c[i + 1]
  <2>1. \A i \in 0 .. n : i \in 0 .. n + 1 /\ i + 1 \in 0 .. n + 1
    BY <1>1
  <2> QED
    BY <1>4, <2>1 DEF Shorter
<1> HIDE DEF e
<1>8. e[0] = c[0] /\ e[n] = c[0]
  <2>1. 0 \in 0 .. n /\ n \in 0 .. n /\ 0 < k /\ ~(n < k)
    BY <1>1, <1>2
  <2> QED
    BY <1>1, <1>7, <2>1
<1>9. Cycle(e, n - 1)
  <2>1. ASSUME NEW i \in 0 .. n - 1, NEW j \in 0 .. n - 1, e[i] = e[j] PROVE i = j
    <3>1. i \in 0 .. n /\ j \in 0 .. n /\ i + 1 \in 0 .. n /\ j + 1 \in 0 .. n
      BY <1>1
    <3>2. CASE i < k /\ j < k
      BY <1>5, <1>7, <2>1, <3>1, <3>2
    <3>3. CASE i < k /\ ~(j < k)
      <4>1. i = j + 1
        BY <1>5, <1>7, <2>1, <3>1, <3>3
      <4> QED
        BY <1>2, <3>3, <4>1
    <3>4. CASE ~(i < k) /\ j < k
      <4>1. i + 1 = j
        BY <1>5, <1>7, <2>1, <3>1, <3>4
      <4> QED
        BY <1>2, <3>4, <4>1
    <3>5. CASE ~(i < k) /\ ~(j < k)
      <4>1. i + 1 = j + 1
        BY <1>5, <1>7, <2>1, <3>1, <3>5
      <4> QED
        BY <4>1
    <3> QED
      BY <3>2, <3>3, <3>4, <3>5
  <2>2. (n - 1) + 1 = n /\ n - 1 \in Nat
    BY <1>1, <1>2
  <2> QED
    BY <1>7, <1>8, <2>1, <2>2 DEF Cycle
<1>10. Unlinked(ring, b) = [next |-> l, prev |-> r]
  BY DEF Unlinked
<1>11. c[k - 1] # b /\ c[k + 1] # b
  <2>1. c[k - 1] # c[k]
    BY <1>2, <1>5
  <2>2. CASE k = n
    <3>1. 0 \in 0 .. n /\ 0 # k
      BY <1>1, <1>2
    <3> QED
      BY <1>1, <1>2, <1>5, <2>1, <2>2, <3>1
  <2>3. CASE k # n
    <3>1. k + 1 \in 0 .. n /\ k + 1 # k
      BY <1>1, <1>2, <2>3
    <3> QED
      BY <1>2, <1>5, <2>1, <3>1
  <2> QED
    BY <2>2, <2>3
<1>12. /\ l \in Link /\ r \in Link /\ l[c[k - 1]] = c[k + 1] /\ r[c[k + 1]] = c[k - 1]
       /\ \A x \in Blocks : x # c[k - 1] /\ x # b => l[x] = ring.next[x]
       /\ \A x \in Blocks : x # c[k + 1] /\ x # b => r[x] = ring.prev[x]
  <2>1. c[k - 1] \in Blocks /\ c[k + 1] \in Blocks /\ b \in Blocks
    BY <1>1, <1>2, <1>4
  <2> QED
    BY <1>1, <1>6, <1>11, <2>1 DEF Link
<1> HIDE DEF l, r
<1>13. \A i \in 0 .. n - 1 : l[e[i]] = e[i + 1] /\ r[e[i + 1]] = e[i]
  <2> TAKE i \in 0 .. n - 1
  <2>1. i \in 0 .. n /\ i + 1 \in 0 .. n /\ n \in Nat
    BY <1>1
  <2>2. CASE i + 1 < k
    <3>1. e[i] = c[i] /\ e[i + 1] = c[i + 1]
      BY <1>2, <1>7, <2>1, <2>2
    <3>2. c[i] # b /\ c[i] # c[k - 1] /\ c[i + 1] # b
      BY <1>2, <1>5, <2>1, <2>2
    <3>3. c[i + 1] # c[k + 1]
      <4>1. CASE k = n
        BY <1>1, <1>2, <1>5, <2>1, <2>2, <4>1
      <4>2. CASE k # n
        <5>1. k + 1 \in 0 .. n
          BY <1>2, <2>1, <4>2
        <5> QED
          BY <1>2, <1>5, <2>1, <2>2, <5>1
      <4> QED
        BY <4>1, <4>2
    <3>4. c[i] \in Blocks /\ c[i + 1] \in Blocks
      BY <1>4, <2>1
    <3> QED
      BY <1>3, <1>12, <2>1, <3>1, <3>2, <3>3, <3>4
  <2>3. CASE i + 1 = k
    <3>1. i = k - 1 /\ ~(i + 1 < k) /\ i < k
      BY <1>2, <2>1, <2>3
    <3>2. e[i] = c[k - 1] /\ e[i + 1] = c[k + 1]
      BY <1>7, <2>1, <2>3, <3>1
    <3> QED
      BY <1>12, <3>2
  <2>4. CASE i + 1 > k
    <3>1. e[i] = c[i + 1] /\ e[i + 1] = c[i + 2]
      <4>1. ~(i < k) /\ ~(i + 1 < k) /\ (i + 1) + 1 = i + 2
        BY <1>2, <2>1, <2>4
      <4> QED
        BY <1>7, <2>1, <4>1
    <3>2. c[i + 1] # b /\ c[i + 1] # c[k - 1]
      BY <1>2, <1>5, <2>1, <2>4
    <3>3. i + 2 \in 0 .. n + 1 /\ (i + 1) + 1 = i + 2 /\ i + 2 # k /\ i + 2 # k + 1
      BY <1>2, <2>1, <2>4
    <3>4. c[i + 2] # b /\ c[i + 2] # c[k + 1]
      <4>1. CASE i + 2 = n + 1
        <5>1. c[i + 2] = c[0] /\ 0 \in 0 .. n /\ 0 # k
          BY <1>1, <1>2, <4>1
        <5>2. k + 1 \in 0 .. n /\ 0 # k + 1
          BY <1>2, <2>1, <2>4, <4>1
        <5> QED
          BY <1>2, <1>5, <5>1, <5>2
      <4>2. CASE i + 2 # n + 1
        <5>1. i + 2 \in 0 .. n /\ k + 1 \in 0 .. n
          BY <1>2, <2>1, <2>4, <4>2
        <5> QED
          BY <1>2, <1>5, <3>3, <5>1
      <4> QED
        BY <4>1, <4>2
    <3>5. ring.next[c[i + 1]] = c[i + 2] /\ ring.prev[c[i + 2]] = c[i + 1]
      BY <1>3, <2>1, <3>3
    <3>6. c[i + 1] \in Blocks /\ c[i + 2] \in Blocks
      BY <1>4, <2>1, <3>3
    <3> QED
      BY <1>12, <3>1, <3>2, <3>4, <3>5, <3>6
  <2> QED
    BY <1>2, <2>1, <2>2, <2>3, <2>4
<1>14. RingOf([next |-> l, prev |-> r], e, n - 1)
  BY <1>9, <1>12, <1>13 DEF RingOf, Links
<1>15. Members(e, n - 1) = Members(c, n) \ {b}
  <2>1. ASSUME NEW i \in 0 .. n - 1 PROVE e[i] \in Members(c, n) \ {b}
    <3>1. i \in 0 .. n /\ i + 1 \in 0 .. n
      BY <1>1
    <3>2. CASE i < k
      BY <1>2, <1>5, <1>7, <3>1, <3>2 DEF Members
    <3>3. CASE ~(i < k)
      <4>1. e[i] = c[i + 1] /\ i + 1 # k
        BY <1>2, <1>7, <3>1, <3>3
      <4> QED
        BY <1>2, <1>5, <3>1, <4>1 DEF Members
    <3> QED
      BY <3>2, <3>3
  <2>2. ASSUME NEW i \in 0 .. n, c[i] # b PROVE c[i] \in Members(e, n - 1)
    <3>1. CASE i < k
      <4>1. i \in 0 .. n - 1 /\ e[i] = c[i]
        BY <1>1, <1>2, <1>7, <3>1
      <4> QED
        BY <4>1 DEF Members
    <3>2. CASE ~(i < k)
      <4>1. i # k
        BY <2>2
      <4>2. i - 1 \in 0 .. n - 1 /\ i - 1 \in 0 .. n /\ ~(i - 1 < k) /\ (i - 1) + 1 = i
        BY <1>1, <1>2, <3>2, <4>1
      <4>3. e[i - 1] = c[i]
        BY <1>7, <4>2
      <4> QED
        BY <4>2, <4>3 DEF Members
    <3> QED
      BY <3>1, <3>2
  <2> QED
    BY <2>1, <2>2 DEF Members
<1>16. \A i \in 1 .. n - 1 : e[i] = IF i < k THEN c[i] ELSE c[i + 1]
  BY <1>1, <1>7
<1> QED
  BY <1>8, <1>10, <1>14, <1>15, <1>16 DEF e

\* A walk around a ring meets its nodes in order, then the sentinel.
LEMMA WalkIs ==
    ASSUME NEW link \in Link, NEW c, NEW n, Cycle(c, n), \A i \in 0 .. n : link[c[i]] = c[i + 1]
    PROVE  Walk(link, c[0]) = [i \in 1 .. n + 1 |-> c[i]]
<1> DEFINE s == c[0]
           Step(path) == IF Last(path) \in {s, NoBlock} THEN path
                         ELSE Append(path, link[Last(path)])
           f[d \in SUBSET (1 .. NumBlocks)] ==
               IF d = {} THEN <<link[s]>> ELSE Step(f[d \ {Max(d)}])
           A == Seq(Blocks \cup {NoBlock}) \ {<<>>}
           st == [p \in (1 .. NumBlocks) \X A |-> Step(p[2])]
           path(i) == [j \in 1 .. i |-> c[j]]
<1>1. Walk(link, s) = f[1 .. NumBlocks]
  BY DEF Walk, FoldLeftDomain, FoldLeft, MapThenFoldSet
<1>2. /\ NumBlocks \in Nat /\ n \in Nat /\ c \in [0 .. n + 1 -> Blocks] /\ c[n + 1] = s
      /\ n + 1 <= NumBlocks /\ s \in Blocks
  <2>1. n \in Nat /\ c \in [0 .. n + 1 -> Blocks] /\ c[n + 1] = s
    BY DEF Cycle
  <2>2. n + 1 <= NumBlocks
    BY CycleFits
  <2> QED
    BY <2>1, <2>2, RingAssumption
<1>3. \A x \in A : Len(x) \in Nat \ {0} /\ Last(x) \in Blocks \cup {NoBlock}
  <2> TAKE x \in A
  <2>1. x \in Seq(Blocks \cup {NoBlock}) /\ x # <<>>
    OBVIOUS
  <2>2. Len(x) \in Nat /\ Len(x) # 0
    BY <2>1, LenProperties, EmptySeq
  <2> QED
    BY <2>1, <2>2, ElementOfSeq DEF Last
<1>4. \A x \in A : Step(x) \in A
  <2> TAKE x \in A
  <2>1. x \in Seq(Blocks \cup {NoBlock}) /\ x # <<>>
    OBVIOUS
  <2>2. CASE Last(x) \in {s, NoBlock}
    BY <2>2
  <2>3. CASE Last(x) \notin {s, NoBlock}
    <3>1. link[Last(x)] \in Blocks \cup {NoBlock}
      BY <1>3, <2>3 DEF Link
    <3>2. Append(x, link[Last(x)]) \in Seq(Blocks \cup {NoBlock})
      BY <2>1, <3>1, AppendProperties
    <3>3. Append(x, link[Last(x)]) # <<>>
      BY <2>1, <3>1, AppendProperties
    <3> QED
      BY <2>3, <3>2, <3>3
  <2> QED
    BY <2>2, <2>3
<1>5. st \in [(1 .. NumBlocks) \X A -> A]
  BY <1>4
<1>6. <<link[s]>> \in A
  <2>1. link[s] \in Blocks \cup {NoBlock}
    BY <1>2 DEF Link
  <2> QED
    BY <2>1
<1>7. PICK g \in [SUBSET (1 .. NumBlocks) -> A] : FoldsOver(g, NumBlocks, <<link[s]>>, st)
  <2> DEFINE base == <<link[s]>>
  <2>1. base \in A
    BY <1>6
  <2> HIDE DEF st, A, base
  <2>2. \E g \in [SUBSET (1 .. NumBlocks) -> A] : FoldsOver(g, NumBlocks, base, st)
    BY <1>2, <1>5, <2>1, FoldExists
  <2> QED
    BY <2>2 DEF base
<1>8. \A d \in SUBSET (1 .. NumBlocks) : d # {} =>
          st[<<Max(d), g[d \ {Max(d)}]>>] = Step(g[d \ {Max(d)}])
  <2>1. \A d \in SUBSET (1 .. NumBlocks) : d # {} => Max(d) \in 1 .. NumBlocks
    BY <1>2, MaxOfNumbers
  <2> HIDE DEF Step, A
  <2> QED
    BY <2>1
<1>9. f = [d \in SUBSET (1 .. NumBlocks) |->
              IF d = {} THEN <<link[s]>> ELSE Step(f[d \ {Max(d)}])]
  <2>1. g = [d \in SUBSET (1 .. NumBlocks) |->
                IF d = {} THEN <<link[s]>> ELSE Step(g[d \ {Max(d)}])]
    <3> HIDE DEF Step, st, A
    <3> QED
      BY <1>7, <1>8 DEF FoldsOver
  <2> HIDE DEF Step
  <2> QED
    BY <2>1
<1> HIDE DEF st, A
<1>10. \A i \in 1 .. NumBlocks : f[1 .. i] = Step(f[1 .. i - 1])
  <2> TAKE i \in 1 .. NumBlocks
  <2>1. Max(1 .. i) = i /\ (1 .. i) \ {i} = 1 .. i - 1
    BY MaxOfInterval
  <2>2. 1 .. i \in SUBSET (1 .. NumBlocks) /\ 1 .. i # {}
    <3> HIDE DEF f, Step, path
    <3>1. i \in 1 .. i
      BY <1>2
    <3>2. \A j \in 1 .. i : j \in 1 .. NumBlocks
      BY <1>2
    <3> QED
      BY ONLY <3>1, <3>2
  <2> HIDE DEF f, Step
  <2>3. f[1 .. i] = Step(f[(1 .. i) \ {Max(1 .. i)}])
    BY ONLY <1>9, <2>2
  <2> QED
    BY <2>1, <2>3
<1>11. f[1 .. 0] = <<link[s]>>
  <2>1. 1 .. 0 = {} /\ {} \in SUBSET (1 .. NumBlocks)
    OBVIOUS
  <2> HIDE DEF f
  <2> QED
    BY <1>9, <2>1
<1> HIDE DEF f
<1>12. \A i \in 1 .. n + 1 : path(i) \in Seq(Blocks) /\ Len(path(i)) = i /\ Last(path(i)) = c[i]
  <2> TAKE i \in 1 .. n + 1
  <2>1. i \in Nat /\ i \in 1 .. i /\ \A j \in 1 .. i : c[j] \in Blocks
    BY <1>2
  <2>2. path(i) \in Seq(Blocks)
    BY <2>1, SeqDef
  <2>3. Len(path(i)) = i
    <3>1. DOMAIN path(i) = 1 .. i
      OBVIOUS
    <3> HIDE DEF path
    <3> QED
      BY <2>1, <2>2, <3>1, LenProperties
  <2> QED
    BY <2>1, <2>2, <2>3 DEF Last
<1>13. link[s] = c[1] /\ <<link[s]>> = path(1)
  <2>1. link[s] = c[1]
    BY <1>2
  <2>2. path(1) = <<c[1]>>
    OBVIOUS
  <2> QED
    BY <2>1, <2>2
<1>14. \A i \in 1 .. n : Step(path(i)) = path(i + 1)
  <2> TAKE i \in 1 .. n
  <2>1. i \in 1 .. n + 1 /\ i \in 0 .. n /\ i + 1 \in 1 .. n + 1 /\ i \in Nat /\ 0 \in 0 .. n /\ i # 0
    BY <1>2
  <2>2. c[i] \in Blocks /\ c[i] # s /\ link[c[i]] = c[i + 1] /\ c[i + 1] \in Blocks
    BY <1>2, <2>1 DEF Cycle
  <2>3. Step(path(i)) = Append(path(i), c[i + 1])
    BY <1>12, <2>1, <2>2, NoBlockIsNone
  <2>4. Append(path(i), c[i + 1]) = path(i + 1)
    <3> DEFINE p == path(i)
               q == path(i + 1)
    <3>1. p \in Seq(Blocks) /\ q \in Seq(Blocks) /\ Len(p) = i /\ Len(q) = i + 1
      BY <1>12, <2>1
    <3>2. q[i + 1] = c[i + 1] /\ \A j \in 1 .. i : p[j] = c[j] /\ q[j] = c[j]
      BY <2>1
    <3> HIDE DEF p, q
    <3>3. /\ Append(p, c[i + 1]) \in Seq(Blocks)
          /\ Len(Append(p, c[i + 1])) = i + 1
          /\ \A j \in 1 .. i : Append(p, c[i + 1])[j] = p[j]
          /\ Append(p, c[i + 1])[i + 1] = c[i + 1]
      BY <2>2, <3>1, AppendProperties
    <3>4. \A j \in 1 .. i + 1 : Append(p, c[i + 1])[j] = q[j]
      BY <2>1, <3>2, <3>3
    <3>5. Append(p, c[i + 1]) = q
      BY <3>1, <3>3, <3>4, SeqEqual
    <3> QED
      BY <3>5 DEF p, q
  <2> QED
    BY <2>3, <2>4
<1>15. Step(path(n + 1)) = path(n + 1)
  <2>1. n + 1 \in 1 .. n + 1
    BY <1>2
  <2> QED
    BY <1>2, <1>12, <2>1
<1> DEFINE S == {i \in 0 .. NumBlocks : f[1 .. i] = IF i <= n THEN path(i + 1) ELSE path(n + 1)}
<1> HIDE DEF Step, path
<1>16. 0 \in S
  <2>1. 0 \in 0 .. NumBlocks /\ 0 <= n /\ 0 + 1 = 1
    BY <1>2
  <2>2. f[1 .. 0] = path(0 + 1)
    BY <1>11, <1>13, <2>1
  <2> QED
    BY <2>1, <2>2
<1>17. ASSUME NEW i \in 0 .. NumBlocks - 1, i \in S PROVE i + 1 \in S
  <2>1. f[1 .. i + 1] = Step(f[1 .. i])
    <3>1. i + 1 \in 1 .. NumBlocks /\ (i + 1) - 1 = i
      BY <1>2
    <3> QED
      BY <1>10, <3>1
  <2>2. i + 1 \in 0 .. NumBlocks
    BY <1>2
  <2>3. CASE i < n
    <3>1. i + 1 \in 1 .. n /\ i + 1 <= n /\ i <= n
      BY <1>2, <2>3
    <3> QED
      BY <1>14, <1>17, <2>1, <2>2, <3>1
  <2>4. CASE i = n
    <3>1. i <= n /\ ~(i + 1 <= n)
      BY <1>2, <2>4
    <3> QED
      BY <1>15, <1>17, <2>1, <2>2, <2>4, <3>1
  <2>5. CASE i > n
    <3>1. ~(i <= n) /\ ~(i + 1 <= n)
      BY <1>2, <2>5
    <3> QED
      BY <1>15, <1>17, <2>1, <2>2, <3>1
  <2> QED
    BY <1>2, <2>3, <2>4, <2>5
<1> HIDE DEF S
<1>18. NumBlocks \in S
  <2>1. NumBlocks \in Nat
    BY <1>2
  <2>2. \A i \in 0 .. NumBlocks : i \in S
    BY ONLY <2>1, <1>16, <1>17, InductionUpTo
  <2> QED
    BY <2>1, <2>2
<1>19. ~(NumBlocks <= n)
  BY <1>2
<1> QED
  BY <1>1, <1>18, <1>19 DEF S, path

\* What IsRing and Nodes say of a ring.
LEMMA RingIs ==
    ASSUME NEW ring, NEW c, NEW n, RingOf(ring, c, n)
    PROVE  /\ IsRing(ring, c[0], NodesOf(c, n))
           /\ Nodes(ring, c[0]) \in Seq(Blocks)
           /\ Len(Nodes(ring, c[0])) = n
           /\ \A i \in 1 .. n : Nodes(ring, c[0])[i] = c[i]
<1> DEFINE s == c[0]
           d == [i \in 0 .. n + 1 |-> c[(n + 1) - i]]
           w == [i \in 1 .. n + 1 |-> c[i]]
           v == [i \in 1 .. n + 1 |-> d[i]]
<1>1. /\ n \in Nat /\ c \in [0 .. n + 1 -> Blocks] /\ c[n + 1] = s /\ Cycle(c, n)
      /\ ring.next \in Link /\ ring.prev \in Link
  BY DEF RingOf, Cycle, Links
<1>2. Walk(ring.next, s) = w
  <2>1. \A i \in 0 .. n : ring.next[c[i]] = c[i + 1]
    BY DEF RingOf
  <2> QED
    BY <1>1, <2>1, WalkIs
<1>3. /\ d \in [0 .. n + 1 -> Blocks] /\ d[0] = s /\ d[n + 1] = s
      /\ \A i \in 0 .. n + 1 : d[i] = c[(n + 1) - i] /\ (n + 1) - i \in 0 .. n + 1
  BY <1>1
<1> HIDE DEF d
<1>4. Cycle(d, n)
  <2>1. ASSUME NEW i \in 0 .. n, NEW k \in 0 .. n, d[i] = d[k] PROVE i = k
    <3>1. i \in 0 .. n + 1 /\ k \in 0 .. n + 1 /\ i \in Int /\ k \in Int
      BY <1>1
    <3>2. \A j \in 0 .. n : j = 0 \/ (n + 1) - j \in 1 .. n
      BY <1>1
    <3>3. \A j \in 1 .. n : j \in 0 .. n /\ j # 0
      BY <1>1
    <3>4. \A j, h \in 0 .. n : c[j] = c[h] => j = h
      BY <1>1 DEF Cycle
    <3>5. 0 \in 0 .. n
      BY <1>1
    <3>6. \A j \in 0 .. n : d[j] = s => j = 0
      <4> TAKE j \in 0 .. n
      <4>1. SUFFICES ASSUME d[j] = s, j # 0 PROVE FALSE
        OBVIOUS
      <4>2. j \in 0 .. n + 1
        BY <1>1
      <4>3. (n + 1) - j = 0
        BY <1>3, <3>2, <3>3, <3>4, <3>5, <4>1, <4>2
      <4> QED
        BY <1>1, <4>3
    <3>7. CASE i # 0 /\ k # 0
      <4>1. (n + 1) - i = (n + 1) - k
        BY <1>3, <2>1, <3>1, <3>2, <3>3, <3>4, <3>7, SMTT(30)
      <4> QED
        BY <1>1, <3>1, <4>1
    <3> QED
      BY <1>3, <2>1, <3>6, <3>7
  <2> QED
    BY <1>1, <1>3, <2>1 DEF Cycle
<1>5. \A i \in 0 .. n : ring.prev[d[i]] = d[i + 1]
  <2> TAKE i \in 0 .. n
  <2>1. /\ n - i \in 0 .. n /\ (n - i) + 1 = (n + 1) - i /\ (n + 1) - (i + 1) = n - i
        /\ i \in 0 .. n + 1 /\ i + 1 \in 0 .. n + 1
    BY <1>1
  <2>2. ring.prev[c[(n - i) + 1]] = c[n - i]
    BY <2>1 DEF RingOf
  <2> QED
    BY <1>3, <2>1, <2>2
<1>6. Walk(ring.prev, s) = v
  <2>1. Walk(ring.prev, d[0]) = [i \in 1 .. n + 1 |-> d[i]]
    BY <1>1, <1>4, <1>5, WalkIs
  <2> QED
    BY <1>3, <2>1
<1>7. /\ w \in Seq(Blocks) /\ Len(w) = n + 1 /\ w[n + 1] = s
      /\ v \in Seq(Blocks) /\ Len(v) = n + 1 /\ v[n + 1] = s
      /\ \A i \in 1 .. n + 1 : w[i] = c[i] /\ v[i] = d[i]
  <2>1. \A i \in 1 .. n + 1 : c[i] \in Blocks /\ d[i] \in Blocks
    BY <1>1, <1>3
  <2>2. n + 1 \in Nat /\ n + 1 \in 1 .. n + 1 /\ DOMAIN w = 1 .. n + 1 /\ DOMAIN v = 1 .. n + 1
    BY <1>1
  <2>3. w \in Seq(Blocks) /\ v \in Seq(Blocks)
    BY <2>1, <2>2, SeqDef
  <2>4. w[n + 1] = s /\ v[n + 1] = s
    BY <1>1, <1>3, <2>2
  <2>5. \A i \in 1 .. n + 1 : w[i] = c[i] /\ v[i] = d[i]
    OBVIOUS
  <2> HIDE DEF w, v
  <2>6. Len(w) = n + 1 /\ Len(v) = n + 1
    BY <2>2, <2>3, LenProperties
  <2> QED
    BY <2>3, <2>4, <2>5, <2>6
<1> HIDE DEF w, v
<1> DEFINE p == Front(w)
           q == Front(v)
<1>8. /\ p \in Seq(Blocks) /\ Len(p) = n /\ \A i \in 1 .. n : p[i] = c[i]
      /\ q \in Seq(Blocks) /\ Len(q) = n /\ \A i \in 1 .. n : q[i] = d[i]
  <2>1. 1 \in 1 .. n + 2 /\ n \in 0 .. n + 1 /\ (n + 1) - 1 = n /\ n \in Nat
    BY <1>1
  <2>2. p = SubSeq(w, 1, n) /\ q = SubSeq(v, 1, n)
    BY <1>7, <2>1 DEF Front
  <2>3. \A i \in 1 .. n : i \in 1 .. n + 1 /\ (1 + i) - 1 = i
    BY <1>1
  <2>4. \A i \in 1 .. n : w[i] \in Blocks /\ v[i] \in Blocks
    BY <1>7, <2>3, ElementOfSeq
  <2>5. (n - 1) + 1 = n /\ (1 <= n \/ n = 0) /\ 1 \in Int /\ n \in Int
    BY <1>1
  <2>6. /\ SubSeq(w, 1, n) \in Seq(Blocks) /\ SubSeq(v, 1, n) \in Seq(Blocks)
        /\ Len(SubSeq(w, 1, n)) = n /\ Len(SubSeq(v, 1, n)) = n
        /\ \A i \in 1 .. n : SubSeq(w, 1, n)[i] = w[(1 + i) - 1]
        /\ \A i \in 1 .. n : SubSeq(v, 1, n)[i] = v[(1 + i) - 1]
    BY <2>4, <2>5, SubSeqProperties
  <2> HIDE DEF p, q
  <2> QED
    BY <1>7, <2>2, <2>3, <2>6
<1>9. Nodes(ring, s) = p
  BY <1>2 DEF Nodes
<1> HIDE DEF p, q
<1>10. p = Reverse(q)
  <2>1. Reverse(q) = [i \in 1 .. n |-> q[(n - i) + 1]]
    BY <1>8 DEF Reverse
  <2>2. p = [i \in 1 .. n |-> p[i]]
    <3>1. DOMAIN p = 1 .. n
      BY <1>8, LenProperties
    <3>2. p \in [1 .. n -> Blocks]
      BY <1>8, <3>1
    <3> QED
      BY <3>2
  <2>3. \A i \in 1 .. n : q[(n - i) + 1] = p[i]
    <3> TAKE i \in 1 .. n
    <3> DEFINE j == (n - i) + 1
    <3>1. j \in 1 .. n /\ j \in 0 .. n + 1 /\ (n + 1) - j = i
      BY <1>1
    <3> HIDE DEF j
    <3>2. q[j] = d[j] /\ d[j] = c[i] /\ p[i] = c[i]
      BY <1>3, <1>8, <3>1
    <3> QED
      BY <3>2 DEF j
  <2> QED
    BY <2>1, <2>2, <2>3
<1>11. ToSet(p) = NodesOf(c, n)
  <2>1. DOMAIN p = 1 .. n
    BY <1>8, LenProperties
  <2> QED
    BY <1>8, <2>1 DEF ToSet, NodesOf
<1>12. Cardinality(NodesOf(c, n)) = n
  <2> DEFINE f == [i \in 1 .. n |-> c[i]]
  <2>1. \A i \in 1 .. n : c[i] \in NodesOf(c, n)
    BY DEF NodesOf
  <2>2. f \in [1 .. n -> NodesOf(c, n)]
    BY <2>1
  <2>3. \A i, k \in 1 .. n : f[i] = f[k] => i = k
    <3>1. \A i \in 1 .. n : i \in 0 .. n
      BY <1>1
    <3> QED
      BY <1>1, <3>1 DEF Cycle
  <2>4. \A x \in NodesOf(c, n) : \E i \in 1 .. n : f[i] = x
    BY DEF NodesOf
  <2> HIDE DEF f
  <2>5. f \in Injection(1 .. n, NodesOf(c, n))
    BY <2>2, <2>3, Fun_IsInj
  <2>6. f \in Surjection(1 .. n, NodesOf(c, n))
    BY <2>2, <2>4, Fun_IsSurj
  <2>7. ExistsBijection(1 .. n, NodesOf(c, n))
    BY <2>5, <2>6 DEF ExistsBijection, Bijection
  <2>8. IsFiniteSet(1 .. n) /\ Cardinality(1 .. n) = n
    BY <1>1, FS_Interval
  <2> QED
    BY <2>7, <2>8, FS_Bijection
<1>13. Last(w) = s /\ Last(v) = s
  BY <1>7 DEF Last
<1>14. IsRing(ring, s, NodesOf(c, n))
  <2>1. Front(Walk(ring.prev, s)) = q
    BY <1>6 DEF q
  <2> QED
    BY <1>2, <1>6, <1>8, <1>9, <1>10, <1>11, <1>12, <1>13, <2>1 DEF IsRing
<1> QED
  BY <1>8, <1>9, <1>14

-----------------------------------------------------------------------------
(* The memory region *)

\* A region: its ring runs through the blocks in use.
Region(m) ==
    /\ m.heap \in [Blocks -> Content]
    /\ \A b \in Blocks : m.heap[b].kind = "free" => m.heap[b] = Free
    /\ m.heap[Sentinel].kind = "sentinel"
    /\ \E n \in Nat : \E c : /\ RingOf(m.ring, c, n) /\ c[0] = Sentinel
                             /\ Members(c, n) = InUse(m)

\* heap2 is heap but for what block b holds, which is x.
Changes(heap, heap2, b, x) ==
    /\ b \in Blocks
    /\ heap2[b] = x
    /\ \A y \in Blocks : y # b => heap2[y] = heap[y]

LEMMA SentinelIsBlock == Sentinel \in Blocks
BY RingAssumption DEF Sentinel, Blocks

LEMMA InUseFinite ==
    ASSUME NEW m
    PROVE  IsFiniteSet(InUse(m)) /\ Cardinality(InUse(m)) \in 0 .. NumBlocks
<1>1. InUse(m) \in SUBSET Blocks
  BY DEF InUse
<1>2. IsFiniteSet(InUse(m)) /\ Cardinality(InUse(m)) <= Cardinality(Blocks)
  BY <1>1, BlocksFinite, FS_Subset
<1>3. Cardinality(InUse(m)) \in Nat
  BY <1>2, FS_CardinalityType
<1> QED
  BY <1>2, <1>3, BlocksFinite, RingAssumption

LEMMA FreeIs == Free \in Content /\ Free.kind = "free" /\ Free.to = NoBlock
BY DEF Free, Content, Kinds

LEMMA HoldingIs ==
    ASSUME NEW kind \in Kinds, NEW to \in Blocks \cup {NoBlock}, NEW id \in Nat
    PROVE  /\ Holding(kind, to, id) \in Content
           /\ Holding(kind, to, id).kind = kind
           /\ Holding(kind, to, id).to = to
           /\ Holding(kind, to, id).id = id
BY DEF Holding, Content

\* The blocks in use are those of another kind than free.
LEMMA InUseIs ==
    ASSUME NEW m, Region(m)
    PROVE  \A b \in Blocks : b \in InUse(m) <=> m.heap[b].kind # "free"
BY FreeIs DEF Region, InUse

LEMMA FreshIs ==
    ASSUME NEW m, Cardinality(InUse(m)) < NumBlocks
    PROVE  Fresh(m) \in Blocks /\ m.heap[Fresh(m)] = Free
<1> DEFINE S == {b \in Blocks : m.heap[b] = Free}
<1>1. S # {}
  <2> SUFFICES ASSUME S = {} PROVE FALSE
    OBVIOUS
  <2>1. InUse(m) = Blocks
    BY DEF InUse
  <2> QED
    BY <2>1, BlocksFinite, RingAssumption
<1>2. S \in SUBSET Nat
  BY RingAssumption DEF Blocks
<1> HIDE DEF S
<1>3. PICK b \in S : \A d \in S : b <= d
  BY <1>1, <1>2, LeastNatural
<1>4. \E x \in Blocks : m.heap[x] = Free /\ \A d \in Blocks : m.heap[d] = Free => x <= d
  BY <1>3 DEF S
<1> QED
  BY <1>4 DEF Fresh

LEMMA NewRegionIs ==
    /\ Region(NewRegion)
    /\ InUse(NewRegion) = {Sentinel}
    /\ \A b \in Blocks : NewRegion.heap[b].kind \in {"free", "sentinel"}
<1> DEFINE x == Holding("sentinel", NoBlock, 0)
           h == [NoMemory.heap EXCEPT ![Sentinel] = x]
           r == NewRing(Sentinel)
<1>1. x \in Content /\ x.kind = "sentinel"
  BY HoldingIs DEF Kinds
<1> HIDE DEF x
<1>2. NoMemory.heap \in [Blocks -> Content] /\ \A b \in Blocks : NoMemory.heap[b] = Free
  BY FreeIs DEF NoMemory
<1>3. /\ h \in [Blocks -> Content] /\ h[Sentinel] = x
      /\ \A b \in Blocks : b # Sentinel => h[b] = Free
  BY <1>1, <1>2, SentinelIsBlock
<1>4. NewRegion = [heap |-> h, ring |-> r]
  BY DEF NewRegion, x
<1> HIDE DEF h, r
<1>5. NewRegion.heap = h /\ NewRegion.ring = r
  BY <1>4
<1>6. InUse(NewRegion) = {Sentinel}
  <2>1. \A b \in Blocks : h[b] # Free <=> b = Sentinel
    BY <1>1, <1>3, FreeIs
  <2> QED
    BY <1>5, <2>1, SentinelIsBlock DEF InUse
<1>7. \E c : RingOf(r, c, 0) /\ c[0] = Sentinel /\ Members(c, 0) = {Sentinel}
  BY SentinelIsBlock, NewRingIs DEF r
<1>8. \A b \in Blocks : h[b].kind \in {"free", "sentinel"} /\ (h[b].kind = "free" => h[b] = Free)
  BY <1>1, <1>3, FreeIs
<1> QED
  BY <1>1, <1>3, <1>5, <1>6, <1>7, <1>8 DEF Region

\* Where one block changes, the set of those in use does by as much.
LEMMA InUseChanges ==
    ASSUME NEW m, NEW m2, NEW b, NEW x, Changes(m.heap, m2.heap, b, x)
    PROVE  /\ x = Free => InUse(m2) = InUse(m) \ {b}
           /\ x # Free => InUse(m2) = InUse(m) \cup {b}
BY DEF Changes, InUse

LEMMA AllocatedIs ==
    ASSUME NEW m, Region(m), Cardinality(InUse(m)) < NumBlocks,
           NEW x \in Content, x.kind # "free"
    PROVE  /\ Region(Allocated(m, x))
           /\ Changes(m.heap, Allocated(m, x).heap, Fresh(m), x)
           /\ Fresh(m) \in Blocks /\ m.heap[Fresh(m)] = Free
           /\ Cardinality(InUse(Allocated(m, x))) = Cardinality(InUse(m)) + 1
<1> DEFINE b == Fresh(m)
           m2 == Allocated(m, x)
           h == [m.heap EXCEPT ![b] = x]
           r == Inserted(m.ring, Sentinel, b)
<1>1. b \in Blocks /\ m.heap[b] = Free
  BY FreshIs
<1>2. m2 = [heap |-> h, ring |-> r]
  BY DEF Allocated
<1> HIDE DEF b, m2
<1>3. m2.heap = h /\ m2.ring = r
  BY <1>2
<1>4. m.heap \in [Blocks -> Content]
  BY DEF Region
<1>5. h \in [Blocks -> Content] /\ h[b] = x /\ \A y \in Blocks : y # b => h[y] = m.heap[y]
  BY <1>1, <1>4
<1> HIDE DEF h, r
<1>6. Changes(m.heap, m2.heap, b, x)
  BY <1>1, <1>3, <1>5 DEF Changes
<1>7. x # Free
  BY FreeIs
<1>8. InUse(m2) = InUse(m) \cup {b} /\ b \notin InUse(m)
  <2>1. InUse(m2) = InUse(m) \cup {b}
    BY <1>6, <1>7, InUseChanges
  <2> QED
    BY <1>1, <2>1 DEF InUse
<1>9. Cardinality(InUse(m2)) = Cardinality(InUse(m)) + 1
  BY <1>8, InUseFinite, FS_AddElement
<1>10. PICK n, c : n \in Nat /\ RingOf(m.ring, c, n) /\ c[0] = Sentinel /\ Members(c, n) = InUse(m)
  BY DEF Region
<1>11. \E k \in Nat : \E d : RingOf(r, d, k) /\ d[0] = Sentinel /\ Members(d, k) = InUse(m2)
  <2>1. /\ RingOf(Inserted(m.ring, c[0], b), Longer(c, n, b), n + 1)
        /\ Longer(c, n, b)[0] = c[0]
        /\ Members(Longer(c, n, b), n + 1) = Members(c, n) \cup {b}
    BY <1>1, <1>8, <1>10, InsertedIs
  <2>2. n + 1 \in Nat
    BY <1>10
  <2> QED
    BY <1>8, <1>10, <2>1, <2>2 DEF r
<1>12. \A y \in Blocks : h[y].kind = "free" => h[y] = Free
  BY <1>5 DEF Region
<1>13. h[Sentinel].kind = "sentinel"
  <2>1. Sentinel # b
    BY <1>1, FreeIs DEF Region
  <2> QED
    BY <1>5, <2>1, SentinelIsBlock DEF Region
<1>14. Region(m2)
  BY <1>3, <1>5, <1>11, <1>12, <1>13 DEF Region
<1> QED
  BY <1>1, <1>6, <1>9, <1>14 DEF b, m2

LEMMA FreedIs ==
    ASSUME NEW m, Region(m), NEW b \in Blocks, m.heap[b].kind \notin {"free", "sentinel"}
    PROVE  /\ Region(Freed(m, b))
           /\ Changes(m.heap, Freed(m, b).heap, b, Free)
           /\ Cardinality(InUse(Freed(m, b))) = Cardinality(InUse(m)) - 1
<1> DEFINE m2 == Freed(m, b)
           h == [m.heap EXCEPT ![b] = Free]
           r == Unlinked(m.ring, b)
<1>1. m2 = [heap |-> h, ring |-> r]
  BY DEF Freed
<1> HIDE DEF m2
<1>2. m2.heap = h /\ m2.ring = r
  BY <1>1
<1>3. m.heap \in [Blocks -> Content]
  BY DEF Region
<1>4. h \in [Blocks -> Content] /\ h[b] = Free /\ \A y \in Blocks : y # b => h[y] = m.heap[y]
  BY <1>3, FreeIs
<1> HIDE DEF h, r
<1>5. Changes(m.heap, m2.heap, b, Free)
  BY <1>2, <1>4 DEF Changes
<1>6. InUse(m2) = InUse(m) \ {b} /\ b \in InUse(m)
  <2>1. InUse(m2) = InUse(m) \ {b}
    BY <1>5, InUseChanges
  <2> QED
    BY <2>1, InUseIs
<1>7. Cardinality(InUse(m2)) = Cardinality(InUse(m)) - 1
  BY <1>6, InUseFinite, FS_RemoveElement
<1>8. PICK n, c : n \in Nat /\ RingOf(m.ring, c, n) /\ c[0] = Sentinel /\ Members(c, n) = InUse(m)
  BY DEF Region
<1>9. Sentinel # b
  BY DEF Region
<1>10. PICK k \in 1 .. n : c[k] = b
  <2>1. Cycle(c, n)
    BY <1>8 DEF RingOf
  <2>2. b \in NodesOf(c, n)
    BY <1>6, <1>8, <1>9, <2>1, NodesAre
  <2> QED
    BY <2>2 DEF NodesOf
<1>11. \E j \in Nat : \E d : RingOf(r, d, j) /\ d[0] = Sentinel /\ Members(d, j) = InUse(m2)
  <2>1. /\ RingOf(Unlinked(m.ring, c[k]), Shorter(c, n, k), n - 1)
        /\ Shorter(c, n, k)[0] = c[0]
        /\ Members(Shorter(c, n, k), n - 1) = Members(c, n) \ {c[k]}
    BY <1>8, UnlinkedIs
  <2>2. n - 1 \in Nat
    BY <1>8
  <2> QED
    BY <1>6, <1>8, <1>10, <2>1, <2>2 DEF r
<1>12. \A y \in Blocks : h[y].kind = "free" => h[y] = Free
  BY <1>4 DEF Region
<1>13. h[Sentinel].kind = "sentinel"
  BY <1>4, <1>9, SentinelIsBlock DEF Region
<1>14. Region(m2)
  BY <1>2, <1>4, <1>11, <1>12, <1>13 DEF Region
<1> QED
  BY <1>5, <1>7, <1>14 DEF m2

\* What RingsConsistent and NonFreedCount say of a region.
LEMMA RegionRing ==
    ASSUME NEW m, Region(m)
    PROVE  /\ IsRing(m.ring, Sentinel, InUse(m) \ {Sentinel})
           /\ InUse(m) = {Sentinel} => NonFreedCount(m) = 0
           /\ Sentinel \in InUse(m)
<1>1. PICK n, c : n \in Nat /\ RingOf(m.ring, c, n) /\ c[0] = Sentinel /\ Members(c, n) = InUse(m)
  BY DEF Region
<1>2. Cycle(c, n)
  BY <1>1 DEF RingOf
<1>3. NodesOf(c, n) = InUse(m) \ {Sentinel} /\ Sentinel \in InUse(m)
  BY <1>1, <1>2, NodesAre
<1>4. IsRing(m.ring, Sentinel, InUse(m) \ {Sentinel}) /\ Len(Nodes(m.ring, Sentinel)) = n
  <2>1. IsRing(m.ring, c[0], NodesOf(c, n)) /\ Len(Nodes(m.ring, c[0])) = n
    BY <1>1, RingIs
  <2> QED
    BY <1>1, <1>3, <2>1
<1>5. ASSUME InUse(m) = {Sentinel} PROVE n = 0
  <2>1. NodesOf(c, n) = {}
    BY <1>3, <1>5
  <2>2. \A i \in 1 .. n : FALSE
    BY <2>1 DEF NodesOf
  <2>3. ~(n >= 1)
    <3>1. n >= 1 => 1 \in 1 .. n
      OBVIOUS
    <3> QED
      BY <2>2, <3>1
  <2> QED
    BY <1>1, <2>3
<1> QED
  BY <1>3, <1>4, <1>5 DEF NonFreedCount

-----------------------------------------------------------------------------
(* What blocks hold and who owns them: every message belongs to one        *)
(* element or to the thread that is about to log it, every element to one  *)
(* node of the list or to the thread that took it.                         *)

Referring(heap, b) == heap[b].kind \in {"node", "element"}
Below(kind) == IF kind = "node" THEN "element" ELSE "message"
HoldingOne(thr, t) == thr[t].pc \in {"log", "element", "polled"}
Wanted(pc) == IF pc = "log" THEN "message" ELSE "element"

PointersRight(heap) ==
    \A b \in Blocks : Referring(heap, b) =>
        heap[b].to \in Blocks /\ heap[heap[b].to].kind = Below(heap[b].kind)

HandsRight(heap, thr) ==
    \A t \in Threads : HoldingOne(thr, t) =>
        thr[t].block \in Blocks /\ heap[thr[t].block].kind = Wanted(thr[t].pc)

PointersApart(heap) ==
    \A b, d \in Blocks :
        Referring(heap, b) /\ Referring(heap, d) /\ heap[b].to = heap[d].to => b = d

HandsApart(thr) ==
    \A t, u \in Threads :
        HoldingOne(thr, t) /\ HoldingOne(thr, u) /\ thr[t].block = thr[u].block => t = u

BothApart(heap, thr) ==
    \A b \in Blocks : \A t \in Threads :
        Referring(heap, b) /\ HoldingOne(thr, t) => heap[b].to # thr[t].block

AllOwned(heap, thr) ==
    \A b \in Blocks : heap[b].kind \in {"element", "message"} =>
        \/ \E d \in Blocks : Referring(heap, d) /\ heap[d].to = b
        \/ \E t \in Threads : HoldingOne(thr, t) /\ thr[t].block = b

Linked(heap, thr) ==
    /\ PointersRight(heap)
    /\ HandsRight(heap, thr)
    /\ PointersApart(heap)
    /\ HandsApart(thr)
    /\ BothApart(heap, thr)
    /\ AllOwned(heap, thr)

\* Only what thread t does changes.
Others(thr, thr2, t) == \A u \in Threads : u # t => thr2[u] = thr[u]

\* A block that is handed out to hold a message, which t is about to log.
LEMMA LinkedNew ==
    ASSUME NEW heap, NEW heap2, NEW thr, NEW thr2, NEW t \in Threads, NEW b, NEW x,
           Linked(heap, thr), Others(thr, thr2, t), Changes(heap, heap2, b, x),
           heap[b].kind = "free", x.kind = "message",
           ~HoldingOne(thr, t), thr2[t].pc = "log", thr2[t].block = b
    PROVE  Linked(heap2, thr2)
<1>1. /\ b \in Blocks /\ heap2[b] = x /\ \A y \in Blocks : y # b => heap2[y] = heap[y]
      /\ \A u \in Threads : u # t => thr2[u] = thr[u]
  BY DEF Changes, Others
<1>2. /\ HoldingOne(thr2, t)
      /\ \A u \in Threads : u # t => (HoldingOne(thr2, u) <=> HoldingOne(thr, u))
  BY <1>1 DEF HoldingOne
<1>3. /\ \A y \in Blocks : Referring(heap2, y) <=> Referring(heap, y)
      /\ \A y \in Blocks : Referring(heap, y) => y # b
  BY <1>1 DEF Referring
<1>4. \A y \in Blocks : Referring(heap, y) => heap[y].to # b
  BY DEF Linked, PointersRight, Below
<1>5. \A u \in Threads : HoldingOne(thr, u) => thr[u].block # b
  BY DEF Linked, HandsRight, Wanted
<1>6. PointersRight(heap2)
  BY <1>1, <1>3, <1>4 DEF Linked, PointersRight
<1>7. HandsRight(heap2, thr2)
  BY <1>1, <1>2, <1>5 DEF Linked, HandsRight, Wanted
<1>8. PointersApart(heap2)
  BY <1>1, <1>3 DEF Linked, PointersApart
<1>9. HandsApart(thr2)
  BY <1>1, <1>2, <1>5 DEF Linked, HandsApart
<1>10. BothApart(heap2, thr2)
  BY <1>1, <1>2, <1>3, <1>4 DEF Linked, BothApart
<1>11. AllOwned(heap2, thr2)
  <2> SUFFICES ASSUME NEW y \in Blocks, heap2[y].kind \in {"element", "message"}
               PROVE  \/ \E d \in Blocks : Referring(heap2, d) /\ heap2[d].to = y
                      \/ \E u \in Threads : HoldingOne(thr2, u) /\ thr2[u].block = y
    BY DEF AllOwned
  <2>1. CASE y = b
    BY <1>2, <2>1
  <2>2. CASE y # b
    BY <1>1, <1>2, <1>3, <2>2 DEF Linked, AllOwned
  <2> QED
    BY <2>1, <2>2
<1> QED
  BY <1>6, <1>7, <1>8, <1>9, <1>10, <1>11 DEF Linked

\* A thread frees the message it holds.
LEMMA LinkedRejected ==
    ASSUME NEW heap, NEW heap2, NEW thr, NEW thr2, NEW t \in Threads,
           Linked(heap, thr), Others(thr, thr2, t), Changes(heap, heap2, thr[t].block, Free),
           thr[t].pc = "log", ~HoldingOne(thr2, t)
    PROVE  Linked(heap2, thr2)
<1> DEFINE b == thr[t].block
<1>1. /\ b \in Blocks /\ heap2[b].kind = "free" /\ \A y \in Blocks : y # b => heap2[y] = heap[y]
      /\ \A u \in Threads : u # t => thr2[u] = thr[u]
  BY FreeIs DEF Changes, Others
<1>2. /\ HoldingOne(thr, t) /\ heap[b].kind = "message"
      /\ \A u \in Threads : HoldingOne(thr2, u) => u # t
      /\ \A u \in Threads : u # t => (HoldingOne(thr2, u) <=> HoldingOne(thr, u))
  BY <1>1 DEF HoldingOne, Linked, HandsRight, Wanted
<1>3. /\ \A y \in Blocks : Referring(heap2, y) <=> Referring(heap, y)
      /\ \A y \in Blocks : Referring(heap, y) => y # b
  BY <1>1, <1>2 DEF Referring
<1>4. \A y \in Blocks : Referring(heap, y) => heap[y].to # b
  BY <1>2 DEF Linked, BothApart
<1>5. \A u \in Threads : u # t /\ HoldingOne(thr, u) => thr[u].block # b
  BY <1>2 DEF Linked, HandsApart
<1> HIDE DEF b
<1>6. PointersRight(heap2)
  BY <1>1, <1>3, <1>4 DEF Linked, PointersRight
<1>7. HandsRight(heap2, thr2)
  BY <1>1, <1>2, <1>5 DEF Linked, HandsRight
<1>8. PointersApart(heap2)
  BY <1>1, <1>3 DEF Linked, PointersApart
<1>9. HandsApart(thr2)
  BY <1>1, <1>2 DEF Linked, HandsApart
<1>10. BothApart(heap2, thr2)
  BY <1>1, <1>2, <1>3 DEF Linked, BothApart
<1>11. AllOwned(heap2, thr2)
  <2> SUFFICES ASSUME NEW y \in Blocks, heap2[y].kind \in {"element", "message"}
               PROVE  \/ \E d \in Blocks : Referring(heap2, d) /\ heap2[d].to = y
                      \/ \E u \in Threads : HoldingOne(thr2, u) /\ thr2[u].block = y
    BY DEF AllOwned
  <2>1. y # b /\ heap[y].kind \in {"element", "message"}
    BY <1>1
  <2>2. CASE \E d \in Blocks : Referring(heap, d) /\ heap[d].to = y
    BY <1>1, <1>3, <2>2
  <2>3. CASE \E u \in Threads : HoldingOne(thr, u) /\ thr[u].block = y
    BY <1>1, <1>2, <2>1, <2>3 DEF b
  <2> QED
    BY <2>1, <2>2, <2>3 DEF Linked, AllOwned
<1> QED
  BY <1>6, <1>7, <1>8, <1>9, <1>10, <1>11 DEF Linked

\* The message of t goes into an element e, and that behind a node.
LEMMA LinkedLogged ==
    ASSUME NEW heap, NEW heap1, NEW heap2, NEW thr, NEW thr2, NEW t \in Threads,
           NEW e, NEW x, NEW node, NEW y,
           Linked(heap, thr), Others(thr, thr2, t),
           Changes(heap, heap1, e, x), Changes(heap1, heap2, node, y),
           heap[e].kind = "free", heap1[node].kind = "free",
           x.kind = "element", x.to = thr[t].block, y.kind = "node", y.to = e,
           thr[t].pc = "log", ~HoldingOne(thr2, t)
    PROVE  Linked(heap2, thr2)
<1> DEFINE b == thr[t].block
<1>1. /\ e \in Blocks /\ node \in Blocks /\ e # node /\ heap2[e] = x /\ heap2[node] = y
      /\ heap[node].kind = "free"
      /\ \A z \in Blocks : z # e /\ z # node => heap2[z] = heap[z]
      /\ \A u \in Threads : u # t => thr2[u] = thr[u]
  BY DEF Changes, Others
<1>2. /\ HoldingOne(thr, t) /\ b \in Blocks /\ heap[b].kind = "message"
      /\ \A u \in Threads : HoldingOne(thr2, u) => u # t
      /\ \A u \in Threads : u # t => (HoldingOne(thr2, u) <=> HoldingOne(thr, u))
  BY <1>1 DEF HoldingOne, Linked, HandsRight, Wanted
<1>3. /\ \A z \in Blocks : z # e /\ z # node => (Referring(heap2, z) <=> Referring(heap, z))
      /\ \A z \in Blocks : Referring(heap, z) => z # e /\ z # node
      /\ Referring(heap2, e) /\ Referring(heap2, node)
  BY <1>1 DEF Referring
<1>4. \A z \in Blocks : Referring(heap, z) =>
          heap[z].to # b /\ heap[z].to # e /\ heap[z].to # node
  BY <1>1, <1>2 DEF Linked, BothApart, PointersRight, Below
<1>5. \A u \in Threads : HoldingOne(thr, u) =>
          (u # t => thr[u].block # b) /\ thr[u].block # e /\ thr[u].block # node
  BY <1>1, <1>2 DEF Linked, HandsApart, HandsRight, Wanted
<1>6. b # e /\ b # node
  BY <1>1, <1>2
<1> HIDE DEF b
<1>7. PointersRight(heap2)
  <2> SUFFICES ASSUME NEW z \in Blocks, Referring(heap2, z)
               PROVE  heap2[z].to \in Blocks /\ heap2[heap2[z].to].kind = Below(heap2[z].kind)
    BY DEF PointersRight
  <2>1. CASE z = e
    BY <1>1, <1>2, <1>6, <2>1 DEF Below, b
  <2>2. CASE z = node
    BY <1>1, <2>2 DEF Below
  <2>3. CASE z # e /\ z # node
    BY <1>1, <1>3, <1>4, <2>3 DEF Linked, PointersRight
  <2> QED
    BY <2>1, <2>2, <2>3
<1>8. HandsRight(heap2, thr2)
  BY <1>1, <1>2, <1>5 DEF Linked, HandsRight
<1>9. PointersApart(heap2)
  <2>1. /\ heap2[e].to = b /\ heap2[node].to = e
        /\ \A z \in Blocks : z # e /\ z # node /\ Referring(heap2, z) =>
              heap2[z].to = heap[z].to /\ heap2[z].to # b /\ heap2[z].to # e
    BY <1>1, <1>3, <1>4 DEF b
  <2>2. \A z, w \in Blocks :
            z # e /\ z # node /\ w # e /\ w # node /\ Referring(heap2, z) /\ Referring(heap2, w)
            /\ heap2[z].to = heap2[w].to => z = w
    <3>1. \A z \in Blocks : z # e /\ z # node /\ Referring(heap2, z) =>
              Referring(heap, z) /\ heap2[z] = heap[z]
      BY <1>1, <1>3
    <3>2. PointersApart(heap)
      BY DEF Linked
    <3>3. SUFFICES ASSUME NEW z \in Blocks, NEW w \in Blocks,
                          z # e, z # node, w # e, w # node,
                          Referring(heap2, z), Referring(heap2, w), heap2[z].to = heap2[w].to
                   PROVE  z = w
      OBVIOUS
    <3>4. Referring(heap, z) /\ Referring(heap, w) /\ heap[z].to = heap[w].to
      BY <3>1, <3>3
    <3> QED
      BY <3>2, <3>4 DEF PointersApart
  <2> QED
    BY <1>6, <2>1, <2>2 DEF PointersApart
<1>10. HandsApart(thr2)
  BY <1>1, <1>2 DEF Linked, HandsApart
<1>11. BothApart(heap2, thr2)
  <2> SUFFICES ASSUME NEW z \in Blocks, NEW u \in Threads, Referring(heap2, z), HoldingOne(thr2, u)
               PROVE  heap2[z].to # thr2[u].block
    BY DEF BothApart
  <2>1. u # t /\ HoldingOne(thr, u) /\ thr2[u] = thr[u]
    BY <1>1, <1>2
  <2>2. CASE z = e
    BY <1>1, <1>5, <2>1, <2>2 DEF b
  <2>3. CASE z = node
    BY <1>1, <1>5, <2>1, <2>3
  <2>4. CASE z # e /\ z # node
    BY <1>1, <1>3, <2>1, <2>4 DEF Linked, BothApart
  <2> QED
    BY <2>2, <2>3, <2>4
<1>12. AllOwned(heap2, thr2)
  <2> SUFFICES ASSUME NEW z \in Blocks, heap2[z].kind \in {"element", "message"}
               PROVE  \/ \E d \in Blocks : Referring(heap2, d) /\ heap2[d].to = z
                      \/ \E u \in Threads : HoldingOne(thr2, u) /\ thr2[u].block = z
    BY DEF AllOwned
  <2>1. CASE z = e
    BY <1>1, <1>3, <2>1
  <2>2. CASE z = b
    BY <1>1, <1>3, <2>2 DEF b
  <2>3. CASE z # e /\ z # b
    <3>1. z # node /\ heap[z].kind \in {"element", "message"}
      BY <1>1, <2>3
    <3>2. CASE \E d \in Blocks : Referring(heap, d) /\ heap[d].to = z
      BY <1>1, <1>3, <3>2
    <3>3. CASE \E u \in Threads : HoldingOne(thr, u) /\ thr[u].block = z
      BY <1>1, <1>2, <2>3, <3>3 DEF b
    <3> QED
      BY <3>1, <3>2, <3>3 DEF Linked, AllOwned
  <2> QED
    BY <2>1, <2>2, <2>3
<1> QED
  BY <1>7, <1>8, <1>9, <1>10, <1>11, <1>12 DEF Linked

\* t takes the element behind a node, which is freed.
LEMMA LinkedTaken ==
    ASSUME NEW heap, NEW heap2, NEW thr, NEW thr2, NEW t \in Threads, NEW node,
           Linked(heap, thr), Others(thr, thr2, t), Changes(heap, heap2, node, Free),
           heap[node].kind = "node", ~HoldingOne(thr, t),
           thr2[t].pc \in {"element", "polled"}, thr2[t].block = heap[node].to
    PROVE  Linked(heap2, thr2)
<1> DEFINE e == heap[node].to
<1>1. /\ node \in Blocks /\ heap2[node].kind = "free"
      /\ \A y \in Blocks : y # node => heap2[y] = heap[y]
      /\ \A u \in Threads : u # t => thr2[u] = thr[u]
  BY FreeIs DEF Changes, Others
<1>2. /\ HoldingOne(thr2, t) /\ Wanted(thr2[t].pc) = "element"
      /\ \A u \in Threads : HoldingOne(thr, u) => u # t
      /\ \A u \in Threads : u # t => (HoldingOne(thr2, u) <=> HoldingOne(thr, u))
  BY <1>1 DEF HoldingOne, Wanted
<1>3. /\ \A y \in Blocks : Referring(heap2, y) <=> Referring(heap, y) /\ y # node
      /\ Referring(heap, node)
  BY <1>1 DEF Referring
<1>4. e \in Blocks /\ heap[e].kind = "element" /\ e # node
  BY <1>1, <1>3 DEF Linked, PointersRight, Below
<1>5. \A y \in Blocks : Referring(heap, y) =>
          (y # node => heap[y].to # e) /\ heap[y].to # node
  BY <1>1, <1>3 DEF Linked, PointersApart, PointersRight, Below
<1>6. \A u \in Threads : HoldingOne(thr, u) => thr[u].block # e /\ thr[u].block # node
  BY <1>1, <1>3 DEF Linked, BothApart, HandsRight, Wanted
<1>7. thr2[t].block = e
  OBVIOUS
<1> HIDE DEF e
<1>8. PointersRight(heap2)
  BY <1>1, <1>3, <1>5 DEF Linked, PointersRight
<1>9. HandsRight(heap2, thr2)
  BY <1>1, <1>2, <1>4, <1>6, <1>7 DEF Linked, HandsRight
<1>10. PointersApart(heap2)
  BY <1>1, <1>3 DEF Linked, PointersApart
<1>11. HandsApart(thr2)
  BY <1>1, <1>2, <1>6, <1>7 DEF Linked, HandsApart
<1>12. BothApart(heap2, thr2)
  BY <1>1, <1>2, <1>3, <1>5, <1>7 DEF Linked, BothApart
<1>13. AllOwned(heap2, thr2)
  <2> SUFFICES ASSUME NEW y \in Blocks, heap2[y].kind \in {"element", "message"}
               PROVE  \/ \E d \in Blocks : Referring(heap2, d) /\ heap2[d].to = y
                      \/ \E u \in Threads : HoldingOne(thr2, u) /\ thr2[u].block = y
    BY DEF AllOwned
  <2>1. heap[y].kind \in {"element", "message"}
    BY <1>1
  <2>2. CASE \E d \in Blocks : Referring(heap, d) /\ heap[d].to = y
    BY <1>1, <1>2, <1>3, <1>7, <2>2 DEF e
  <2>3. CASE \E u \in Threads : HoldingOne(thr, u) /\ thr[u].block = y
    BY <1>1, <1>2, <2>3
  <2> QED
    BY <2>1, <2>2, <2>3 DEF Linked, AllOwned
<1> QED
  BY <1>8, <1>9, <1>10, <1>11, <1>12, <1>13 DEF Linked

\* A thread frees the element it holds and its message.
LEMMA LinkedDestroyed ==
    ASSUME NEW heap, NEW heap1, NEW heap2, NEW thr, NEW thr2, NEW t \in Threads,
           Linked(heap, thr), Others(thr, thr2, t),
           Changes(heap, heap1, heap[thr[t].block].to, Free),
           Changes(heap1, heap2, thr[t].block, Free),
           thr[t].pc \in {"element", "polled"}, ~HoldingOne(thr2, t)
    PROVE  Linked(heap2, thr2)
<1> DEFINE e == thr[t].block
           b == heap[e].to
<1>1. /\ e \in Blocks /\ b \in Blocks /\ heap2[e].kind = "free"
      /\ \A y \in Blocks : y # e /\ y # b => heap2[y] = heap[y]
      /\ \A u \in Threads : u # t => thr2[u] = thr[u]
  BY FreeIs DEF Changes, Others
<1>2. heap2[b].kind = "free"
  BY <1>1, FreeIs DEF Changes
<1>3. /\ HoldingOne(thr, t) /\ heap[e].kind = "element"
      /\ \A u \in Threads : HoldingOne(thr2, u) => u # t
      /\ \A u \in Threads : u # t => (HoldingOne(thr2, u) <=> HoldingOne(thr, u))
  BY <1>1 DEF HoldingOne, Linked, HandsRight, Wanted
<1>4. Referring(heap, e) /\ heap[b].kind = "message" /\ b # e
  BY <1>1, <1>3 DEF Referring, Linked, PointersRight, Below
<1>5. \A y \in Blocks : Referring(heap2, y) <=> Referring(heap, y) /\ y # e
  BY <1>1, <1>2, <1>4 DEF Referring
<1>6. \A y \in Blocks : Referring(heap, y) => heap[y].to # e /\ (y # e => heap[y].to # b)
  BY <1>1, <1>3, <1>4 DEF Linked, BothApart, PointersApart
<1>7. \A u \in Threads : HoldingOne(thr, u) => (u # t => thr[u].block # e) /\ thr[u].block # b
  BY <1>1, <1>3, <1>4 DEF Linked, BothApart, HandsApart
<1>8. \A y \in Blocks : Referring(heap2, y) => y # e /\ y # b /\ heap2[y] = heap[y]
  BY <1>1, <1>2, <1>5 DEF Referring
<1> HIDE DEF b, e
<1>9. PointersRight(heap2)
  BY <1>1, <1>5, <1>6, <1>8 DEF Linked, PointersRight
<1>10. HandsRight(heap2, thr2)
  BY <1>1, <1>3, <1>7 DEF Linked, HandsRight
<1>11. PointersApart(heap2)
  BY <1>5, <1>8 DEF Linked, PointersApart
<1>12. HandsApart(thr2)
  BY <1>1, <1>3 DEF Linked, HandsApart
<1>13. BothApart(heap2, thr2)
  BY <1>1, <1>3, <1>5, <1>8 DEF Linked, BothApart
<1>14. AllOwned(heap2, thr2)
  <2> SUFFICES ASSUME NEW y \in Blocks, heap2[y].kind \in {"element", "message"}
               PROVE  \/ \E d \in Blocks : Referring(heap2, d) /\ heap2[d].to = y
                      \/ \E u \in Threads : HoldingOne(thr2, u) /\ thr2[u].block = y
    BY DEF AllOwned
  <2>1. y # e /\ y # b
    BY <1>1, <1>2
  <2>2. heap[y].kind \in {"element", "message"}
    BY <1>1, <2>1
  <2>3. ASSUME NEW d \in Blocks, Referring(heap, d), heap[d].to = y
        PROVE  Referring(heap2, d) /\ heap2[d].to = y
    <3>1. d # e
      BY <2>1, <2>3 DEF b
    <3> QED
      BY <1>5, <1>8, <2>3, <3>1
  <2>4. ASSUME NEW u \in Threads, HoldingOne(thr, u), thr[u].block = y
        PROVE  HoldingOne(thr2, u) /\ thr2[u].block = y
    <3>1. u # t
      BY <2>1, <2>4 DEF e
    <3> QED
      BY <1>1, <1>3, <2>4, <3>1
  <2> QED
    BY <2>2, <2>3, <2>4 DEF Linked, AllOwned
<1> QED
  BY <1>9, <1>10, <1>11, <1>12, <1>13, <1>14 DEF Linked

\* What is not a node, an element or a message may change, and so may what
\* threads do that hold nothing.
LEMMA LinkedSame ==
    ASSUME NEW heap, NEW heap2, NEW thr, NEW thr2, Linked(heap, thr),
           \A b \in Blocks : \/ heap2[b] = heap[b]
                             \/ /\ heap[b].kind \notin {"node", "element", "message"}
                                /\ heap2[b].kind \notin {"node", "element", "message"},
           \A t \in Threads : \/ thr2[t] = thr[t]
                              \/ ~HoldingOne(thr, t) /\ ~HoldingOne(thr2, t)
    PROVE  Linked(heap2, thr2)
<1>1. \A b \in Blocks : /\ Referring(heap2, b) <=> Referring(heap, b)
                        /\ Referring(heap, b) => heap2[b] = heap[b]
                        /\ heap[b].kind \in {"element", "message"} => heap2[b] = heap[b]
                        /\ heap2[b].kind \in {"element", "message"} => heap2[b] = heap[b]
  BY DEF Referring
<1>2. \A t \in Threads : /\ HoldingOne(thr2, t) <=> HoldingOne(thr, t)
                         /\ HoldingOne(thr, t) => thr2[t] = thr[t]
  BY DEF HoldingOne
<1>3. PointersRight(heap2)
  BY <1>1 DEF Linked, PointersRight, Below
<1>4. HandsRight(heap2, thr2)
  BY <1>1, <1>2 DEF Linked, HandsRight, Wanted
<1>5. PointersApart(heap2)
  BY <1>1 DEF Linked, PointersApart
<1>6. HandsApart(thr2)
  BY <1>2 DEF Linked, HandsApart
<1>7. BothApart(heap2, thr2)
  BY <1>1, <1>2 DEF Linked, BothApart
<1>8. AllOwned(heap2, thr2)
  BY <1>1, <1>2 DEF Linked, AllOwned
<1> QED
  BY <1>3, <1>4, <1>5, <1>6, <1>7, <1>8 DEF Linked

\* Where nobody holds anything and nothing refers, there is nothing to own.
LEMMA LinkedNothing ==
    ASSUME NEW heap, NEW thr,
           \A b \in Blocks : heap[b].kind \notin {"node", "element", "message"},
           \A t \in Threads : ~HoldingOne(thr, t)
    PROVE  Linked(heap, thr)
BY DEF Linked, PointersRight, HandsRight, PointersApart, HandsApart, BothApart, AllOwned, Referring

-----------------------------------------------------------------------------
(* The list of messages *)

\* The nodes from the newest message, which was the last one logged, to the n-th.
ListOf(heap, ring, s, c, n, last) ==
    /\ RingOf(ring, c, n)
    /\ c[0] = s
    /\ NodesOf(c, n) = {b \in Blocks : heap[b].kind = "node"}
    /\ \A i \in 1 .. n : heap[heap[c[i]].to].id = (last - i) + 1

Lists(heap, ring, s, n, last) == n \in Nat /\ \E c : ListOf(heap, ring, s, c, n, last)

LEMMA ListNodes ==
    ASSUME NEW heap, NEW ring, NEW s, NEW c, NEW n, NEW last, ListOf(heap, ring, s, c, n, last)
    PROVE  /\ Cycle(c, n) /\ n \in Nat
           /\ s \in Blocks /\ s \in Members(c, n) /\ Members(c, n) = NodesOf(c, n) \cup {s}
           /\ \A i \in 1 .. n : c[i] \in Blocks /\ heap[c[i]].kind = "node" /\ c[i] # s
           /\ ring.prev[s] = c[n]
<1>1. RingOf(ring, c, n) /\ Cycle(c, n) /\ n \in Nat /\ c[0] = s /\ c[n + 1] = c[0]
  BY DEF ListOf, RingOf, Cycle
<1>2. /\ NodesOf(c, n) = Members(c, n) \ {s} /\ s \in Members(c, n) /\ Members(c, n) \subseteq Blocks
      /\ \A i \in 1 .. n : c[i] # s /\ c[i] \in Blocks
  BY <1>1, NodesAre
<1>3. \A i \in 1 .. n : heap[c[i]].kind = "node"
  <2>1. \A i \in 1 .. n : c[i] \in NodesOf(c, n)
    BY DEF NodesOf
  <2> QED
    BY <2>1 DEF ListOf
<1>4. ring.prev[s] = c[n]
  <2>1. n \in 0 .. n
    BY <1>1
  <2> QED
    BY <1>1, <2>1 DEF RingOf
<1> QED
  BY <1>1, <1>2, <1>3, <1>4

LEMMA ListKept ==
    ASSUME NEW heap, NEW heap2, NEW ring, NEW s, NEW n, NEW last, Lists(heap, ring, s, n, last),
           \A b \in Blocks : heap2[b].kind = "node" => heap[b].kind = "node",
           \A b \in Blocks : heap[b].kind = "node" =>
               heap2[b] = heap[b] /\ heap2[heap[b].to] = heap[heap[b].to]
    PROVE  Lists(heap2, ring, s, n, last)
<1>1. PICK c : ListOf(heap, ring, s, c, n, last)
  BY DEF Lists
<1>2. \A i \in 1 .. n : c[i] \in Blocks /\ heap[c[i]].kind = "node"
  BY <1>1, ListNodes
<1>3. \A i \in 1 .. n : heap2[heap2[c[i]].to].id = (last - i) + 1
  BY <1>1, <1>2 DEF ListOf
<1>4. {b \in Blocks : heap2[b].kind = "node"} = {b \in Blocks : heap[b].kind = "node"}
  OBVIOUS
<1> QED
  BY <1>1, <1>3, <1>4 DEF Lists, ListOf

LEMMA ListEmpty ==
    ASSUME NEW heap, NEW ring, NEW s, NEW n, NEW last, Lists(heap, ring, s, n, last)
    PROVE  ring.prev[s] = s <=> n = 0
<1>1. PICK c : ListOf(heap, ring, s, c, n, last)
  BY DEF Lists
<1>2. n \in Nat /\ ring.prev[s] = c[n] /\ c[0] = s /\ \A i \in 1 .. n : c[i] # s
  <2>1. c[0] = s
    BY <1>1 DEF ListOf
  <2> QED
    BY <1>1, <2>1, ListNodes
<1>3. n = 0 \/ n \in 1 .. n
  BY <1>2
<1> QED
  BY <1>2, <1>3

\* A message more: an element for it and a node, next to the sentinel.
LEMMA ListLonger ==
    ASSUME NEW heap, NEW heap1, NEW heap2, NEW ring, NEW s, NEW n, NEW last \in Int,
           Lists(heap, ring, s, n, last), PointersRight(heap), heap[s].kind # "free",
           NEW e, NEW x, NEW node, NEW y,
           Changes(heap, heap1, e, x), Changes(heap1, heap2, node, y),
           heap[e].kind = "free", heap1[node].kind = "free",
           x.kind = "element", x.id = last + 1, y.kind = "node", y.to = e
    PROVE  Lists(heap2, Inserted(ring, s, node), s, n + 1, last + 1)
<1>1. PICK c : ListOf(heap, ring, s, c, n, last)
  BY DEF Lists
<1>2. /\ n \in Nat /\ s \in Blocks /\ Members(c, n) = NodesOf(c, n) \cup {s} /\ c[0] = s
      /\ \A i \in 1 .. n : c[i] \in Blocks /\ heap[c[i]].kind = "node"
  <2>1. c[0] = s
    BY <1>1 DEF ListOf
  <2> QED
    BY <1>1, <2>1, ListNodes
<1>3. /\ e \in Blocks /\ node \in Blocks /\ e # node /\ heap2[e] = x /\ heap2[node] = y
      /\ heap[node].kind = "free" /\ \A z \in Blocks : z # e /\ z # node => heap2[z] = heap[z]
  BY DEF Changes
<1>4. node \notin Members(c, n)
  <2>1. \A z \in NodesOf(c, n) : heap[z].kind = "node"
    BY <1>2 DEF NodesOf
  <2> QED
    BY <1>2, <1>3, <2>1
<1> DEFINE d == Longer(c, n, node)
<1>5. /\ RingOf(Inserted(ring, s, node), d, n + 1)
      /\ d[0] = s /\ d[1] = node /\ \A i \in 1 .. n : d[i + 1] = c[i]
      /\ Members(d, n + 1) = Members(c, n) \cup {node}
  BY <1>1, <1>2, <1>3, <1>4, InsertedIs DEF ListOf
<1> HIDE DEF d
<1>6. NodesOf(d, n + 1) = {z \in Blocks : heap2[z].kind = "node"}
  <2>1. NodesOf(d, n + 1) = Members(d, n + 1) \ {s}
    BY <1>5, NodesAre DEF RingOf
  <2>2. NodesOf(c, n) = Members(c, n) \ {s}
    BY <1>1, NodesAre DEF ListOf, RingOf
  <2>3. node # s
    BY <1>3
  <2>4. NodesOf(d, n + 1) = NodesOf(c, n) \cup {node}
    BY <1>5, <2>1, <2>2, <2>3
  <2>5. \A z \in Blocks : heap2[z].kind = "node" <=> heap[z].kind = "node" \/ z = node
    BY <1>3
  <2>6. NodesOf(c, n) = {z \in Blocks : heap[z].kind = "node"}
    BY <1>1 DEF ListOf
  <2> QED
    BY <1>3, <2>4, <2>5, <2>6
<1>7. ASSUME NEW i \in 1 .. n + 1 PROVE heap2[heap2[d[i]].to].id = ((last + 1) - i) + 1
  <2>1. CASE i = 1
    BY <1>3, <1>5, <2>1
  <2>2. CASE i # 1
    <3>1. i - 1 \in 1 .. n /\ (i - 1) + 1 = i
      BY <1>2, <2>2
    <3>2. d[i] = c[i - 1]
      <4>1. d[(i - 1) + 1] = c[i - 1]
        BY <1>5, <3>1
      <4> QED
        BY <3>1, <4>1
    <3>3. c[i - 1] \in Blocks /\ heap[c[i - 1]].kind = "node"
      BY <1>2, <3>1
    <3>4. heap[c[i - 1]].to \in Blocks /\ heap[heap[c[i - 1]].to].kind = "element"
      BY <3>3 DEF PointersRight, Referring, Below
    <3>5. heap2[c[i - 1]] = heap[c[i - 1]] /\ heap2[heap[c[i - 1]].to] = heap[heap[c[i - 1]].to]
      BY <1>3, <3>3, <3>4
    <3>6. heap[heap[c[i - 1]].to].id = (last - (i - 1)) + 1
      BY <1>1, <3>1 DEF ListOf
    <3>7. (last - (i - 1)) + 1 = ((last + 1) - i) + 1
      BY <1>2
    <3> QED
      BY <3>2, <3>5, <3>6, <3>7
  <2> QED
    BY <2>1, <2>2
<1>8. n + 1 \in Nat
  BY <1>2
<1> QED
  BY <1>5, <1>6, <1>7, <1>8 DEF Lists, ListOf

\* The oldest message leaves.
LEMMA ListShorter ==
    ASSUME NEW heap, NEW heap2, NEW ring, NEW s, NEW n, NEW last, NEW node,
           Lists(heap, ring, s, n, last), PointersRight(heap),
           node = ring.prev[s], node # s
    PROVE  /\ node \in Blocks /\ heap[node].kind = "node" /\ n \in Nat \ {0}
           /\ heap[heap[node].to].id = (last - n) + 1
           /\ Changes(heap, heap2, node, Free) =>
                 Lists(heap2, Unlinked(ring, node), s, n - 1, last)
<1>1. PICK c : ListOf(heap, ring, s, c, n, last)
  BY DEF Lists
<1>2. /\ n \in Nat \ {0} /\ node = c[n] /\ n \in 1 .. n /\ RingOf(ring, c, n) /\ c[0] = s
      /\ Cycle(c, n)
      /\ \A i \in 1 .. n : c[i] \in Blocks /\ heap[c[i]].kind = "node" /\ c[i] # s
  <2>1. n # 0
    BY ListEmpty
  <2>2. n \in Nat /\ node = c[n] /\ Cycle(c, n)
    BY <1>1, ListNodes
  <2>3. RingOf(ring, c, n) /\ c[0] = s
    BY <1>1 DEF ListOf
  <2>4. \A i \in 1 .. n : c[i] \in Blocks /\ heap[c[i]].kind = "node" /\ c[i] # s
    BY <1>1, ListNodes
  <2> QED
    BY <2>1, <2>2, <2>3, <2>4
<1>3. node \in Blocks /\ heap[node].kind = "node" /\ heap[heap[node].to].id = (last - n) + 1
  BY <1>1, <1>2 DEF ListOf
<1> DEFINE d == Shorter(c, n, n)
<1>4. /\ RingOf(Unlinked(ring, node), d, n - 1)
      /\ d[0] = s /\ \A i \in 1 .. n - 1 : d[i] = IF i < n THEN c[i] ELSE c[i + 1]
      /\ Members(d, n - 1) = Members(c, n) \ {node}
  BY <1>2, UnlinkedIs
<1> HIDE DEF d
<1>5. ASSUME Changes(heap, heap2, node, Free) PROVE Lists(heap2, Unlinked(ring, node), s, n - 1, last)
  <2>1. heap2[node].kind = "free" /\ \A z \in Blocks : z # node => heap2[z] = heap[z]
    BY <1>5, FreeIs DEF Changes
  <2>2. NodesOf(d, n - 1) = {z \in Blocks : heap2[z].kind = "node"}
    <3>1. NodesOf(d, n - 1) = Members(d, n - 1) \ {s}
      BY <1>4, NodesAre DEF RingOf
    <3>2. NodesOf(c, n) = Members(c, n) \ {s}
      BY <1>2, NodesAre
    <3>3. NodesOf(d, n - 1) = NodesOf(c, n) \ {node}
      BY <1>4, <3>1, <3>2
    <3>4. \A z \in Blocks : heap2[z].kind = "node" <=> heap[z].kind = "node" /\ z # node
      BY <2>1
    <3>5. NodesOf(c, n) = {z \in Blocks : heap[z].kind = "node"}
      BY <1>1 DEF ListOf
    <3> QED
      BY <3>3, <3>4, <3>5
  <2>3. ASSUME NEW i \in 1 .. n - 1 PROVE heap2[heap2[d[i]].to].id = (last - i) + 1
    <3>1. i \in 1 .. n /\ i < n /\ i # n /\ i \in 0 .. n /\ n \in 0 .. n
      BY <1>2
    <3>2. d[i] = c[i] /\ c[i] \in Blocks /\ heap[c[i]].kind = "node"
      BY <1>2, <1>4, <3>1
    <3>3. c[i] # node
      BY <1>2, <3>1 DEF Cycle
    <3>4. heap[c[i]].to \in Blocks /\ heap[heap[c[i]].to].kind = "element"
      BY <3>2 DEF PointersRight, Referring, Below
    <3>5. heap2[c[i]] = heap[c[i]] /\ heap2[heap[c[i]].to] = heap[heap[c[i]].to]
      BY <1>3, <2>1, <3>2, <3>3, <3>4
    <3> QED
      BY <1>1, <3>1, <3>2, <3>5 DEF ListOf
  <2>4. n - 1 \in Nat
    BY <1>2
  <2> QED
    BY <1>4, <2>2, <2>3, <2>4 DEF Lists, ListOf
<1> QED
  BY <1>2, <1>3, <1>5

-----------------------------------------------------------------------------
(* destroy_logger: what is left in the list *)

\* The memory after each node of s is freed, with its element and message.
FreesUpTo(h, m, s) ==
    h[0] = m /\ \A i \in 1 .. Len(s) : h[i] = NodeFreed(h[i - 1], s[i])

\* g frees the nodes of s with the numbers in d, the greatest last.
FreesOver(g, n, m, s) ==
    g = [d \in SUBSET (1 .. n) |-> IF d = {} THEN m ELSE NodeFreed(g[d \ {Max(d)}], s[Max(d)])]

LEMMA FreesExist ==
    ASSUME NEW n \in Nat, NEW m, NEW s
    PROVE  \E g : FreesOver(g, n, m, s)
<1> DEFINE S == {k \in 0 .. n : \E g : FreesOver(g, k, m, s)}
<1>1. 0 \in S
  <2> DEFINE g == [d \in SUBSET (1 .. 0) |-> m]
  <2>1. \A d \in SUBSET (1 .. 0) : d = {}
    OBVIOUS
  <2>2. FreesOver(g, 0, m, s)
    BY <2>1 DEF FreesOver
  <2> QED
    BY <2>2
<1>2. ASSUME NEW k \in 0 .. n - 1, k \in S PROVE k + 1 \in S
  <2>1. PICK g : FreesOver(g, k, m, s)
    BY <1>2
  <2> DEFINE g2 == [d \in SUBSET (1 .. k + 1) |->
                        IF d \subseteq 1 .. k THEN g[d]
                        ELSE NodeFreed(g[d \ {k + 1}], s[k + 1])]
  <2>2. k + 1 \in 1 .. n /\ \A d \in SUBSET (1 .. k + 1) : d \ {k + 1} \in SUBSET (1 .. k)
    OBVIOUS
  <2>3. \A d \in SUBSET (1 .. k) :
            g[d] = IF d = {} THEN m ELSE NodeFreed(g[d \ {Max(d)}], s[Max(d)])
    BY <2>1 DEF FreesOver
  <2>4. \A d \in SUBSET (1 .. k + 1) :
            g2[d] = IF d \subseteq 1 .. k THEN g[d] ELSE NodeFreed(g[d \ {k + 1}], s[k + 1])
    OBVIOUS
  <2>5. DOMAIN g2 = SUBSET (1 .. k + 1) /\ g2 = [d \in SUBSET (1 .. k + 1) |-> g2[d]]
    OBVIOUS
  <2> HIDE DEF g2
  <2>6. ASSUME NEW d \in SUBSET (1 .. k + 1)
        PROVE  g2[d] = IF d = {} THEN m ELSE NodeFreed(g2[d \ {Max(d)}], s[Max(d)])
    <3>1. CASE d \subseteq 1 .. k
      <4>1. d \ {Max(d)} \subseteq 1 .. k
        BY <3>1
      <4>2. g2[d] = g[d] /\ g2[d \ {Max(d)}] = g[d \ {Max(d)}]
        BY <2>4, <3>1, <4>1
      <4> QED
        BY <2>3, <3>1, <4>2
    <3>2. CASE ~(d \subseteq 1 .. k)
      <4>1. k + 1 \in d /\ d # {}
        BY <3>2
      <4>2. Max(d) = k + 1
        <5>1. k + 1 \in Nat
          OBVIOUS
        <5>2. Max(d) \in d /\ \A y \in d : Max(d) >= y
          BY ONLY <4>1, <5>1, d \in SUBSET (1 .. k + 1), MaxOfNumbers
        <5>3. Max(d) >= k + 1 /\ Max(d) \in 1 .. k + 1
          BY <4>1, <5>2
        <5> QED
          BY <5>3
      <4>3. g2[d \ {k + 1}] = g[d \ {k + 1}]
        BY <2>2, <2>4
      <4> QED
        BY <2>4, <3>2, <4>1, <4>2, <4>3
    <3> QED
      BY <3>1, <3>2
  <2>7. FreesOver(g2, k + 1, m, s)
    BY <2>5, <2>6 DEF FreesOver
  <2> QED
    BY <2>2, <2>7
<1>3. n \in S
  <2> HIDE DEF S
  <2> QED
    BY <1>1, <1>2, InductionUpTo
<1> QED
  BY <1>3

LEMMA FreedOneByOne ==
    ASSUME NEW m, NEW s, NEW n \in Nat, DOMAIN s = 1 .. n, Len(s) = n
    PROVE  \E h : h[n] = FoldLeft(NodeFreed, m, s) /\ FreesUpTo(h, m, s)
<1> DEFINE f[d \in SUBSET DOMAIN s] ==
               IF d = {} THEN m ELSE NodeFreed(f[d \ {Max(d)}], s[Max(d)])
<1>1. FoldLeft(NodeFreed, m, s) = f[DOMAIN s]
  BY DEF FoldLeft, MapThenFoldSet
<1>2. f = [d \in SUBSET DOMAIN s |->
              IF d = {} THEN m ELSE NodeFreed(f[d \ {Max(d)}], s[Max(d)])]
  <2>1. PICK g : FreesOver(g, n, m, s)
    BY FreesExist
  <2>2. g = [d \in SUBSET DOMAIN s |->
                IF d = {} THEN m ELSE NodeFreed(g[d \ {Max(d)}], s[Max(d)])]
    BY <2>1 DEF FreesOver
  <2> QED
    BY <2>2
<1> HIDE DEF f
<1> DEFINE h == [i \in 0 .. n |-> f[1 .. i]]
<1>3. h[0] = m
  <2>1. 1 .. 0 = {} /\ 0 \in 0 .. n /\ {} \in SUBSET DOMAIN s
    OBVIOUS
  <2> QED
    BY <1>2, <2>1
<1>4. \A i \in 1 .. n : h[i] = NodeFreed(h[i - 1], s[i])
  <2> TAKE i \in 1 .. n
  <2>1. Max(1 .. i) = i /\ (1 .. i) \ {i} = 1 .. i - 1
    BY MaxOfInterval
  <2>2. 1 .. i \in SUBSET DOMAIN s /\ 1 .. i # {}
    OBVIOUS
  <2>3. f[1 .. i] = NodeFreed(f[(1 .. i) \ {Max(1 .. i)}], s[Max(1 .. i)])
    BY ONLY <1>2, <2>2
  <2>4. i \in 0 .. n /\ i - 1 \in 0 .. n
    OBVIOUS
  <2>5. h[i] = f[1 .. i] /\ h[i - 1] = f[1 .. i - 1]
    BY ONLY <2>4
  <2> QED
    BY <2>1, <2>3, <2>5
<1>5. h[n] = f[1 .. n]
  OBVIOUS
<1> HIDE DEF h
<1> QED
  BY <1>1, <1>3, <1>4, <1>5 DEF FreesUpTo

\* What the first i nodes of s lead to.
LedTo(heap, s, i) ==
    {b \in Blocks : \E j \in 1 .. i : \/ b = s[j]
                                      \/ b = heap[s[j]].to
                                      \/ b = heap[heap[s[j]].to].to}

LEMMA ListFreed ==
    ASSUME NEW m, NEW s, NEW n \in Nat, DOMAIN s = 1 .. n, Len(s) = n, Region(m),
           PointersRight(m.heap), PointersApart(m.heap),
           \A i \in 1 .. n : s[i] \in Blocks /\ m.heap[s[i]].kind = "node",
           \A i, j \in 1 .. n : s[i] = s[j] => i = j
    PROVE  LET m2 == FoldLeft(NodeFreed, m, s) IN
           /\ Region(m2)
           /\ \A b \in LedTo(m.heap, s, n) : m2.heap[b] = Free
           /\ \A b \in Blocks \ LedTo(m.heap, s, n) : m2.heap[b] = m.heap[b]
<1>1. PICK h : h[n] = FoldLeft(NodeFreed, m, s) /\ FreesUpTo(h, m, s)
  BY FreedOneByOne
<1> DEFINE S == {i \in 0 .. n : /\ Region(h[i])
                                /\ \A b \in LedTo(m.heap, s, i) : h[i].heap[b] = Free
                                /\ \A b \in Blocks \ LedTo(m.heap, s, i) :
                                      h[i].heap[b] = m.heap[b]}
<1>2. 0 \in S
  <2>1. h[0] = m
    BY <1>1 DEF FreesUpTo
  <2>2. LedTo(m.heap, s, 0) = {}
    BY DEF LedTo
  <2> QED
    BY <2>1, <2>2
<1>3. ASSUME NEW i \in 0 .. n - 1, i \in S PROVE i + 1 \in S
  <2> DEFINE a == s[i + 1]
             e == m.heap[a].to
             b == m.heap[e].to
             k == h[i]
             k1 == Freed(k, b)
             k2 == Freed(k1, e)
             k3 == Freed(k2, a)
  <2>1. /\ i + 1 \in 1 .. n /\ i \in Nat
        /\ \A j \in 1 .. i : j \in 1 .. n /\ j # i + 1
        /\ \A j \in 1 .. i + 1 : j \in 1 .. i \/ j = i + 1
        /\ \A j \in 1 .. i : j \in 1 .. i + 1
        /\ i + 1 \in 1 .. i + 1
    OBVIOUS
  <2>2. /\ a \in Blocks /\ m.heap[a].kind = "node"
        /\ e \in Blocks /\ m.heap[e].kind = "element"
        /\ b \in Blocks /\ m.heap[b].kind = "message"
    BY <2>1 DEF PointersRight, Referring, Below
  <2>3. \A j \in 1 .. i :
            /\ s[j] \in Blocks /\ m.heap[s[j]].kind = "node" /\ s[j] # a
            /\ m.heap[s[j]].to \in Blocks /\ m.heap[m.heap[s[j]].to].kind = "element"
            /\ m.heap[m.heap[s[j]].to].to \in Blocks
            /\ m.heap[m.heap[m.heap[s[j]].to].to].kind = "message"
    BY <2>1, SMTT(30) DEF PointersRight, Referring, Below
  <2>4. \A j \in 1 .. i : m.heap[s[j]].to # e /\ m.heap[m.heap[s[j]].to].to # b
    BY <2>2, <2>3 DEF PointersApart, Referring
  <2>5. a \notin LedTo(m.heap, s, i) /\ e \notin LedTo(m.heap, s, i) /\ b \notin LedTo(m.heap, s, i)
    BY <2>2, <2>3, <2>4 DEF LedTo
  <2>6. LedTo(m.heap, s, i + 1) = LedTo(m.heap, s, i) \cup {a, e, b}
    BY <2>1, <2>2 DEF LedTo
  <2>7. Region(k) /\ k.heap[a] = m.heap[a] /\ k.heap[e] = m.heap[e] /\ k.heap[b] = m.heap[b]
    BY <1>3, <2>2, <2>5
  <2>8. h[i + 1] = k3
    <3>1. h[i + 1] = NodeFreed(h[(i + 1) - 1], s[i + 1]) /\ (i + 1) - 1 = i
      BY <1>1, <2>1 DEF FreesUpTo
    <3> QED
      BY <2>7, <3>1 DEF NodeFreed, ElementFreed
  <2>9. a # e /\ a # b /\ e # b
    BY <2>2
  <2> HIDE DEF a, e, b, k, k1, k2, k3
  <2>10. Region(k1) /\ Changes(k.heap, k1.heap, b, Free)
    BY <2>2, <2>7, FreedIs DEF k1
  <2>11. k1.heap[e].kind = "element" /\ k1.heap[a].kind = "node"
    BY <2>2, <2>7, <2>9, <2>10 DEF Changes
  <2>12. Region(k2) /\ Changes(k1.heap, k2.heap, e, Free)
    BY <2>2, <2>10, <2>11, FreedIs DEF k2
  <2>13. k2.heap[a].kind = "node"
    BY <2>2, <2>9, <2>11, <2>12 DEF Changes
  <2>14. Region(k3) /\ Changes(k2.heap, k3.heap, a, Free)
    BY <2>2, <2>12, <2>13, FreedIs DEF k3
  <2>15. /\ k3.heap[a] = Free /\ k3.heap[e] = Free /\ k3.heap[b] = Free
         /\ \A x \in Blocks : x # a /\ x # e /\ x # b => k3.heap[x] = k.heap[x]
    BY <2>2, <2>9, <2>10, <2>12, <2>14 DEF Changes
  <2>16. \A x \in LedTo(m.heap, s, i + 1) : k3.heap[x] = Free
    <3>1. \A x \in LedTo(m.heap, s, i) : x \in Blocks /\ k.heap[x] = Free
      BY <1>3 DEF LedTo, k
    <3> QED
      BY <2>5, <2>6, <2>15, <3>1
  <2>17. \A x \in Blocks \ LedTo(m.heap, s, i + 1) : k3.heap[x] = m.heap[x]
    <3>1. \A x \in Blocks \ LedTo(m.heap, s, i) : k.heap[x] = m.heap[x]
      BY <1>3 DEF k
    <3> QED
      BY <2>6, <2>15, <3>1
  <2> QED
    BY <2>1, <2>8, <2>14, <2>16, <2>17
<1> HIDE DEF S
<1>4. n \in S
  <2>1. \A i \in 0 .. n : i \in S
    BY ONLY n \in Nat, <1>2, <1>3, InductionUpTo
  <2> QED
    BY <2>1
<1> QED
  BY <1>1, <1>4 DEF S

-----------------------------------------------------------------------------
(* Threads and the references they have *)

Labels == {"unborn", "idle", "format", "log", "take", "element", "polled", "release",
           "destroy", "gone"}
ThreadRecord == [pc : Labels, owns : BOOLEAN, block : Blocks \cup {NoBlock}, detailed : BOOLEAN]
LoggerRecord == [block : Blocks \cup {NoBlock}, sentinel : Blocks \cup {NoBlock},
                 reference_count : Int, callback : BOOLEAN, since : Nat, ring : Links]

User(thr, t) == thr[t].pc \notin {"unborn", "gone"}
Owning(thr) == {t \in Threads : thr[t].owns}
Calling(thr) == {t \in Threads : thr[t].pc \in {"take", "element", "release"}}
Logging(thr) == {t \in Threads : thr[t].pc = "log"}

\* A thread that uses the logger outside of a callback owns a reference; one
\* that is not using it owns none.
OwnsRightly(r) ==
    /\ r.pc \in {"idle", "format", "log", "polled"} => r.owns
    /\ r.pc \in {"unborn", "gone", "destroy"} => ~r.owns

\* References are counted, and the logger exists while there is a user of it.
Counted(l, thr) ==
    /\ l.reference_count = Cardinality(Owning(thr)) + Cardinality(Calling(thr))
    /\ \A t \in Threads : OwnsRightly(thr[t])
    /\ l.block # NoBlock <=> \E t \in Threads : User(thr, t)
    /\ \A t, u \in Threads : thr[t].pc = "destroy" /\ User(thr, u) => u = t
    /\ thr[First].pc = "unborn" => \A t \in Threads : thr[t].pc = "unborn"

LEMMA IdleIs ==
    ASSUME NEW owns \in BOOLEAN
    PROVE  /\ Idle(owns) \in ThreadRecord
           /\ Idle(owns).pc = IF owns THEN "idle" ELSE "gone"
           /\ Idle(owns).owns = owns
           /\ Idle(owns).block = NoBlock
<1> DEFINE pc == IF owns THEN "idle" ELSE "gone"
<1>1. pc \in Labels
  BY DEF Labels
<1> HIDE DEF pc
<1>2. Idle(owns) = [pc |-> pc, owns |-> owns, block |-> NoBlock, detailed |-> FALSE]
  BY DEF Idle, pc
<1> QED
  BY <1>1, <1>2 DEF ThreadRecord, pc

LEMMA BecomesIs ==
    ASSUME thread \in [Threads -> ThreadRecord], NEW t \in Threads, NEW r \in ThreadRecord,
           Becomes(t, r)
    PROVE  /\ thread' \in [Threads -> ThreadRecord]
           /\ thread'[t] = r
           /\ Others(thread, thread', t)
BY DEF Becomes, Others

LEMMA GoesIs ==
    ASSUME thread \in [Threads -> ThreadRecord], NEW t \in Threads, NEW pc \in Labels, Goes(t, pc)
    PROVE  /\ thread' \in [Threads -> ThreadRecord]
           /\ thread'[t].pc = pc
           /\ thread'[t].owns = thread[t].owns
           /\ thread'[t].block = thread[t].block
           /\ Others(thread, thread', t)
<1> DEFINE r == [thread[t] EXCEPT !.pc = pc]
<1>1. thread[t] \in ThreadRecord
  OBVIOUS
<1>2. /\ r \in ThreadRecord /\ r.pc = pc /\ r.owns = thread[t].owns /\ r.block = thread[t].block
  BY <1>1 DEF ThreadRecord
<1>3. thread' = [thread EXCEPT ![t] = r]
  BY DEF Goes
<1> HIDE DEF r
<1> QED
  BY <1>2, <1>3 DEF Others

LEMMA GoesWithIs ==
    ASSUME thread \in [Threads -> ThreadRecord], NEW t \in Threads, NEW pc \in Labels,
           NEW b \in Blocks \cup {NoBlock}, GoesWith(t, pc, b)
    PROVE  /\ thread' \in [Threads -> ThreadRecord]
           /\ thread'[t].pc = pc
           /\ thread'[t].owns = thread[t].owns
           /\ thread'[t].block = b
           /\ Others(thread, thread', t)
<1> DEFINE r == [thread[t] EXCEPT !.pc = pc, !.block = b]
<1>1. thread[t] \in ThreadRecord
  OBVIOUS
<1>2. /\ r \in ThreadRecord /\ r.pc = pc /\ r.owns = thread[t].owns /\ r.block = b
  BY <1>1 DEF ThreadRecord
<1>3. thread' = [thread EXCEPT ![t] = r]
  BY DEF GoesWith
<1> HIDE DEF r
<1> QED
  BY <1>2, <1>3 DEF Others

LEMMA ThreadsFinite ==
    ASSUME NEW S \in SUBSET Threads
    PROVE  /\ IsFiniteSet(S)
           /\ Cardinality(S) \in 0 .. Cardinality(Threads)
           /\ Cardinality(Threads) \in Nat
           /\ S = {} <=> Cardinality(S) = 0
<1>1. IsFiniteSet(Threads)
  BY LoggerAssumption
<1>2. IsFiniteSet(S) /\ Cardinality(S) <= Cardinality(Threads)
  BY <1>1, FS_Subset
<1>3. Cardinality(S) \in Nat /\ Cardinality(Threads) \in Nat
  BY <1>1, <1>2, FS_CardinalityType
<1> QED
  BY <1>2, <1>3, FS_EmptySet

\* How a set of threads is counted when it changes by t at most.
LEMMA SetMoves ==
    ASSUME NEW S \in SUBSET Threads, NEW S2 \in SUBSET Threads, NEW t \in Threads,
           \A u \in Threads : u # t => (u \in S <=> u \in S2)
    PROVE  /\ (t \in S <=> t \in S2) => S2 = S /\ Cardinality(S2) = Cardinality(S)
           /\ t \notin S /\ t \in S2 => Cardinality(S2) = Cardinality(S) + 1
           /\ t \in S /\ t \notin S2 => Cardinality(S2) = Cardinality(S) - 1
<1>1. IsFiniteSet(S)
  BY ThreadsFinite
<1>2. ASSUME t \in S <=> t \in S2 PROVE S2 = S
  BY <1>2
<1>3. ASSUME t \notin S, t \in S2 PROVE Cardinality(S2) = Cardinality(S) + 1
  <2>1. S2 = S \cup {t}
    BY <1>3
  <2> QED
    BY <1>1, <1>3, <2>1, FS_AddElement
<1>4. ASSUME t \in S, t \notin S2 PROVE Cardinality(S2) = Cardinality(S) - 1
  <2>1. S2 = S \ {t}
    BY <1>4
  <2> QED
    BY <1>1, <1>4, <2>1, FS_RemoveElement
<1> QED
  BY <1>2, <1>3, <1>4

\* When t alone moves, the sets change by t at most.
LEMMA SetsMove ==
    ASSUME NEW thr, NEW thr2, NEW t \in Threads, Others(thr, thr2, t)
    PROVE  /\ Owning(thr) \in SUBSET Threads /\ Owning(thr2) \in SUBSET Threads
           /\ Calling(thr) \in SUBSET Threads /\ Calling(thr2) \in SUBSET Threads
           /\ Logging(thr) \in SUBSET Threads /\ Logging(thr2) \in SUBSET Threads
           /\ \A u \in Threads : u # t => /\ u \in Owning(thr) <=> u \in Owning(thr2)
                                          /\ u \in Calling(thr) <=> u \in Calling(thr2)
                                          /\ u \in Logging(thr) <=> u \in Logging(thr2)
BY DEF Others, Owning, Calling, Logging

\* A step of t that neither takes nor drops a reference.
LEMMA CountedKept ==
    ASSUME NEW l, NEW l2, NEW thr, NEW thr2, NEW t \in Threads,
           Counted(l, thr), Others(thr, thr2, t),
           l2.reference_count = l.reference_count, l2.block = l.block,
           User(thr, t), User(thr2, t), thr[t].pc # "destroy", thr2[t].pc # "destroy",
           t \in Owning(thr) <=> t \in Owning(thr2), t \in Calling(thr) <=> t \in Calling(thr2),
           OwnsRightly(thr2[t])
    PROVE  Counted(l2, thr2)
<1>1. \A u \in Threads : u # t => thr2[u] = thr[u]
  BY DEF Others
<1>2. Cardinality(Owning(thr2)) = Cardinality(Owning(thr))
  BY SetsMove, SetMoves
<1>3. Cardinality(Calling(thr2)) = Cardinality(Calling(thr))
  BY SetsMove, SetMoves
<1>4. \A u \in Threads : OwnsRightly(thr2[u])
  BY <1>1 DEF Counted
<1>5. l2.block # NoBlock <=> \E u \in Threads : User(thr2, u)
  BY DEF Counted
<1>6. \A u \in Threads : thr2[u].pc # "destroy"
  BY <1>1 DEF Counted
<1>7. thr2[First].pc = "unborn" => \A u \in Threads : thr2[u].pc = "unborn"
  <2>1. thr[First].pc # "unborn" /\ First \in Threads
    BY LoggerAssumption DEF Counted, User
  <2> QED
    BY <1>1, <2>1 DEF User
<1> QED
  BY <1>2, <1>3, <1>4, <1>5, <1>6, <1>7 DEF Counted

\* A step of a user w that gives t a reference, as the owner of the logger or
\* for its callback.
LEMMA CountedMore ==
    ASSUME NEW l, NEW l2, NEW thr, NEW thr2, NEW t \in Threads, NEW w \in Threads,
           Counted(l, thr), Others(thr, thr2, t),
           l2.reference_count = l.reference_count + 1, l2.block = l.block,
           User(thr, w), thr[w].pc # "destroy", User(thr2, t), thr2[t].pc # "destroy",
           \/ /\ t \notin Owning(thr) /\ t \in Owning(thr2)
              /\ t \in Calling(thr) <=> t \in Calling(thr2)
           \/ /\ t \notin Calling(thr) /\ t \in Calling(thr2)
              /\ t \in Owning(thr) <=> t \in Owning(thr2),
           OwnsRightly(thr2[t])
    PROVE  Counted(l2, thr2)
<1>1. \A u \in Threads : u # t => thr2[u] = thr[u]
  BY DEF Others
<1>2. l2.reference_count = Cardinality(Owning(thr2)) + Cardinality(Calling(thr2))
  <2>1. Owning(thr) \in SUBSET Threads /\ Calling(thr) \in SUBSET Threads
    BY SetsMove
  <2>2. Cardinality(Owning(thr)) \in Nat /\ Cardinality(Calling(thr)) \in Nat
    BY <2>1, ThreadsFinite
  <2>3. CASE /\ t \notin Owning(thr) /\ t \in Owning(thr2)
             /\ t \in Calling(thr) <=> t \in Calling(thr2)
    <3>1. Cardinality(Owning(thr2)) = Cardinality(Owning(thr)) + 1
      BY <2>3, SetsMove, SetMoves
    <3>2. Cardinality(Calling(thr2)) = Cardinality(Calling(thr))
      BY <2>3, SetsMove, SetMoves
    <3> QED
      BY <2>2, <3>1, <3>2 DEF Counted
  <2>4. CASE /\ t \notin Calling(thr) /\ t \in Calling(thr2)
             /\ t \in Owning(thr) <=> t \in Owning(thr2)
    <3>1. Cardinality(Calling(thr2)) = Cardinality(Calling(thr)) + 1
      BY <2>4, SetsMove, SetMoves
    <3>2. Cardinality(Owning(thr2)) = Cardinality(Owning(thr))
      BY <2>4, SetsMove, SetMoves
    <3> QED
      BY <2>2, <3>1, <3>2 DEF Counted
  <2> QED
    BY <2>3, <2>4
<1>3. \A u \in Threads : OwnsRightly(thr2[u])
  BY <1>1 DEF Counted
<1>4. l2.block # NoBlock <=> \E u \in Threads : User(thr2, u)
  BY DEF Counted
<1>5. \A u \in Threads : thr2[u].pc # "destroy"
  BY <1>1 DEF Counted
<1>6. thr2[First].pc = "unborn" => \A u \in Threads : thr2[u].pc = "unborn"
  <2>1. thr[First].pc # "unborn" /\ First \in Threads
    BY LoggerAssumption DEF Counted, User
  <2> QED
    BY <1>1, <2>1 DEF User
<1> QED
  BY <1>2, <1>3, <1>4, <1>5, <1>6 DEF Counted

\* A step of t that drops a reference; it is to destroy the logger if that was
\* the last one.
LEMMA CountedLess ==
    ASSUME NEW l, NEW l2, NEW thr, NEW thr2 \in [Threads -> ThreadRecord], NEW t \in Threads,
           Counted(l, thr), Others(thr, thr2, t),
           l2.reference_count = l.reference_count - 1, l2.block = l.block,
           User(thr, t), thr[t].pc # "destroy",
           \/ thr2[t].pc = "destroy" /\ l2.reference_count = 0
           \/ thr2[t].pc \notin {"destroy", "unborn"} /\ (l2.reference_count # 0 \/ User(thr2, t)),
           \/ /\ t \in Owning(thr) /\ t \notin Owning(thr2)
              /\ t \in Calling(thr) <=> t \in Calling(thr2)
           \/ /\ t \in Calling(thr) /\ t \notin Calling(thr2)
              /\ t \in Owning(thr) <=> t \in Owning(thr2),
           OwnsRightly(thr2[t])
    PROVE  Counted(l2, thr2)
<1>1. \A u \in Threads : u # t => thr2[u] = thr[u]
  BY DEF Others
<1>2. l2.reference_count = Cardinality(Owning(thr2)) + Cardinality(Calling(thr2))
  <2>1. Owning(thr) \in SUBSET Threads /\ Calling(thr) \in SUBSET Threads
    BY SetsMove
  <2>2. Cardinality(Owning(thr)) \in Nat /\ Cardinality(Calling(thr)) \in Nat
    BY <2>1, ThreadsFinite
  <2>3. CASE /\ t \in Owning(thr) /\ t \notin Owning(thr2)
             /\ t \in Calling(thr) <=> t \in Calling(thr2)
    <3>1. Cardinality(Owning(thr2)) = Cardinality(Owning(thr)) - 1
      BY <2>3, SetsMove, SetMoves
    <3>2. Cardinality(Calling(thr2)) = Cardinality(Calling(thr))
      BY <2>3, SetsMove, SetMoves
    <3> QED
      BY <2>2, <3>1, <3>2 DEF Counted
  <2>4. CASE /\ t \in Calling(thr) /\ t \notin Calling(thr2)
             /\ t \in Owning(thr) <=> t \in Owning(thr2)
    <3>1. Cardinality(Calling(thr2)) = Cardinality(Calling(thr)) - 1
      BY <2>4, SetsMove, SetMoves
    <3>2. Cardinality(Owning(thr2)) = Cardinality(Owning(thr))
      BY <2>4, SetsMove, SetMoves
    <3> QED
      BY <2>2, <3>1, <3>2 DEF Counted
  <2> QED
    BY <2>3, <2>4
<1>3. \A u \in Threads : OwnsRightly(thr2[u])
  BY <1>1 DEF Counted
<1>4. /\ Cardinality(Owning(thr2)) \in Nat /\ Cardinality(Calling(thr2)) \in Nat
      /\ Owning(thr2) = {} <=> Cardinality(Owning(thr2)) = 0
      /\ Calling(thr2) = {} <=> Cardinality(Calling(thr2)) = 0
  BY SetsMove, ThreadsFinite
<1>5. l2.reference_count = 0 <=> Owning(thr2) = {} /\ Calling(thr2) = {}
  <2> DEFINE x == Cardinality(Owning(thr2))
             y == Cardinality(Calling(thr2))
  <2>1. x \in Nat /\ y \in Nat /\ l2.reference_count = x + y
    BY <1>2, <1>4
  <2> HIDE DEF x, y
  <2> DEFINE z == l2.reference_count
  <2>2. x \in Nat /\ y \in Nat /\ z = x + y
    BY <2>1
  <2> HIDE DEF z
  <2>3. z = 0 <=> x = 0 /\ y = 0
    BY ONLY <2>2
  <2> QED
    BY <1>4, <2>3 DEF x, y, z
<1>6. \A u \in Threads : u \in Owning(thr2) \/ u \in Calling(thr2) => User(thr2, u)
  BY <1>3 DEF Owning, Calling, User, OwnsRightly
<1>7. \A u \in Threads : User(thr2, u) =>
          u \in Owning(thr2) \/ u \in Calling(thr2) \/ thr2[u].pc = "destroy"
  <2>1. \A u \in Threads : thr2[u].pc \in Labels
    BY DEF ThreadRecord
  <2> QED
    BY <1>3, <2>1 DEF Owning, Calling, User, OwnsRightly, Labels
<1>8. \A u \in Threads : u # t => thr2[u].pc # "destroy"
  BY <1>1 DEF Counted
<1>9. l2.block # NoBlock <=> \E u \in Threads : User(thr2, u)
  <2>1. l2.block # NoBlock
    BY DEF Counted
  <2>2. \E u \in Threads : User(thr2, u)
    <3>1. CASE thr2[t].pc = "destroy"
      BY <3>1 DEF User
    <3>2. CASE User(thr2, t)
      BY <3>2
    <3>3. CASE l2.reference_count # 0
      <4>1. PICK u : u \in Owning(thr2) \/ u \in Calling(thr2)
        BY <1>5, <3>3
      <4>2. u \in Threads
        BY <4>1 DEF Owning, Calling
      <4> QED
        BY <1>6, <4>1, <4>2
    <3> QED
      BY <3>1, <3>2, <3>3
  <2> QED
    BY <2>1, <2>2
<1>10. \A v, u \in Threads : thr2[v].pc = "destroy" /\ User(thr2, u) => u = v
  <2> SUFFICES ASSUME NEW v \in Threads, NEW u \in Threads, thr2[v].pc = "destroy", User(thr2, u)
               PROVE  u = v
    OBVIOUS
  <2>1. v = t /\ l2.reference_count = 0
    BY <1>8
  <2> QED
    BY <1>5, <1>7, <1>8, <2>1
<1>11. thr2[First].pc = "unborn" => \A u \in Threads : thr2[u].pc = "unborn"
  <2>1. thr[First].pc # "unborn" /\ First \in Threads
    BY LoggerAssumption DEF Counted, User
  <2> QED
    BY <1>1, <2>1 DEF User
<1> QED
  BY <1>2, <1>3, <1>9, <1>10, <1>11 DEF Counted

-----------------------------------------------------------------------------
(* The invariant *)

\* Where the region, the logger and the sentinel of its list are.
Stored(m, l) ==
    /\ Region(m) \/ m = NoMemory
    /\ l.block # NoBlock =>
          /\ Region(m)
          /\ l.block \in Blocks /\ m.heap[l.block].kind = "logger"
          /\ l.sentinel \in Blocks /\ m.heap[l.sentinel].kind = "ring"
    /\ \A b \in Blocks :
          /\ m.heap[b].kind \in {"logger", "ring", "node"} => l.block # NoBlock
          /\ m.heap[b].kind = "logger" => b = l.block
          /\ m.heap[b].kind = "ring" => b = l.sentinel
          /\ m.heap[b].kind = "sentinel" => b = Sentinel

\* Every message that is to be logged has room for its element and its node.
Roomy(m, thr, n, last) ==
    /\ n \in 0 .. MaxCalls
    /\ last + Cardinality(Logging(thr)) <= n
    /\ Cardinality(InUse(m)) + 2 * Cardinality(Logging(thr)) <= 3 + 3 * n

NobodyCalls(thr) == \A t \in Threads : thr[t].pc \notin InCallback

\* The list has the messages after the one taken last, up to the last one; when
\* nobody drains it, the callback was set after the last one.
ListIs(m, l, thr, last, first, n) ==
    /\ Lists(m.heap, l.ring, l.sentinel, n, last)
    /\ first + n = last
    /\ l.since <= last
    /\ l.callback /\ NobodyCalls(thr) => n = 0 \/ last <= l.since

Listing(m, l, thr, last, first) == l.block # NoBlock => \E n : ListIs(m, l, thr, last, first, n)

Typed ==
    /\ thread \in [Threads -> ThreadRecord]
    /\ logger \in LoggerRecord
    /\ logged \in Nat
    /\ taken \in 0 .. logged
    /\ non_freed \in {-1, 0}

LoggerInv ==
    /\ Typed
    /\ Counted(logger, thread)
    /\ Stored(memory, logger)
    /\ Roomy(memory, thread, calls, logged)
    /\ Linked(memory.heap, thread)
    /\ Listing(memory, logger, thread, logged, taken)

\* The heap of no region is free.
LEMMA NoMemoryIs ==
    /\ NoMemory.heap \in [Blocks -> Content]
    /\ \A b \in Blocks : NoMemory.heap[b] = Free
    /\ InUse(NoMemory) = {}
    /\ ~RegionAlive(NoMemory)
BY FreeIs, SentinelIsBlock DEF NoMemory, InUse, RegionAlive

LEMMA NoLinksAre == NoLinks \in Links
BY DEF NoLinks, Links, Link

\* Without a logger nothing but the sentinel of the region is in use.
LEMMA NothingInUse ==
    ASSUME NEW m, NEW l, NEW thr, Stored(m, l), Linked(m.heap, thr), Counted(l, thr),
           l.block = NoBlock
    PROVE  /\ \A t \in Threads : ~User(thr, t) /\ ~HoldingOne(thr, t)
           /\ \A b \in Blocks : m.heap[b].kind \in {"free", "sentinel"}
           /\ Region(m) => InUse(m) = {Sentinel}
           /\ Logging(thr) = {} /\ Calling(thr) = {} /\ Owning(thr) = {}
<1>1. \A t \in Threads : ~User(thr, t)
  BY DEF Counted
<1>2. \A t \in Threads : ~HoldingOne(thr, t) /\ ~thr[t].owns
  BY <1>1 DEF User, HoldingOne, Counted, OwnsRightly
<1>3. m.heap \in [Blocks -> Content]
  BY NoMemoryIs DEF Stored, Region
<1>4. \A b \in Blocks : m.heap[b].kind \notin {"logger", "ring", "node"}
  BY DEF Stored
<1>5. \A b \in Blocks : m.heap[b].kind # "element"
  <2> SUFFICES ASSUME NEW b \in Blocks, m.heap[b].kind = "element" PROVE FALSE
    OBVIOUS
  <2>1. PICK d \in Blocks : Referring(m.heap, d) /\ m.heap[d].to = b
    BY <1>2 DEF Linked, AllOwned
  <2>2. m.heap[d].kind = "element" /\ m.heap[b].kind = "message"
    BY <1>4, <2>1 DEF Linked, PointersRight, Referring, Below
  <2> QED
    BY <2>2
<1>6. \A b \in Blocks : m.heap[b].kind # "message"
  <2> SUFFICES ASSUME NEW b \in Blocks, m.heap[b].kind = "message" PROVE FALSE
    OBVIOUS
  <2>1. PICK d \in Blocks : Referring(m.heap, d) /\ m.heap[d].to = b
    BY <1>2 DEF Linked, AllOwned
  <2> QED
    BY <1>4, <1>5, <2>1 DEF Referring
<1>7. \A b \in Blocks : m.heap[b].kind \in {"free", "sentinel"}
  <2>1. \A b \in Blocks : m.heap[b].kind \in Kinds
    BY <1>3 DEF Content
  <2> QED
    BY <1>4, <1>5, <1>6, <2>1 DEF Kinds
<1>8. ASSUME Region(m) PROVE InUse(m) = {Sentinel}
  <2>1. \A b \in Blocks : b \in InUse(m) <=> m.heap[b].kind # "free"
    BY <1>8, InUseIs
  <2>2. \A b \in Blocks : m.heap[b].kind = "sentinel" <=> b = Sentinel
    BY <1>8 DEF Region, Stored
  <2> QED
    BY <1>7, <2>1, <2>2, SentinelIsBlock DEF InUse
<1>9. Logging(thr) = {} /\ Calling(thr) = {} /\ Owning(thr) = {}
  BY <1>1, <1>2 DEF Logging, Calling, Owning, User
<1> QED
  BY <1>1, <1>2, <1>7, <1>8, <1>9

LEMMA InitInv == Init => LoggerInv
<1> SUFFICES ASSUME Init PROVE LoggerInv
  OBVIOUS
<1> USE DEF Init
<1>1. /\ thread \in [Threads -> ThreadRecord]
      /\ \A t \in Threads : thread[t].pc = "unborn" /\ ~thread[t].owns
  <2>1. Unborn \in ThreadRecord /\ Unborn.pc = "unborn" /\ ~Unborn.owns
    BY DEF Unborn, ThreadRecord, Labels
  <2> QED
    BY <2>1
<1>2. /\ logger \in LoggerRecord /\ logger.block = NoBlock /\ logger.reference_count = 0
  BY NoLinksAre DEF NoLogger, LoggerRecord
<1>3. Typed
  BY <1>1, <1>2 DEF Typed
<1>4. Logging(thread) = {} /\ Calling(thread) = {} /\ Owning(thread) = {}
  BY <1>1 DEF Logging, Calling, Owning
<1>5. Counted(logger, thread)
  <2>1. logger.reference_count = Cardinality(Owning(thread)) + Cardinality(Calling(thread))
    BY <1>2, <1>4, FS_EmptySet
  <2> QED
    BY <1>1, <1>2, <2>1 DEF Counted, OwnsRightly, User
<1>6. Stored(memory, logger)
  <2>1. memory = NoMemory /\ \A b \in Blocks : memory.heap[b].kind = "free"
    BY NoMemoryIs, FreeIs
  <2> QED
    BY <1>2, <2>1 DEF Stored
<1>7. Roomy(memory, thread, calls, logged)
  BY <1>4, NoMemoryIs, FS_EmptySet, LoggerAssumption DEF Roomy
<1>8. Linked(memory.heap, thread)
  <2>1. \A b \in Blocks : memory.heap[b].kind \notin {"node", "element", "message"}
    BY NoMemoryIs, FreeIs
  <2>2. \A t \in Threads : ~HoldingOne(thread, t)
    BY <1>1 DEF HoldingOne
  <2> QED
    BY <2>1, <2>2, LinkedNothing
<1>9. Listing(memory, logger, thread, logged, taken)
  BY <1>2 DEF Listing
<1> QED
  BY <1>3, <1>5, <1>6, <1>7, <1>8, <1>9 DEF LoggerInv

-----------------------------------------------------------------------------
(* Steps that leave the memory alone *)

LEMMA UserHasLogger ==
    ASSUME LoggerInv, NEW t \in Threads, User(thread, t)
    PROVE  /\ logger.block # NoBlock /\ Region(memory)
           /\ logger.block \in Blocks /\ memory.heap[logger.block].kind = "logger"
           /\ logger.sentinel \in Blocks /\ memory.heap[logger.sentinel].kind = "ring"
<1>1. logger.block # NoBlock
  BY DEF LoggerInv, Counted
<1> QED
  BY <1>1 DEF LoggerInv, Stored

LEMMA RecountedIs ==
    ASSUME logger \in LoggerRecord, NEW k \in Int, logger' = [logger EXCEPT !.reference_count = k]
    PROVE  /\ logger' \in LoggerRecord
           /\ logger'.reference_count = k
           /\ logger'.block = logger.block /\ logger'.sentinel = logger.sentinel
           /\ logger'.ring = logger.ring /\ logger'.since = logger.since
           /\ logger'.callback = logger.callback
BY DEF LoggerRecord

LEMMA LoggingSame ==
    ASSUME NEW thr, NEW thr2,
           \A t \in Threads : \/ thr2[t] = thr[t]
                              \/ ~HoldingOne(thr, t) /\ ~HoldingOne(thr2, t)
    PROVE  Logging(thr2) = Logging(thr)
BY DEF Logging, HoldingOne

\* The list, the memory and the counters stay; the invariant then depends on
\* the references and on who is left to drain the list.
LEMMA QuietStep ==
    ASSUME LoggerInv, UNCHANGED <<memory, logged, taken, calls, non_freed>>,
           thread' \in [Threads -> ThreadRecord], logger' \in LoggerRecord,
           logger'.block = logger.block, logger'.sentinel = logger.sentinel,
           logger'.ring = logger.ring,
           \A t \in Threads : \/ thread'[t] = thread[t]
                              \/ ~HoldingOne(thread, t) /\ ~HoldingOne(thread', t),
           Counted(logger', thread'),
           \/ logger'.since = logged
           \/ /\ logger'.since = logger.since
              /\ logger'.callback /\ NobodyCalls(thread') =>
                    \/ logger.callback /\ NobodyCalls(thread)
                    \/ logger.ring.prev[logger.sentinel] = logger.sentinel
    PROVE  LoggerInv'
<1>1. Typed'
  BY DEF LoggerInv, Typed
<1>2. Stored(memory, logger)'
  BY DEF LoggerInv, Stored
<1>3. Roomy(memory, thread, calls, logged)'
  <2>1. Logging(thread') = Logging(thread)
    BY LoggingSame
  <2> QED
    BY <2>1 DEF LoggerInv, Roomy
<1>4. Linked(memory.heap, thread)'
  BY LinkedSame DEF LoggerInv
<1>5. Listing(memory, logger, thread, logged, taken)'
  <2> SUFFICES ASSUME logger.block # NoBlock
               PROVE  \E n : ListIs(memory', logger', thread', logged', taken', n)
    BY DEF Listing
  <2>1. PICK n : ListIs(memory, logger, thread, logged, taken, n)
    BY DEF LoggerInv, Listing
  <2>2. /\ Lists(memory'.heap, logger'.ring, logger'.sentinel, n, logged')
        /\ taken' + n = logged'
    BY <2>1 DEF ListIs
  <2>3. logger'.since <= logged'
    BY <2>1 DEF ListIs, LoggerInv, Typed
  <2>4. logger'.callback /\ NobodyCalls(thread') => n = 0 \/ logged' <= logger'.since
    <3>1. CASE logger'.since = logged
      BY <3>1 DEF LoggerInv, Typed
    <3>2. CASE /\ logger'.since = logger.since
               /\ logger'.callback /\ NobodyCalls(thread') =>
                     \/ logger.callback /\ NobodyCalls(thread)
                     \/ logger.ring.prev[logger.sentinel] = logger.sentinel
      <4>1. logger.ring.prev[logger.sentinel] = logger.sentinel => n = 0
        BY <2>1, ListEmpty DEF ListIs
      <4>2. logger.callback /\ NobodyCalls(thread) => n = 0 \/ logged <= logger.since
        BY <2>1 DEF ListIs
      <4> QED
        BY <3>2, <4>1, <4>2
    <3> QED
      BY <3>1, <3>2
  <2> QED
    BY <2>2, <2>3, <2>4 DEF ListIs
<1> QED
  BY <1>1, <1>2, <1>3, <1>4, <1>5 DEF LoggerInv

LEMMA HandOverInv ==
    ASSUME LoggerInv, NEW t \in Threads, NEW u \in Threads, HandOver(t, u)
    PROVE  LoggerInv'
<1>1. /\ thread[t].pc = "idle" /\ thread[u].pc = "unborn" /\ Becomes(u, Idle(TRUE))
      /\ logger' = [logger EXCEPT !.reference_count = logger.reference_count + 1]
      /\ UNCHANGED <<memory, logged, taken, calls, non_freed>>
  BY DEF HandOver, At
<1>2. thread \in [Threads -> ThreadRecord] /\ logger \in LoggerRecord /\ Counted(logger, thread)
  BY DEF LoggerInv, Typed
<1>3. /\ thread' \in [Threads -> ThreadRecord] /\ Others(thread, thread', u)
      /\ thread'[u].pc = "idle" /\ thread'[u].owns
  BY <1>1, <1>2, BecomesIs, IdleIs
<1>4. /\ logger' \in LoggerRecord /\ logger'.reference_count = logger.reference_count + 1
      /\ logger'.block = logger.block /\ logger'.sentinel = logger.sentinel
      /\ logger'.ring = logger.ring /\ logger'.since = logger.since
      /\ logger'.callback = logger.callback
  <2>1. logger.reference_count + 1 \in Int
    BY <1>2 DEF LoggerRecord
  <2> QED
    BY <1>1, <1>2, <2>1, RecountedIs
<1>5. ~thread[u].owns
  BY <1>1, <1>2 DEF Counted, OwnsRightly
<1>6. Counted(logger', thread')
  <2>1. User(thread, t) /\ thread[t].pc # "destroy" /\ User(thread', u) /\ thread'[u].pc # "destroy"
    BY <1>1, <1>3 DEF User
  <2>2. u \notin Owning(thread) /\ u \in Owning(thread')
    BY <1>3, <1>5 DEF Owning
  <2>3. u \notin Calling(thread) /\ u \notin Calling(thread')
    BY <1>1, <1>3 DEF Calling
  <2>4. OwnsRightly(thread'[u])
    BY <1>3 DEF OwnsRightly
  <2> QED
    BY <1>2, <1>3, <1>4, <2>1, <2>2, <2>3, <2>4, CountedMore
<1>7. \A v \in Threads : \/ thread'[v] = thread[v]
                         \/ ~HoldingOne(thread, v) /\ ~HoldingOne(thread', v)
  BY <1>1, <1>3 DEF Others, HoldingOne
<1>8. NobodyCalls(thread') => NobodyCalls(thread)
  BY <1>1, <1>3 DEF Others, NobodyCalls, InCallback
<1> QED
  BY <1>1, <1>3, <1>4, <1>6, <1>7, <1>8, QuietStep

\* The critical section of armd_logger_decrement_reference_count.
LEMMA DroppedIs ==
    ASSUME LoggerInv, NEW t \in Threads, NEW owns \in BOOLEAN, Dropped(t, owns),
           User(thread, t), thread[t].pc # "destroy",
           \/ thread[t].owns /\ ~owns /\ t \notin Calling(thread)
           \/ t \in Calling(thread) /\ (thread[t].owns <=> owns)
    PROVE  /\ Counted(logger', thread')
           /\ thread' \in [Threads -> ThreadRecord] /\ Others(thread, thread', t)
           /\ thread'[t].pc \in {"idle", "gone", "destroy"}
           /\ logger' \in LoggerRecord
           /\ logger'.block = logger.block /\ logger'.sentinel = logger.sentinel
           /\ logger'.ring = logger.ring /\ logger'.since = logger.since
           /\ logger'.callback = logger.callback
<1> DEFINE k == logger.reference_count - 1
           pc == IF k = 0 THEN "destroy" ELSE Idle(owns).pc
           r == [Idle(owns) EXCEPT !.pc = pc]
<1>1. thread \in [Threads -> ThreadRecord] /\ logger \in LoggerRecord /\ Counted(logger, thread)
  BY DEF LoggerInv, Typed
<1>2. k \in Int
  BY <1>1 DEF LoggerRecord
<1>3. logger' = [logger EXCEPT !.reference_count = k]
  BY DEF Dropped, Dereferenced
<1>4. Becomes(t, r)
  BY DEF Dropped, Dereferenced
<1> HIDE DEF k
<1>5. /\ logger' \in LoggerRecord /\ logger'.reference_count = k
      /\ logger'.block = logger.block /\ logger'.sentinel = logger.sentinel
      /\ logger'.ring = logger.ring /\ logger'.since = logger.since
      /\ logger'.callback = logger.callback
  BY <1>1, <1>2, <1>3, RecountedIs
<1>6. pc \in Labels /\ pc \in {"idle", "gone", "destroy"}
  BY IdleIs DEF Labels
<1>7. /\ k = 0 => pc = "destroy"
      /\ k # 0 => pc = IF owns THEN "idle" ELSE "gone"
  BY IdleIs
<1> HIDE DEF pc
<1>8. r \in ThreadRecord /\ r.pc = pc /\ r.owns = owns
  <2>1. Idle(owns) \in ThreadRecord /\ Idle(owns).owns = owns
    BY IdleIs
  <2> QED
    BY <1>6, <2>1 DEF ThreadRecord
<1> HIDE DEF r
<1>9. /\ thread' \in [Threads -> ThreadRecord] /\ Others(thread, thread', t)
      /\ thread'[t].pc = pc /\ thread'[t].owns = owns
  BY <1>1, <1>4, <1>8, BecomesIs
<1>10. t \notin Calling(thread')
  BY <1>6, <1>9 DEF Calling
<1>11. \/ /\ t \in Owning(thread) /\ t \notin Owning(thread')
          /\ t \in Calling(thread) <=> t \in Calling(thread')
       \/ /\ t \in Calling(thread) /\ t \notin Calling(thread')
          /\ t \in Owning(thread) <=> t \in Owning(thread')
  BY <1>9, <1>10 DEF Owning
\* When the count is zero, the thread owns nothing any more.
<1>12. k = 0 => ~owns
  <2> SUFFICES ASSUME k = 0, owns PROVE FALSE
    OBVIOUS
  <2>1. t \in Calling(thread) /\ t \in Owning(thread)
    BY DEF Owning
  <2>2. /\ Owning(thread) \in SUBSET Threads /\ Calling(thread) \in SUBSET Threads
        /\ Owning(thread) # {} /\ Calling(thread) # {}
    BY <2>1 DEF Owning, Calling
  <2>3. Cardinality(Owning(thread)) >= 1 /\ Cardinality(Calling(thread)) >= 1
    <3>1. /\ Cardinality(Owning(thread)) \in Nat /\ Cardinality(Calling(thread)) \in Nat
          /\ Cardinality(Owning(thread)) # 0 /\ Cardinality(Calling(thread)) # 0
      BY <2>2, ThreadsFinite
    <3> QED
      BY <3>1
  <2>4. /\ logger.reference_count = Cardinality(Owning(thread)) + Cardinality(Calling(thread))
        /\ Cardinality(Owning(thread)) \in Nat /\ Cardinality(Calling(thread)) \in Nat
    BY <1>1, <2>2, ThreadsFinite DEF Counted
  <2> QED
    BY <2>3, <2>4 DEF k
<1>13. OwnsRightly(thread'[t])
  <2>1. CASE k = 0
    BY <1>7, <1>9, <1>12, <2>1 DEF OwnsRightly
  <2>2. CASE k # 0
    BY <1>7, <1>9, <2>2 DEF OwnsRightly
  <2> QED
    BY <2>1, <2>2
<1>14. \/ thread'[t].pc = "destroy" /\ logger'.reference_count = 0
       \/ thread'[t].pc \notin {"destroy", "unborn"} /\ logger'.reference_count # 0
  BY <1>5, <1>7, <1>9
<1>15. Counted(logger', thread')
  <2>1. logger'.reference_count = logger.reference_count - 1
    BY <1>5 DEF k
  <2> QED
    BY <1>1, <1>5, <1>9, <1>11, <1>13, <1>14, <2>1, CountedLess
<1> QED
  BY <1>5, <1>6, <1>9, <1>15

\* What remains to be shown of a thread that dropped a reference.
LEMMA DropStep ==
    ASSUME LoggerInv, NEW t \in Threads, NEW owns \in BOOLEAN, Dropped(t, owns),
           UNCHANGED <<memory, logged, taken, calls, non_freed>>,
           thread[t].pc \in {"idle", "release"},
           \/ thread[t].owns /\ ~owns /\ t \notin Calling(thread)
           \/ t \in Calling(thread) /\ (thread[t].owns <=> owns)
    PROVE  LoggerInv'
<1>1. /\ Counted(logger', thread')
      /\ thread' \in [Threads -> ThreadRecord] /\ Others(thread, thread', t)
      /\ thread'[t].pc \in {"idle", "gone", "destroy"}
      /\ logger' \in LoggerRecord
      /\ logger'.block = logger.block /\ logger'.sentinel = logger.sentinel
      /\ logger'.ring = logger.ring /\ logger'.since = logger.since
      /\ logger'.callback = logger.callback
  <2>1. User(thread, t) /\ thread[t].pc # "destroy"
    BY DEF User
  <2> QED
    BY <2>1, DroppedIs
<1>2. \A v \in Threads : \/ thread'[v] = thread[v]
                         \/ ~HoldingOne(thread, v) /\ ~HoldingOne(thread', v)
  BY <1>1 DEF Others, HoldingOne
<1>3. NobodyCalls(thread') => NobodyCalls(thread)
  BY <1>1 DEF Others, NobodyCalls, InCallback
<1> QED
  BY <1>1, <1>2, <1>3, QuietStep

LEMMA DropOwnInv ==
    ASSUME LoggerInv, NEW t \in Threads, DropOwn(t)
    PROVE  LoggerInv'
<1>1. /\ thread[t].pc = "idle" /\ Dropped(t, FALSE)
      /\ UNCHANGED <<memory, logged, taken, calls, non_freed>>
  BY DEF DropOwn, At
<1>2. thread[t].owns /\ t \notin Calling(thread)
  BY <1>1 DEF LoggerInv, Counted, OwnsRightly, Calling
<1> QED
  BY <1>1, <1>2, DropStep

LEMMA EndCallbackInv ==
    ASSUME LoggerInv, NEW t \in Threads, EndCallback(t)
    PROVE  LoggerInv'
<1>1. /\ thread[t].pc = "release" /\ Dropped(t, thread[t].owns)
      /\ UNCHANGED <<memory, logged, taken, calls, non_freed>>
  BY DEF EndCallback, At
<1>2. thread[t].owns \in BOOLEAN /\ t \in Calling(thread)
  BY <1>1 DEF LoggerInv, Typed, ThreadRecord, Calling
<1> QED
  BY <1>1, <1>2, DropStep

LEMMA SetCallbackInv ==
    ASSUME LoggerInv, NEW t \in Threads, SetCallback(t)
    PROVE  LoggerInv'
<1>1. /\ logger' = [logger EXCEPT !.callback = TRUE, !.since = logged]
      /\ UNCHANGED <<memory, thread, logged, taken, calls, non_freed>>
  BY DEF SetCallback
<1>2. /\ thread \in [Threads -> ThreadRecord] /\ logger \in LoggerRecord /\ logged \in Nat
      /\ Counted(logger, thread)
  BY DEF LoggerInv, Typed
<1>3. /\ logger' \in LoggerRecord /\ logger'.reference_count = logger.reference_count
      /\ logger'.block = logger.block /\ logger'.sentinel = logger.sentinel
      /\ logger'.ring = logger.ring /\ logger'.since = logged
  BY <1>1, <1>2 DEF LoggerRecord
<1>4. Counted(logger', thread')
  BY <1>1, <1>2, <1>3 DEF Counted
<1> QED
  BY <1>1, <1>2, <1>3, <1>4, QuietStep

\* A thread that moves on holding nothing, with its references.
LEMMA GoStep ==
    ASSUME LoggerInv, NEW t \in Threads, NEW pc \in Labels, Goes(t, pc),
           UNCHANGED <<memory, logger, logged, taken, calls, non_freed>>,
           \/ thread[t].pc \in {"idle", "format"} /\ pc \in {"idle", "format"}
           \/ /\ thread[t].pc = "take" /\ pc = "release"
              /\ logger.ring.prev[logger.sentinel] = logger.sentinel
    PROVE  LoggerInv'
<1>1. thread \in [Threads -> ThreadRecord] /\ logger \in LoggerRecord /\ Counted(logger, thread)
  BY DEF LoggerInv, Typed
<1>2. /\ thread' \in [Threads -> ThreadRecord] /\ thread'[t].pc = pc
      /\ thread'[t].owns = thread[t].owns /\ Others(thread, thread', t)
  BY <1>1, GoesIs
<1>3. Counted(logger', thread')
  <2>1. /\ User(thread, t) /\ User(thread', t)
        /\ thread[t].pc # "destroy" /\ thread'[t].pc # "destroy"
    BY <1>2 DEF User
  <2>2. t \in Owning(thread) <=> t \in Owning(thread')
    BY <1>2 DEF Owning
  <2>3. t \in Calling(thread) <=> t \in Calling(thread')
    BY <1>2 DEF Calling
  <2>4. OwnsRightly(thread'[t])
    <3>1. thread[t].pc \in {"idle", "format"} => thread[t].owns
      BY <1>1 DEF Counted, OwnsRightly
    <3> QED
      BY <1>2, <3>1 DEF OwnsRightly
  <2> QED
    BY <1>1, <1>2, <2>1, <2>2, <2>3, <2>4, CountedKept
<1>4. \A v \in Threads : \/ thread'[v] = thread[v]
                         \/ ~HoldingOne(thread, v) /\ ~HoldingOne(thread', v)
  BY <1>2 DEF Others, HoldingOne
<1>5. \/ NobodyCalls(thread') => NobodyCalls(thread)
      \/ logger.ring.prev[logger.sentinel] = logger.sentinel
  BY <1>2 DEF Others, NobodyCalls, InCallback
<1> QED
  BY <1>1, <1>2, <1>3, <1>4, <1>5, QuietStep

LEMMA CheckLevelInv ==
    ASSUME LoggerInv, NEW t \in Threads, CheckLevel(t)
    PROVE  LoggerInv'
<1>1. /\ thread[t].pc = "idle" /\ Goes(t, "format") /\ "format" \in Labels
      /\ UNCHANGED <<memory, logger, logged, taken, calls, non_freed>>
  BY DEF CheckLevel, At, Labels
<1> QED
  BY <1>1, GoStep

LEMMA GiveUpInv ==
    ASSUME LoggerInv, NEW t \in Threads, GiveUp(t)
    PROVE  LoggerInv'
<1> DEFINE k == logger.reference_count - 1
           r == [thread[t] EXCEPT !.owns = FALSE]
<1>1. /\ thread[t].pc \in {"take", "element"} /\ thread[t].owns
      /\ logger' = [logger EXCEPT !.reference_count = k]
      /\ thread' = [thread EXCEPT ![t] = r]
      /\ UNCHANGED <<memory, logged, taken, calls, non_freed>>
  BY DEF GiveUp, InCallback, Dereferenced
<1>2. thread \in [Threads -> ThreadRecord] /\ logger \in LoggerRecord /\ Counted(logger, thread)
  BY DEF LoggerInv, Typed
<1>3. k \in Int
  BY <1>2 DEF LoggerRecord
<1>4. /\ r \in ThreadRecord /\ r.pc = thread[t].pc /\ ~r.owns /\ r.block = thread[t].block
  <2>1. thread[t] \in ThreadRecord
    BY <1>2
  <2> QED
    BY <2>1 DEF ThreadRecord
<1> HIDE DEF r
<1>5. /\ thread' \in [Threads -> ThreadRecord] /\ thread'[t] = r /\ Others(thread, thread', t)
  BY <1>1, <1>2, <1>4 DEF Others
<1> HIDE DEF k
<1>6. /\ logger' \in LoggerRecord /\ logger'.reference_count = k
      /\ logger'.block = logger.block /\ logger'.sentinel = logger.sentinel
      /\ logger'.ring = logger.ring /\ logger'.since = logger.since
      /\ logger'.callback = logger.callback
  BY <1>1, <1>2, <1>3, RecountedIs
<1>7. Counted(logger', thread')
  <2>1. User(thread, t) /\ User(thread', t) /\ thread[t].pc # "destroy"
    BY <1>1, <1>4, <1>5 DEF User
  <2>2. thread'[t].pc \notin {"destroy", "unborn"}
    BY <1>1, <1>4, <1>5
  <2>3. t \in Owning(thread) /\ t \notin Owning(thread')
    BY <1>1, <1>4, <1>5 DEF Owning
  <2>4. t \in Calling(thread) <=> t \in Calling(thread')
    BY <1>1, <1>4, <1>5 DEF Calling
  <2>5. OwnsRightly(thread'[t])
    BY <1>1, <1>4, <1>5 DEF OwnsRightly
  <2>6. logger'.reference_count = logger.reference_count - 1
    BY <1>6 DEF k
  <2> QED
    BY <1>2, <1>5, <1>6, <2>1, <2>2, <2>3, <2>4, <2>5, <2>6, CountedLess
<1>8. NobodyCalls(thread') => NobodyCalls(thread)
  BY <1>1, <1>4, <1>5 DEF Others, NobodyCalls, InCallback
<1>9. Linked(memory'.heap, thread')
  <2>1. \A v \in Threads : /\ thread'[v].pc = thread[v].pc
                           /\ thread'[v].block = thread[v].block
    BY <1>4, <1>5 DEF Others
  <2>2. \A v \in Threads : HoldingOne(thread', v) <=> HoldingOne(thread, v)
    BY <2>1 DEF HoldingOne
  <2>3. Linked(memory.heap, thread)
    BY DEF LoggerInv
  <2>4. HandsRight(memory.heap, thread')
    BY <2>1, <2>2, <2>3 DEF Linked, HandsRight
  <2>5. HandsApart(thread')
    BY <2>1, <2>2, <2>3 DEF Linked, HandsApart
  <2>6. BothApart(memory.heap, thread')
    BY <2>1, <2>2, <2>3 DEF Linked, BothApart
  <2>7. AllOwned(memory.heap, thread')
    BY <2>1, <2>2, <2>3 DEF Linked, AllOwned
  <2> QED
    BY <1>1, <2>3, <2>4, <2>5, <2>6, <2>7 DEF Linked
<1>10. Typed'
  BY <1>1, <1>5, <1>6 DEF LoggerInv, Typed
<1>11. Stored(memory, logger)'
  BY <1>1, <1>6 DEF LoggerInv, Stored
<1>12. Roomy(memory, thread, calls, logged)'
  <2>1. Logging(thread') = Logging(thread)
    BY <1>1, <1>4, <1>5 DEF Logging, Others
  <2> QED
    BY <1>1, <2>1 DEF LoggerInv, Roomy
<1>13. Listing(memory, logger, thread, logged, taken)'
  <2>1. \A n : ListIs(memory, logger, thread, logged, taken, n) =>
               ListIs(memory', logger', thread', logged', taken', n)
    BY <1>1, <1>6, <1>8 DEF ListIs
  <2> QED
    BY <1>6, <2>1 DEF LoggerInv, Listing
<1> QED
  BY <1>7, <1>9, <1>10, <1>11, <1>12, <1>13 DEF LoggerInv

-----------------------------------------------------------------------------
(* Steps that change the memory *)

\* There is room for a message, and for the element and node of one in hand.
LEMMA RoomLeft ==
    ASSUME NEW m, NEW thr, NEW n, NEW last \in Nat, Roomy(m, thr, n, last)
    PROVE  /\ n < MaxCalls => Cardinality(InUse(m)) < NumBlocks
           /\ Logging(thr) # {} => Cardinality(InUse(m)) + 1 < NumBlocks
           /\ Cardinality(InUse(m)) \in Nat /\ Cardinality(Logging(thr)) \in Nat
           /\ Cardinality(InUse(m)) <= 1 => Cardinality(InUse(m)) + 1 < NumBlocks
<1>1. Logging(thr) \in SUBSET Threads
  BY DEF Logging
<1>2. /\ Cardinality(Logging(thr)) \in Nat
      /\ Logging(thr) # {} => Cardinality(Logging(thr)) >= 1
  <2>1. Cardinality(Logging(thr)) \in Nat /\ (Logging(thr) = {} <=> Cardinality(Logging(thr)) = 0)
    BY <1>1, ThreadsFinite
  <2> QED
    BY <2>1
<1>3. Cardinality(InUse(m)) \in Nat
  BY InUseFinite, RingAssumption
<1> DEFINE a == Cardinality(InUse(m))
           b == Cardinality(Logging(thr))
<1>4. /\ a \in Nat /\ b \in Nat /\ n \in 0 .. MaxCalls /\ a + 2 * b <= 3 + 3 * n
      /\ MaxCalls \in Nat /\ NumBlocks >= 3 * MaxCalls + 3 /\ NumBlocks \in Nat
  BY <1>2, <1>3, LoggerAssumption, RingAssumption DEF Roomy
<1> HIDE DEF a, b
<1>5. /\ n < MaxCalls => a < NumBlocks
      /\ b >= 1 => a + 1 < NumBlocks
      /\ a <= 1 => a + 1 < NumBlocks
  BY ONLY <1>4
<1> QED
  BY <1>2, <1>4, <1>5 DEF a, b

\* What a block holds cannot be the logger, its sentinel or the region's.
LEMMA StoredKept ==
    ASSUME NEW m, NEW m2, NEW l, NEW l2, Stored(m, l), l.block # NoBlock, Region(m2),
           l2.block = l.block, l2.sentinel = l.sentinel,
           \A b \in Blocks : \/ m2.heap[b] = m.heap[b]
                             \/ /\ m.heap[b].kind \notin {"logger", "ring", "sentinel"}
                                /\ m2.heap[b].kind \notin {"logger", "ring", "sentinel"}
    PROVE  Stored(m2, l2)
BY DEF Stored

\* The list is not touched by what happens to a block that is not part of it.
LEMMA ListChanges ==
    ASSUME NEW heap, NEW heap2, NEW ring, NEW s, NEW n, NEW last, Lists(heap, ring, s, n, last),
           PointersRight(heap), NEW b, NEW x, Changes(heap, heap2, b, x),
           heap[b].kind \notin {"node", "element"}, x.kind # "node"
    PROVE  Lists(heap2, ring, s, n, last)
<1>1. b \in Blocks /\ heap2[b] = x /\ \A y \in Blocks : y # b => heap2[y] = heap[y]
  BY DEF Changes
<1>2. \A y \in Blocks : heap2[y].kind = "node" => heap[y].kind = "node"
  BY <1>1
<1>3. \A y \in Blocks : heap[y].kind = "node" =>
          heap2[y] = heap[y] /\ heap2[heap[y].to] = heap[heap[y].to]
  BY <1>1 DEF PointersRight, Referring, Below
<1> QED
  BY <1>2, <1>3, ListKept

\* What is left to show of a step that leaves the logger and the list alone.
LEMMA ListingStep ==
    ASSUME LoggerInv, UNCHANGED <<logger, logged, taken>>,
           \A n : Lists(memory.heap, logger.ring, logger.sentinel, n, logged) =>
                  Lists(memory'.heap, logger.ring, logger.sentinel, n, logged),
           NobodyCalls(thread') => NobodyCalls(thread)
    PROVE  Listing(memory, logger, thread, logged, taken)'
<1>1. \A n : ListIs(memory, logger, thread, logged, taken, n) =>
             ListIs(memory', logger', thread', logged', taken', n)
  BY DEF ListIs
<1> QED
  BY <1>1 DEF LoggerInv, Listing

\* A message is allocated.
LEMMA MessageStep ==
    ASSUME LoggerInv, NEW t \in Threads, thread[t].pc \in {"idle", "format"},
           calls < MaxCalls, calls' = calls + 1, memory' = Allocated(memory, Message),
           UNCHANGED <<logger, logged, taken, non_freed>>,
           thread' \in [Threads -> ThreadRecord], Others(thread, thread', t),
           thread'[t].pc = "log", thread'[t].owns, thread'[t].block = Fresh(memory)
    PROVE  LoggerInv'
<1> DEFINE b == Fresh(memory)
           a == Cardinality(InUse(memory))
           k == Cardinality(Logging(thread))
<1>1. /\ thread \in [Threads -> ThreadRecord] /\ logger \in LoggerRecord /\ logged \in Nat
      /\ Counted(logger, thread) /\ Roomy(memory, thread, calls, logged)
      /\ Linked(memory.heap, thread) /\ Stored(memory, logger)
  BY DEF LoggerInv, Typed
<1>2. Region(memory) /\ logger.block # NoBlock
  BY UserHasLogger DEF User
<1>3. a < NumBlocks /\ a \in Nat /\ k \in Nat
  BY <1>1, RoomLeft
<1>4. Message \in Content /\ Message.kind = "message"
  <2>1. Message = [kind |-> "message", to |-> NoBlock, id |-> 0]
    BY DEF Message, Holding
  <2>2. "message" \in Kinds /\ NoBlock \in Blocks \cup {NoBlock} /\ 0 \in Nat
    BY DEF Kinds
  <2> QED
    BY <2>1, <2>2 DEF Content
<1>5. /\ Region(memory') /\ Changes(memory.heap, memory'.heap, b, Message)
      /\ b \in Blocks /\ memory.heap[b] = Free
      /\ Cardinality(InUse(memory')) = a + 1
  BY <1>2, <1>3, <1>4, AllocatedIs
<1>6. memory.heap[b].kind = "free"
  BY <1>5, FreeIs
<1>7. Counted(logger', thread')
  <2>1. /\ User(thread, t) /\ User(thread', t)
        /\ thread[t].pc # "destroy" /\ thread'[t].pc # "destroy"
    BY DEF User
  <2>2. t \in Owning(thread) <=> t \in Owning(thread')
    BY <1>1 DEF Owning, Counted, OwnsRightly
  <2>3. t \in Calling(thread) <=> t \in Calling(thread')
    BY DEF Calling
  <2>4. OwnsRightly(thread'[t])
    BY DEF OwnsRightly
  <2> QED
    BY <1>1, <2>1, <2>2, <2>3, <2>4, CountedKept
<1>8. Typed'
  BY DEF LoggerInv, Typed
<1>9. Stored(memory, logger)'
  <2>1. \A y \in Blocks : \/ memory'.heap[y] = memory.heap[y]
                          \/ /\ memory.heap[y].kind \notin {"logger", "ring", "sentinel"}
                             /\ memory'.heap[y].kind \notin {"logger", "ring", "sentinel"}
    BY <1>4, <1>5, <1>6 DEF Changes
  <2> QED
    BY <1>1, <1>2, <1>5, <2>1, StoredKept
<1>10. Cardinality(Logging(thread')) = k + 1
  <2>1. t \notin Logging(thread) /\ t \in Logging(thread')
    BY DEF Logging
  <2> QED
    BY <2>1, SetsMove, SetMoves
<1>11. Roomy(memory, thread, calls, logged)'
  <2>1. /\ calls \in 0 .. MaxCalls /\ logged + k <= calls /\ a + 2 * k <= 3 + 3 * calls
        /\ MaxCalls \in Nat
    BY <1>1, LoggerAssumption DEF Roomy
  <2> HIDE DEF a, k
  <2>2. calls' \in 0 .. MaxCalls
    BY <2>1
  <2>3. logged + (k + 1) <= calls'
    BY <1>1, <1>3, <2>1
  <2>4. (a + 1) + 2 * (k + 1) <= 3 + 3 * calls'
    BY <1>3, <2>1
  <2> QED
    BY <1>5, <1>10, <2>2, <2>3, <2>4 DEF Roomy
<1>12. Linked(memory.heap, thread)'
  <2>1. ~HoldingOne(thread, t)
    BY DEF HoldingOne
  <2> QED
    BY <1>1, <1>4, <1>5, <1>6, <2>1, LinkedNew
<1>13. Listing(memory, logger, thread, logged, taken)'
  <2>1. \A n : Lists(memory.heap, logger.ring, logger.sentinel, n, logged) =>
               Lists(memory'.heap, logger.ring, logger.sentinel, n, logged)
    BY <1>1, <1>4, <1>5, <1>6, ListChanges DEF Linked
  <2>2. NobodyCalls(thread') => NobodyCalls(thread)
    BY DEF Others, NobodyCalls, InCallback
  <2> QED
    BY <2>1, <2>2, ListingStep
<1> QED
  BY <1>7, <1>8, <1>9, <1>11, <1>12, <1>13 DEF LoggerInv

LEMMA NewMessageInv ==
    ASSUME LoggerInv, NEW t \in Threads, NEW detailed \in BOOLEAN, NewMessage(t, detailed)
    PROVE  LoggerInv'
<1> DEFINE b == Fresh(memory)
           r == [Idle(TRUE) EXCEPT !.pc = "log", !.block = b, !.detailed = detailed]
<1>1. /\ thread[t].pc = "idle" /\ calls < MaxCalls /\ calls' = calls + 1
      /\ memory' = Allocated(memory, Message) /\ Becomes(t, r)
      /\ UNCHANGED <<logger, logged, taken, non_freed>>
  BY DEF NewMessage, At
<1>2. b \in Blocks
  <2>1. Roomy(memory, thread, calls, logged) /\ logged \in Nat
    BY DEF LoggerInv, Typed
  <2>2. Cardinality(InUse(memory)) < NumBlocks
    BY <1>1, <2>1, RoomLeft
  <2> QED
    BY <2>2, FreshIs
<1> HIDE DEF b
<1>3. r \in ThreadRecord /\ r.pc = "log" /\ r.owns /\ r.block = b
  <2>1. Idle(TRUE) \in ThreadRecord /\ Idle(TRUE).owns
    BY IdleIs
  <2> QED
    BY <1>2, <2>1 DEF ThreadRecord, Labels
<1> HIDE DEF r
<1>4. /\ thread' \in [Threads -> ThreadRecord] /\ Others(thread, thread', t)
      /\ thread'[t].pc = "log" /\ thread'[t].owns /\ thread'[t].block = b
  <2>1. thread \in [Threads -> ThreadRecord]
    BY DEF LoggerInv, Typed
  <2> QED
    BY <1>1, <1>3, <2>1, BecomesIs
<1> QED
  BY <1>1, <1>4, MessageStep DEF b

LEMMA FormatInv ==
    ASSUME LoggerInv, NEW t \in Threads, Format(t)
    PROVE  LoggerInv'
<1>1. thread[t].pc = "format" /\ UNCHANGED <<logger, logged, taken, non_freed>>
  BY DEF Format, At
<1>2. \/ /\ calls < MaxCalls /\ calls' = calls + 1
         /\ memory' = Allocated(memory, Message) /\ GoesWith(t, "log", Fresh(memory))
      \/ Goes(t, "idle") /\ UNCHANGED <<memory, calls>>
  BY DEF Format
<1>3. thread \in [Threads -> ThreadRecord] /\ Counted(logger, thread)
  BY DEF LoggerInv, Typed
<1>4. CASE /\ calls < MaxCalls /\ calls' = calls + 1
           /\ memory' = Allocated(memory, Message) /\ GoesWith(t, "log", Fresh(memory))
  <2> DEFINE b == Fresh(memory)
  <2>1. b \in Blocks
    <3>1. Roomy(memory, thread, calls, logged) /\ logged \in Nat
      BY DEF LoggerInv, Typed
    <3>2. Cardinality(InUse(memory)) < NumBlocks
      BY <1>4, <3>1, RoomLeft
    <3> QED
      BY <3>2, FreshIs
  <2>2. GoesWith(t, "log", b) /\ "log" \in Labels
    BY <1>4 DEF Labels
  <2> HIDE DEF b
  <2>3. /\ thread' \in [Threads -> ThreadRecord] /\ Others(thread, thread', t)
        /\ thread'[t].pc = "log" /\ thread'[t].owns = thread[t].owns /\ thread'[t].block = b
    BY <1>3, <2>1, <2>2, GoesWithIs
  <2>4. thread'[t].owns
    BY <1>1, <1>3, <2>3 DEF Counted, OwnsRightly
  <2> QED
    BY <1>1, <1>4, <2>3, <2>4, MessageStep DEF b
<1>5. CASE Goes(t, "idle") /\ UNCHANGED <<memory, calls>>
  <2>1. "idle" \in Labels
    BY DEF Labels
  <2> QED
    BY <1>1, <1>5, <2>1, GoStep
<1> QED
  BY <1>2, <1>4, <1>5

LEMMA RejectInv ==
    ASSUME LoggerInv, NEW t \in Threads, Reject(t)
    PROVE  LoggerInv'
<1> DEFINE b == thread[t].block
           a == Cardinality(InUse(memory))
           k == Cardinality(Logging(thread))
<1>1. /\ thread[t].pc = "log" /\ memory' = Freed(memory, b) /\ Becomes(t, Idle(TRUE))
      /\ UNCHANGED <<logger, logged, taken, calls, non_freed>>
  BY DEF Reject, At
<1>2. /\ thread \in [Threads -> ThreadRecord] /\ logger \in LoggerRecord /\ logged \in Nat
      /\ Counted(logger, thread) /\ Roomy(memory, thread, calls, logged)
      /\ Linked(memory.heap, thread) /\ Stored(memory, logger)
  BY DEF LoggerInv, Typed
<1>3. Region(memory) /\ logger.block # NoBlock
  BY <1>1, UserHasLogger DEF User
<1>4. a \in Nat /\ k \in Nat
  BY <1>2, RoomLeft
<1>5. b \in Blocks /\ memory.heap[b].kind = "message"
  BY <1>1, <1>2 DEF Linked, HandsRight, HoldingOne, Wanted
<1>6. /\ thread' \in [Threads -> ThreadRecord] /\ Others(thread, thread', t)
      /\ thread'[t].pc = "idle" /\ thread'[t].owns
  BY <1>1, <1>2, BecomesIs, IdleIs
<1>7. /\ Region(memory') /\ Changes(memory.heap, memory'.heap, b, Free)
      /\ Cardinality(InUse(memory')) = a - 1
  BY <1>1, <1>3, <1>5, FreedIs
<1>8. Counted(logger', thread')
  <2>1. /\ User(thread, t) /\ User(thread', t)
        /\ thread[t].pc # "destroy" /\ thread'[t].pc # "destroy"
    BY <1>1, <1>6 DEF User
  <2>2. t \in Owning(thread) <=> t \in Owning(thread')
    BY <1>1, <1>2, <1>6 DEF Owning, Counted, OwnsRightly
  <2>3. t \in Calling(thread) <=> t \in Calling(thread')
    BY <1>1, <1>6 DEF Calling
  <2>4. OwnsRightly(thread'[t])
    BY <1>6 DEF OwnsRightly
  <2> QED
    BY <1>1, <1>2, <1>6, <2>1, <2>2, <2>3, <2>4, CountedKept
<1>9. Typed'
  BY <1>1, <1>6 DEF LoggerInv, Typed
<1>10. Stored(memory, logger)'
  <2>1. \A y \in Blocks : \/ memory'.heap[y] = memory.heap[y]
                          \/ /\ memory.heap[y].kind \notin {"logger", "ring", "sentinel"}
                             /\ memory'.heap[y].kind \notin {"logger", "ring", "sentinel"}
    BY <1>5, <1>7, FreeIs DEF Changes
  <2> QED
    BY <1>1, <1>2, <1>3, <1>7, <2>1, StoredKept
<1>11. Cardinality(Logging(thread')) = k - 1
  <2>1. t \in Logging(thread) /\ t \notin Logging(thread')
    BY <1>1, <1>6 DEF Logging
  <2> QED
    BY <1>6, <2>1, SetsMove, SetMoves
<1>12. Roomy(memory, thread, calls, logged)'
  <2>1. /\ calls \in 0 .. MaxCalls /\ logged + k <= calls /\ a + 2 * k <= 3 + 3 * calls
    BY <1>2 DEF Roomy
  <2> HIDE DEF a, k
  <2>2. logged + (k - 1) <= calls
    BY <1>2, <1>4, <2>1
  <2>3. (a - 1) + 2 * (k - 1) <= 3 + 3 * calls
    BY <1>4, <2>1
  <2> QED
    BY <1>1, <1>7, <1>11, <2>1, <2>2, <2>3 DEF Roomy
<1>13. Linked(memory.heap, thread)'
  <2>1. ~HoldingOne(thread', t)
    BY <1>6 DEF HoldingOne
  <2> QED
    BY <1>1, <1>2, <1>6, <1>7, <2>1, LinkedRejected
<1>14. Listing(memory, logger, thread, logged, taken)'
  <2>1. \A n : Lists(memory.heap, logger.ring, logger.sentinel, n, logged) =>
               Lists(memory'.heap, logger.ring, logger.sentinel, n, logged)
    BY <1>2, <1>5, <1>7, FreeIs, ListChanges DEF Linked
  <2>2. NobodyCalls(thread') => NobodyCalls(thread)
    BY <1>1, <1>6 DEF Others, NobodyCalls, InCallback
  <2> QED
    BY <1>1, <2>1, <2>2, ListingStep
<1> QED
  BY <1>8, <1>9, <1>10, <1>12, <1>13, <1>14 DEF LoggerInv

LEMMA LogStringInv ==
    ASSUME LoggerInv, NEW t \in Threads, LogString(t)
    PROVE  LoggerInv'
<1> DEFINE e == Fresh(memory)
           x == Holding("element", thread[t].block, logged + 1)
           m1 == Allocated(memory, x)
           node == Fresh(m1)
           y == Holding("node", e, 0)
           a == Cardinality(InUse(memory))
           k == Cardinality(Logging(thread))
           count == IF logger.callback THEN logger.reference_count + 1
                                       ELSE logger.reference_count
           ring == Inserted(logger.ring, logger.sentinel, node)
           pc == IF logger.callback THEN "take" ELSE "idle"
           r == [Idle(TRUE) EXCEPT !.pc = pc]
<1>1. /\ thread[t].pc = "log" /\ memory' = Allocated(m1, y)
      /\ logger' = [logger EXCEPT !.reference_count = count, !.ring = ring]
      /\ logged' = logged + 1 /\ UNCHANGED <<taken, calls, non_freed>>
  BY DEF LogString, At, CallbackReferenced
<1>2. Becomes(t, r)
  <2>1. Idle(TRUE).pc = "idle"
    BY IdleIs
  <2>2. Becomes(t, [Idle(TRUE) EXCEPT !.pc = IF logger.callback THEN "take" ELSE Idle(TRUE).pc])
    BY DEF LogString
  <2> QED
    BY <2>1, <2>2
<1>3. /\ thread \in [Threads -> ThreadRecord] /\ logger \in LoggerRecord /\ logged \in Nat
      /\ Counted(logger, thread) /\ Roomy(memory, thread, calls, logged)
      /\ Linked(memory.heap, thread) /\ Stored(memory, logger)
      /\ taken \in 0 .. logged /\ non_freed \in {-1, 0}
  BY DEF LoggerInv, Typed
<1>4. /\ Region(memory) /\ logger.block # NoBlock
      /\ logger.sentinel \in Blocks /\ memory.heap[logger.sentinel].kind = "ring"
  BY <1>1, UserHasLogger DEF User
<1>5. a \in Nat /\ k \in Nat /\ a + 1 < NumBlocks
  <2>1. Logging(thread) # {}
    BY <1>1 DEF Logging
  <2> QED
    BY <1>3, <2>1, RoomLeft
<1>6. thread[t].block \in Blocks /\ PointersRight(memory.heap)
  BY <1>1, <1>3 DEF Linked, HandsRight, HoldingOne
<1>7. /\ x \in Content /\ x.kind = "element" /\ x.to = thread[t].block /\ x.id = logged + 1
  <2>1. "element" \in Kinds /\ thread[t].block \in Blocks \cup {NoBlock} /\ logged + 1 \in Nat
    BY <1>3, <1>6 DEF Kinds
  <2> QED
    BY <2>1, HoldingIs
<1> HIDE DEF x
<1>8. a < NumBlocks
  BY <1>5, RingAssumption
<1>9. /\ Region(m1) /\ Changes(memory.heap, m1.heap, e, x)
      /\ e \in Blocks /\ memory.heap[e] = Free
      /\ Cardinality(InUse(m1)) = a + 1
  BY <1>4, <1>7, <1>8, AllocatedIs
<1>10. y \in Content /\ y.kind = "node" /\ y.to = e
  <2>1. "node" \in Kinds /\ e \in Blocks \cup {NoBlock} /\ 0 \in Nat
    BY <1>9 DEF Kinds
  <2> HIDE DEF e
  <2> QED
    BY <2>1, HoldingIs
<1> HIDE DEF y, e, m1
<1>11. /\ Region(memory') /\ Changes(m1.heap, memory'.heap, node, y)
       /\ node \in Blocks /\ m1.heap[node] = Free
       /\ Cardinality(InUse(memory')) = (a + 1) + 1
  BY <1>1, <1>5, <1>9, <1>10, AllocatedIs
<1>12. memory.heap[e].kind = "free" /\ m1.heap[node].kind = "free"
  BY <1>9, <1>11, FreeIs
<1> HIDE DEF node
<1>13. PICK n : ListIs(memory, logger, thread, logged, taken, n)
  BY <1>4 DEF LoggerInv, Listing
<1>14. Lists(memory'.heap, ring, logger.sentinel, n + 1, logged + 1) /\ n \in Nat
  <2>1. Lists(memory.heap, logger.ring, logger.sentinel, n, logged)
    BY <1>13 DEF ListIs
  <2>2. memory.heap[logger.sentinel].kind # "free" /\ logged \in Int
    BY <1>3, <1>4
  <2>3. n \in Nat
    BY <2>1 DEF Lists
  <2> QED
    BY <1>6, <1>7, <1>9, <1>10, <1>11, <1>12, <2>1, <2>2, <2>3, ListLonger
<1>15. ring \in Links
  BY <1>14 DEF Lists, ListOf, RingOf
<1>16. count \in Int
  BY <1>3 DEF LoggerRecord
<1>17. /\ logger.callback => count = logger.reference_count + 1
       /\ ~logger.callback => count = logger.reference_count
  OBVIOUS
<1> HIDE DEF ring, count
<1>18. /\ logger' \in LoggerRecord /\ logger'.reference_count = count /\ logger'.ring = ring
       /\ logger'.block = logger.block /\ logger'.sentinel = logger.sentinel
       /\ logger'.callback = logger.callback /\ logger'.since = logger.since
  BY <1>1, <1>3, <1>15, <1>16 DEF LoggerRecord
<1>19. pc \in Labels /\ (logger.callback => pc = "take") /\ (~logger.callback => pc = "idle")
  BY DEF Labels
<1> HIDE DEF pc
<1>20. r \in ThreadRecord /\ r.pc = pc /\ r.owns
  <2>1. Idle(TRUE) \in ThreadRecord /\ Idle(TRUE).owns
    BY IdleIs
  <2> QED
    BY <1>19, <2>1 DEF ThreadRecord
<1> HIDE DEF r
<1>21. /\ thread' \in [Threads -> ThreadRecord] /\ Others(thread, thread', t)
       /\ thread'[t].pc = pc /\ thread'[t].owns
  BY <1>2, <1>3, <1>20, BecomesIs
<1>22. logger.callback \in BOOLEAN
  BY <1>3 DEF LoggerRecord
<1>23. Counted(logger', thread')
  <2>1. /\ User(thread, t) /\ User(thread', t)
        /\ thread[t].pc # "destroy" /\ thread'[t].pc # "destroy"
    BY <1>1, <1>19, <1>21, <1>22 DEF User
  <2>2. t \in Owning(thread) <=> t \in Owning(thread')
    BY <1>1, <1>3, <1>21 DEF Owning, Counted, OwnsRightly
  <2>3. OwnsRightly(thread'[t])
    BY <1>19, <1>21, <1>22 DEF OwnsRightly
  <2>4. t \notin Calling(thread)
    BY <1>1 DEF Calling
  <2>5. CASE logger.callback
    <3>1. t \in Calling(thread')
      BY <1>19, <1>21, <2>5 DEF Calling
    <3>2. logger'.reference_count = logger.reference_count + 1
      BY <1>17, <1>18, <2>5
    <3> QED
      BY <1>3, <1>18, <1>21, <2>1, <2>2, <2>3, <2>4, <3>1, <3>2, CountedMore
  <2>6. CASE ~logger.callback
    <3>1. t \notin Calling(thread')
      BY <1>19, <1>21, <2>6 DEF Calling
    <3>2. logger'.reference_count = logger.reference_count
      BY <1>17, <1>18, <2>6
    <3> QED
      BY <1>3, <1>18, <1>21, <2>1, <2>2, <2>3, <2>4, <3>1, <3>2, CountedKept
  <2> QED
    BY <2>5, <2>6
<1>24. Typed'
  BY <1>1, <1>3, <1>18, <1>21 DEF Typed
<1>25. Stored(memory, logger)'
  <2>1. \A z \in Blocks : \/ memory'.heap[z] = memory.heap[z]
                          \/ /\ memory.heap[z].kind \notin {"logger", "ring", "sentinel"}
                             /\ memory'.heap[z].kind \notin {"logger", "ring", "sentinel"}
    <3>1. \A z \in Blocks : z # e /\ z # node => memory'.heap[z] = memory.heap[z]
      BY <1>9, <1>11 DEF Changes
    <3>2. memory'.heap[node].kind = "node" /\ memory'.heap[e].kind = "element"
      BY <1>7, <1>9, <1>10, <1>11, <1>12 DEF Changes
    <3>3. memory.heap[node].kind = "free"
      BY <1>7, <1>9, <1>11, <1>12 DEF Changes
    <3> QED
      BY <1>12, <3>1, <3>2, <3>3
  <2> QED
    BY <1>3, <1>4, <1>11, <1>18, <2>1, StoredKept
<1>26. Cardinality(Logging(thread')) = k - 1
  <2>1. t \in Logging(thread) /\ t \notin Logging(thread')
    BY <1>1, <1>19, <1>21, <1>22 DEF Logging
  <2> QED
    BY <1>21, <2>1, SetsMove, SetMoves
<1>27. Roomy(memory, thread, calls, logged)'
  <2>1. /\ calls \in 0 .. MaxCalls /\ logged + k <= calls /\ a + 2 * k <= 3 + 3 * calls
    BY <1>3 DEF Roomy
  <2> HIDE DEF a, k
  <2>2. (logged + 1) + (k - 1) <= calls
    BY <1>3, <1>5, <2>1
  <2>3. ((a + 1) + 1) + 2 * (k - 1) <= 3 + 3 * calls
    BY <1>5, <2>1
  <2> QED
    BY <1>1, <1>11, <1>26, <2>1, <2>2, <2>3 DEF Roomy
<1>28. Linked(memory.heap, thread)'
  <2>1. ~HoldingOne(thread', t)
    BY <1>19, <1>21, <1>22 DEF HoldingOne
  <2> QED
    BY <1>1, <1>3, <1>7, <1>9, <1>10, <1>11, <1>12, <1>21, <2>1, LinkedLogged
<1>29. Listing(memory, logger, thread, logged, taken)'
  <2>1. taken' + (n + 1) = logged' /\ logger'.since <= logged'
    BY <1>1, <1>3, <1>13, <1>14, <1>18 DEF ListIs, LoggerRecord
  <2>2. ~(logger'.callback /\ NobodyCalls(thread'))
    BY <1>18, <1>19, <1>21 DEF NobodyCalls, InCallback
  <2>3. ListIs(memory', logger', thread', logged', taken', n + 1)
    BY <1>1, <1>14, <1>18, <2>1, <2>2 DEF ListIs
  <2> QED
    BY <2>3 DEF Listing
<1> QED
  BY <1>23, <1>24, <1>25, <1>27, <1>28, <1>29 DEF LoggerInv

\* The oldest message is taken from the list.
LEMMA TakeStep ==
    ASSUME LoggerInv, NEW t \in Threads, NEW found \in {"element", "polled"}, NEW empty \in Labels,
           TakeElement(t, found, empty), UNCHANGED <<logged, calls, non_freed>>,
           \/ thread[t].pc = "idle" /\ found = "polled" /\ empty = "idle"
           \/ thread[t].pc = "take" /\ found = "element" /\ empty = "release"
    PROVE  /\ LoggerInv'
           /\ taken' # taken => taken' = taken + 1
<1> DEFINE node == logger.ring.prev[logger.sentinel]
           e == memory.heap[node].to
           a == Cardinality(InUse(memory))
           k == Cardinality(Logging(thread))
<1>1. CASE node = logger.sentinel
  <2>1. Goes(t, empty) /\ UNCHANGED <<memory, logger, taken>>
    BY <1>1 DEF TakeElement, OldestNode
  <2>2. \/ thread[t].pc \in {"idle", "format"} /\ empty \in {"idle", "format"}
        \/ /\ thread[t].pc = "take" /\ empty = "release"
           /\ logger.ring.prev[logger.sentinel] = logger.sentinel
    BY <1>1
  <2>3. LoggerInv'
    BY <2>1, <2>2, GoStep
  <2> QED
    BY <2>1, <2>3
<1>2. CASE node # logger.sentinel
  <2>1. /\ logger' = [logger EXCEPT !.ring = Unlinked(logger.ring, node)]
        /\ memory' = Freed(memory, node) /\ GoesWith(t, found, e)
        /\ taken' = memory.heap[e].id
    BY <1>2 DEF TakeElement, OldestNode
  <2>2. /\ thread \in [Threads -> ThreadRecord] /\ logger \in LoggerRecord /\ logged \in Nat
        /\ Counted(logger, thread) /\ Roomy(memory, thread, calls, logged)
        /\ Linked(memory.heap, thread) /\ Stored(memory, logger)
        /\ taken \in 0 .. logged /\ non_freed \in {-1, 0}
    BY DEF LoggerInv, Typed
  <2>3. /\ Region(memory) /\ logger.block # NoBlock
        /\ logger.sentinel \in Blocks /\ memory.heap[logger.sentinel].kind = "ring"
    BY UserHasLogger DEF User
  <2>4. PICK n : ListIs(memory, logger, thread, logged, taken, n)
    BY <2>3 DEF LoggerInv, Listing
  <2>5. /\ Lists(memory.heap, logger.ring, logger.sentinel, n, logged) /\ taken + n = logged
        /\ PointersRight(memory.heap)
    BY <2>2, <2>4 DEF ListIs, Linked
  <2>6. /\ node \in Blocks /\ memory.heap[node].kind = "node" /\ n \in Nat \ {0}
        /\ memory.heap[e].id = (logged - n) + 1
    <3> DEFINE h == memory.heap
               q == logger.ring
               s == logger.sentinel
               b == node
    <3>1. Lists(h, q, s, n, logged) /\ b # s /\ b = q.prev[s] /\ PointersRight(h)
      BY <1>2, <2>5
    <3> HIDE DEF h, q, s, b
    <3>2. /\ b \in Blocks /\ h[b].kind = "node" /\ n \in Nat \ {0}
          /\ h[h[b].to].id = (logged - n) + 1
          /\ Changes(h, h, b, Free) => Lists(h, Unlinked(q, b), s, n - 1, logged)
      BY <3>1, ListShorter
    <3> QED
      BY <3>2 DEF h, q, s, b
  <2>7. e \in Blocks
    BY <2>5, <2>6 DEF PointersRight, Referring
  <2> DEFINE ring == Unlinked(logger.ring, node)
  <2> HIDE DEF e
  <2>8. /\ Region(memory') /\ Changes(memory.heap, memory'.heap, node, Free)
        /\ Cardinality(InUse(memory')) = a - 1
    BY <2>1, <2>3, <2>6, FreedIs
  <2>9. Lists(memory'.heap, ring, logger.sentinel, n - 1, logged)
    <3> DEFINE h == memory.heap
               h2 == memory'.heap
               s == logger.sentinel
               old == logger.ring
    <3>1. /\ Lists(h, old, s, n, logged) /\ PointersRight(h)
          /\ node = old.prev[s] /\ node # s /\ Changes(h, h2, node, Free)
      BY <1>2, <2>5, <2>8
    <3> HIDE DEF h, h2, s, old, node
    <3>2. Lists(h2, Unlinked(old, node), s, n - 1, logged)
      BY <3>1, ListShorter
    <3> QED
      BY <3>2 DEF h2, s, old
  <2>10. ring \in Links
    BY <2>9 DEF Lists, ListOf, RingOf
  <2> HIDE DEF ring
  <2>11. logger' = [logger EXCEPT !.ring = ring]
    BY <2>1 DEF ring
  <2>12. /\ logger' \in LoggerRecord /\ logger'.reference_count = logger.reference_count
         /\ logger'.ring = ring /\ logger'.block = logger.block
         /\ logger'.sentinel = logger.sentinel
         /\ logger'.callback = logger.callback /\ logger'.since = logger.since
    BY <2>2, <2>10, <2>11 DEF LoggerRecord
  <2>13. /\ thread' \in [Threads -> ThreadRecord] /\ Others(thread, thread', t)
         /\ thread'[t].pc = found /\ thread'[t].owns = thread[t].owns /\ thread'[t].block = e
    <3>1. found \in Labels /\ e \in Blocks \cup {NoBlock}
      BY <2>7 DEF Labels
    <3> QED
      BY <2>1, <2>2, <3>1, GoesWithIs
  <2>14. taken' = taken + 1
    BY <2>1, <2>2, <2>5, <2>6
  <2>15. Counted(logger', thread')
    <3>1. /\ User(thread, t) /\ User(thread', t)
          /\ thread[t].pc # "destroy" /\ thread'[t].pc # "destroy"
      BY <2>13 DEF User
    <3>2. t \in Owning(thread) <=> t \in Owning(thread')
      BY <2>13 DEF Owning
    <3>3. t \in Calling(thread) <=> t \in Calling(thread')
      BY <2>13 DEF Calling
    <3>4. OwnsRightly(thread'[t])
      BY <2>2, <2>13 DEF Counted, OwnsRightly
    <3> QED
      BY <2>2, <2>12, <2>13, <3>1, <3>2, <3>3, <3>4, CountedKept
  <2>16. Typed'
    <3>1. taken' \in 0 .. logged
      BY <2>2, <2>5, <2>6, <2>14
    <3> QED
      BY <2>2, <2>12, <2>13, <3>1 DEF Typed
  <2>17. Stored(memory, logger)'
    <3>1. \A z \in Blocks : \/ memory'.heap[z] = memory.heap[z]
                            \/ /\ memory.heap[z].kind \notin {"logger", "ring", "sentinel"}
                               /\ memory'.heap[z].kind \notin {"logger", "ring", "sentinel"}
      BY <2>6, <2>8, FreeIs DEF Changes
    <3> QED
      BY <2>2, <2>3, <2>8, <2>12, <3>1, StoredKept
  <2>18. Logging(thread') = Logging(thread)
    <3>1. t \notin Logging(thread) /\ t \notin Logging(thread')
      BY <2>13 DEF Logging
    <3> QED
      BY <2>13, <3>1, SetsMove, SetMoves
  <2>19. Roomy(memory, thread, calls, logged)'
    <3>1. /\ calls \in 0 .. MaxCalls /\ logged + k <= calls /\ a + 2 * k <= 3 + 3 * calls
          /\ a \in Nat /\ k \in Nat
      BY <2>2, RoomLeft DEF Roomy
    <3> HIDE DEF a, k
    <3>2. (a - 1) + 2 * k <= 3 + 3 * calls
      BY <3>1
    <3> QED
      BY <2>8, <2>18, <3>1, <3>2 DEF Roomy, a, k
  <2>20. Linked(memory.heap, thread)'
    <3>1. ~HoldingOne(thread, t)
      BY DEF HoldingOne
    <3>2. thread'[t].pc \in {"element", "polled"} /\ thread'[t].block = memory.heap[node].to
      BY <2>13 DEF e
    <3> QED
      BY <2>2, <2>6, <2>8, <2>13, <3>1, <3>2, LinkedTaken
  <2>21. Listing(memory, logger, thread, logged, taken)'
    <3>1. taken' + (n - 1) = logged' /\ logger'.since <= logged'
      BY <2>2, <2>4, <2>5, <2>6, <2>12, <2>14 DEF ListIs
    <3>2. logger'.callback /\ NobodyCalls(thread') => n - 1 = 0 \/ logged' <= logger'.since
      <4>1. NobodyCalls(thread') => NobodyCalls(thread)
        BY <2>13 DEF Others, NobodyCalls, InCallback
      <4>2. logger.callback /\ NobodyCalls(thread) => n = 0 \/ logged <= logger.since
        BY <2>4 DEF ListIs
      <4> QED
        BY <2>6, <2>12, <4>1, <4>2
    <3>3. ListIs(memory', logger', thread', logged', taken', n - 1)
      BY <2>9, <2>12, <3>1, <3>2 DEF ListIs
    <3> QED
      BY <3>3 DEF Listing
  <2> QED
    BY <2>14, <2>15, <2>16, <2>17, <2>19, <2>20, <2>21 DEF LoggerInv
<1> QED
  BY <1>1, <1>2

LEMMA PollInv ==
    ASSUME LoggerInv, NEW t \in Threads, Poll(t)
    PROVE  LoggerInv' /\ (taken' # taken => taken' = taken + 1)
<1>1. /\ thread[t].pc = "idle" /\ TakeElement(t, "polled", "idle")
      /\ UNCHANGED <<logged, calls, non_freed>> /\ "idle" \in Labels
  BY DEF Poll, At, Labels
<1> QED
  BY <1>1, TakeStep

LEMMA DrainInv ==
    ASSUME LoggerInv, NEW t \in Threads, Drain(t)
    PROVE  LoggerInv' /\ (taken' # taken => taken' = taken + 1)
<1>1. /\ thread[t].pc = "take" /\ TakeElement(t, "element", "release")
      /\ UNCHANGED <<logged, calls, non_freed>> /\ "release" \in Labels
  BY DEF Drain, At, Labels
<1> QED
  BY <1>1, TakeStep

LEMMA DestroyElementInv ==
    ASSUME LoggerInv, NEW t \in Threads, DestroyElement(t)
    PROVE  LoggerInv'
<1> DEFINE e == thread[t].block
           b == memory.heap[e].to
           m1 == Freed(memory, b)
           a == Cardinality(InUse(memory))
           k == Cardinality(Logging(thread))
           pc == IF thread[t].pc = "element" THEN "take" ELSE "idle"
<1>1. /\ thread[t].pc \in {"element", "polled"} /\ memory' = Freed(m1, e)
      /\ GoesWith(t, pc, NoBlock)
      /\ UNCHANGED <<logger, logged, taken, calls, non_freed>>
  BY DEF DestroyElement, ElementFreed, AfterOutput, At
<1>2. /\ thread \in [Threads -> ThreadRecord] /\ logger \in LoggerRecord /\ logged \in Nat
      /\ Counted(logger, thread) /\ Roomy(memory, thread, calls, logged)
      /\ Linked(memory.heap, thread) /\ Stored(memory, logger)
  BY DEF LoggerInv, Typed
<1>3. Region(memory) /\ logger.block # NoBlock
  BY <1>1, UserHasLogger DEF User
<1>4. a \in Nat /\ k \in Nat
  BY <1>2, RoomLeft
<1>5. e \in Blocks /\ memory.heap[e].kind = "element"
  BY <1>1, <1>2 DEF Linked, HandsRight, HoldingOne, Wanted
<1>6. b \in Blocks /\ memory.heap[b].kind = "message"
  BY <1>2, <1>5 DEF Linked, PointersRight, Referring, Below
<1>7. /\ Region(m1) /\ Changes(memory.heap, m1.heap, b, Free)
      /\ Cardinality(InUse(m1)) = a - 1
  <2> HIDE DEF b
  <2> QED
    BY <1>3, <1>6, FreedIs
<1> HIDE DEF m1
<1>8. m1.heap[e].kind = "element"
  BY <1>5, <1>6, <1>7 DEF Changes
<1>9. /\ Region(memory') /\ Changes(m1.heap, memory'.heap, e, Free)
      /\ Cardinality(InUse(memory')) = (a - 1) - 1
  BY <1>1, <1>5, <1>7, <1>8, FreedIs
<1>10. /\ thread[t].pc = "element" => pc = "take"
       /\ thread[t].pc = "polled" => pc = "idle"
       /\ pc \in Labels
  BY DEF Labels
<1> HIDE DEF pc
<1>11. /\ thread' \in [Threads -> ThreadRecord] /\ Others(thread, thread', t)
       /\ thread'[t].pc = pc /\ thread'[t].owns = thread[t].owns
  BY <1>1, <1>2, <1>10, GoesWithIs
<1>12. Counted(logger', thread')
  <2>1. /\ User(thread, t) /\ User(thread', t)
        /\ thread[t].pc # "destroy" /\ thread'[t].pc # "destroy"
    BY <1>1, <1>10, <1>11 DEF User
  <2>2. t \in Owning(thread) <=> t \in Owning(thread')
    BY <1>11 DEF Owning
  <2>3. t \in Calling(thread) <=> t \in Calling(thread')
    BY <1>1, <1>10, <1>11 DEF Calling
  <2>4. OwnsRightly(thread'[t])
    BY <1>1, <1>2, <1>10, <1>11 DEF Counted, OwnsRightly
  <2> QED
    BY <1>1, <1>2, <1>11, <2>1, <2>2, <2>3, <2>4, CountedKept
<1>13. Typed'
  BY <1>1, <1>11 DEF LoggerInv, Typed
<1>14. /\ \A z \in Blocks : z # e /\ z # b => memory'.heap[z] = memory.heap[z]
       /\ memory'.heap[e] = Free /\ memory'.heap[b] = Free
  BY <1>5, <1>6, <1>7, <1>9 DEF Changes
<1>15. Stored(memory, logger)'
  <2>1. \A y \in Blocks : \/ memory'.heap[y] = memory.heap[y]
                          \/ /\ memory.heap[y].kind \notin {"logger", "ring", "sentinel"}
                             /\ memory'.heap[y].kind \notin {"logger", "ring", "sentinel"}
    BY <1>5, <1>6, <1>14, FreeIs
  <2> QED
    BY <1>1, <1>2, <1>3, <1>9, <2>1, StoredKept
<1>16. Logging(thread') = Logging(thread)
  <2>1. t \notin Logging(thread) /\ t \notin Logging(thread')
    BY <1>1, <1>10, <1>11 DEF Logging
  <2> QED
    BY <1>11, <2>1, SetsMove, SetMoves
<1>17. Roomy(memory, thread, calls, logged)'
  <2>1. /\ calls \in 0 .. MaxCalls /\ logged + k <= calls /\ a + 2 * k <= 3 + 3 * calls
    BY <1>2 DEF Roomy
  <2> HIDE DEF a, k
  <2>2. ((a - 1) - 1) + 2 * k <= 3 + 3 * calls
    BY <1>4, <2>1
  <2> QED
    BY <1>1, <1>9, <1>16, <2>1, <2>2 DEF Roomy, a, k
<1>18. Linked(memory.heap, thread)'
  <2>1. ~HoldingOne(thread', t)
    BY <1>1, <1>10, <1>11 DEF HoldingOne
  <2> QED
    BY <1>1, <1>2, <1>7, <1>9, <1>11, <2>1, LinkedDestroyed
<1>19. Listing(memory, logger, thread, logged, taken)'
  <2>1. \A y \in Blocks : memory.heap[y].kind = "node" =>
            /\ memory'.heap[y] = memory.heap[y]
            /\ memory'.heap[memory.heap[y].to] = memory.heap[memory.heap[y].to]
    <3> SUFFICES ASSUME NEW y \in Blocks, memory.heap[y].kind = "node"
                 PROVE  /\ memory'.heap[y] = memory.heap[y]
                        /\ memory'.heap[memory.heap[y].to] = memory.heap[memory.heap[y].to]
      OBVIOUS
    <3>1. Referring(memory.heap, y) /\ HoldingOne(thread, t)
      BY <1>1 DEF Referring, HoldingOne
    <3>2. memory.heap[y].to # e
      BY <1>2, <3>1 DEF Linked, BothApart
    <3>3. memory.heap[y].to \in Blocks /\ memory.heap[memory.heap[y].to].kind = "element"
      BY <1>2, <3>1 DEF Linked, PointersRight, Below
    <3> QED
      BY <1>5, <1>6, <1>14, <3>2, <3>3
  <2>2. \A y \in Blocks : memory'.heap[y].kind = "node" => memory.heap[y].kind = "node"
    BY <1>14, FreeIs
  <2>3. \A n : Lists(memory.heap, logger.ring, logger.sentinel, n, logged) =>
               Lists(memory'.heap, logger.ring, logger.sentinel, n, logged)
    BY <2>1, <2>2, ListKept
  <2>4. NobodyCalls(thread') => NobodyCalls(thread)
    BY <1>1, <1>10, <1>11 DEF Others, NobodyCalls, InCallback
  <2> QED
    BY <1>1, <2>3, <2>4, ListingStep
<1> QED
  BY <1>12, <1>13, <1>15, <1>17, <1>18, <1>19 DEF LoggerInv

LEMMA CreateRegionInv ==
    ASSUME LoggerInv, CreateRegion
    PROVE  LoggerInv'
<1>1. /\ ~RegionAlive(memory) /\ memory' = NewRegion
      /\ UNCHANGED <<logger, thread, logged, taken, calls, non_freed>>
  BY DEF CreateRegion
<1>2. ~Region(memory) /\ logger.block = NoBlock
  BY <1>1 DEF RegionAlive, Region, LoggerInv, Stored
<1>3. /\ Logging(thread) = {} /\ \A t \in Threads : ~HoldingOne(thread, t)
  BY <1>2, NothingInUse DEF LoggerInv
<1>4. Typed'
  BY <1>1 DEF LoggerInv, Typed
<1>5. Counted(logger, thread)'
  BY <1>1 DEF LoggerInv
<1>6. Stored(memory, logger)'
  <2>1. \A b \in Blocks : memory'.heap[b].kind = "sentinel" => b = Sentinel
    <3>1. \A b \in Blocks : b # Sentinel => memory'.heap[b] = Free
      BY <1>1, NewRegionIs DEF InUse
    <3> QED
      BY <3>1, FreeIs
  <2>2. \A b \in Blocks : memory'.heap[b].kind \in {"free", "sentinel"}
    BY <1>1, NewRegionIs
  <2>3. Region(memory') /\ logger'.block = NoBlock
    BY <1>1, <1>2, NewRegionIs
  <2> QED
    BY <2>1, <2>2, <2>3 DEF Stored
<1>7. Roomy(memory, thread, calls, logged)'
  <2>1. Cardinality(InUse(memory')) = 1
    BY <1>1, NewRegionIs, FS_Singleton
  <2>2. Cardinality(Logging(thread')) = 0
    BY <1>1, <1>3, FS_EmptySet
  <2>3. calls \in 0 .. MaxCalls /\ logged + 0 <= calls /\ MaxCalls \in Nat
    BY <1>1, <1>3, <2>2, LoggerAssumption DEF LoggerInv, Roomy
  <2>4. 1 + 2 * 0 <= 3 + 3 * calls
    BY <2>3
  <2> QED
    BY <1>1, <2>1, <2>2, <2>3, <2>4 DEF Roomy
<1>8. Linked(memory.heap, thread)'
  <2>1. \A b \in Blocks : memory'.heap[b].kind \notin {"node", "element", "message"}
    BY <1>1, NewRegionIs
  <2> QED
    BY <1>1, <1>3, <2>1, LinkedNothing
<1>9. Listing(memory, logger, thread, logged, taken)'
  BY <1>1, <1>2 DEF Listing
<1> QED
  BY <1>4, <1>5, <1>6, <1>7, <1>8, <1>9 DEF LoggerInv

LEMMA DestroyRegionInv ==
    ASSUME LoggerInv, DestroyRegion
    PROVE  LoggerInv'
<1>1. /\ RegionAlive(memory) /\ \A t \in Threads : thread[t].pc \in {"gone", "unborn"}
      /\ non_freed' = NonFreedCount(memory) /\ memory' = NoMemory
      /\ UNCHANGED <<logger, thread, logged, taken, calls>>
  BY DEF DestroyRegion
<1>2. logger.block = NoBlock
  BY <1>1 DEF LoggerInv, Counted, User
<1>3. Region(memory)
  BY <1>1, NoMemoryIs DEF LoggerInv, Stored
<1>4. /\ InUse(memory) = {Sentinel} /\ Logging(thread) = {}
      /\ \A t \in Threads : ~HoldingOne(thread, t)
  BY <1>2, <1>3, NothingInUse DEF LoggerInv
<1>5. non_freed' = 0
  BY <1>1, <1>3, <1>4, RegionRing
<1>6. Typed'
  BY <1>1, <1>5 DEF LoggerInv, Typed
<1>7. Counted(logger, thread)'
  BY <1>1 DEF LoggerInv
<1>8. \A b \in Blocks : memory'.heap[b].kind = "free"
  BY <1>1, NoMemoryIs, FreeIs
<1>9. Stored(memory, logger)'
  BY <1>1, <1>2, <1>8 DEF Stored
<1>10. Roomy(memory, thread, calls, logged)'
  <2>1. Cardinality(InUse(memory')) = 0 /\ Cardinality(Logging(thread')) = 0
    BY <1>1, <1>4, NoMemoryIs, FS_EmptySet
  <2>2. calls \in 0 .. MaxCalls /\ logged + 0 <= calls /\ MaxCalls \in Nat
    BY <1>1, <2>1, LoggerAssumption DEF LoggerInv, Roomy
  <2>3. 0 + 2 * 0 <= 3 + 3 * calls
    BY <2>2
  <2> QED
    BY <1>1, <2>1, <2>2, <2>3 DEF Roomy
<1>11. Linked(memory.heap, thread)'
  BY <1>1, <1>4, <1>8, LinkedNothing
<1>12. Listing(memory, logger, thread, logged, taken)'
  BY <1>1, <1>2 DEF Listing
<1> QED
  BY <1>6, <1>7, <1>9, <1>10, <1>11, <1>12 DEF LoggerInv

\* Before the logger is created nothing has been logged.
Begins == thread[First].pc = "unborn" => logged = 0 /\ taken = 0

LEMMA CreateLoggerInv ==
    ASSUME LoggerInv, Begins, CreateLogger
    PROVE  LoggerInv'
<1> DEFINE x == Holding("logger", NoBlock, 0)
           b == Fresh(memory)
           m1 == Allocated(memory, x)
           y == Holding("ring", NoBlock, 0)
           s == Fresh(m1)
           l == [NoLogger EXCEPT !.block = b, !.sentinel = s, !.reference_count = 1,
                                 !.ring = NewRing(s)]
<1>1. /\ RegionAlive(memory) /\ thread[First].pc = "unborn"
      /\ UNCHANGED <<logged, taken, calls, non_freed>>
  BY DEF CreateLogger, At
<1>2. \/ memory' = Allocated(m1, y) /\ logger' = l /\ Becomes(First, Idle(TRUE))
      \/ /\ memory' = Freed(m1, b) /\ thread' = [t \in Threads |-> Idle(FALSE)]
         /\ UNCHANGED logger
  BY DEF CreateLogger
<1>3. /\ thread \in [Threads -> ThreadRecord] /\ logger \in LoggerRecord /\ logged = 0 /\ taken = 0
      /\ Counted(logger, thread) /\ Roomy(memory, thread, calls, logged)
      /\ Linked(memory.heap, thread) /\ Stored(memory, logger)
      /\ non_freed \in {-1, 0} /\ First \in Threads
  BY <1>1, LoggerAssumption DEF LoggerInv, Typed, Begins
<1>4. \A t \in Threads : thread[t].pc = "unborn"
  BY <1>1, <1>3 DEF Counted
<1>5. Region(memory) /\ logger.block = NoBlock
  BY <1>1, <1>3, <1>4, NoMemoryIs DEF Counted, Stored, User
<1>6. /\ \A z \in Blocks : memory.heap[z].kind \in {"free", "sentinel"}
      /\ InUse(memory) = {Sentinel} /\ Logging(thread) = {} /\ Calling(thread) = {}
      /\ Owning(thread) = {} /\ \A t \in Threads : ~HoldingOne(thread, t)
  BY <1>3, <1>5, NothingInUse
<1>7. /\ Cardinality(InUse(memory)) = 1 /\ 1 < NumBlocks /\ 1 + 1 < NumBlocks
      /\ calls \in 0 .. MaxCalls /\ MaxCalls \in Nat
  <2>1. Cardinality(InUse(memory)) = 1
    BY <1>6, FS_Singleton
  <2> QED
    BY <1>3, <2>1, LoggerAssumption, RingAssumption DEF Roomy
<1>8. x \in Content /\ x.kind = "logger" /\ y \in Content /\ y.kind = "ring"
  <2>1. "logger" \in Kinds /\ "ring" \in Kinds /\ NoBlock \in Blocks \cup {NoBlock} /\ 0 \in Nat
    BY DEF Kinds
  <2> QED
    BY <2>1, HoldingIs
<1> HIDE DEF x, y
<1>9. /\ Region(m1) /\ Changes(memory.heap, m1.heap, b, x)
      /\ b \in Blocks /\ memory.heap[b] = Free
      /\ Cardinality(InUse(m1)) = 1 + 1
  BY <1>5, <1>7, <1>8, AllocatedIs
<1> HIDE DEF b, m1
<1>10. m1.heap[b].kind = "logger" /\ memory.heap[b].kind = "free"
  BY <1>8, <1>9, FreeIs DEF Changes
<1>11. \A z \in Blocks : memory.heap[z].kind = "sentinel" => z = Sentinel
  BY <1>3 DEF Stored
<1>12. CASE memory' = Allocated(m1, y) /\ logger' = l /\ Becomes(First, Idle(TRUE))
  <2>1. /\ Region(memory') /\ Changes(m1.heap, memory'.heap, s, y)
        /\ s \in Blocks /\ m1.heap[s] = Free
        /\ Cardinality(InUse(memory')) = (1 + 1) + 1
    BY <1>7, <1>8, <1>9, <1>12, AllocatedIs
  <2> HIDE DEF s
  <2>2. /\ s # b /\ memory'.heap[b].kind = "logger" /\ memory'.heap[s].kind = "ring"
        /\ \A z \in Blocks : z # b /\ z # s => memory'.heap[z] = memory.heap[z]
    BY <1>8, <1>9, <1>10, <2>1, FreeIs DEF Changes
  <2>3. PICK c : RingOf(NewRing(s), c, 0) /\ c[0] = s /\ Members(c, 0) = {s}
    BY <2>1, NewRingIs
  <2> DEFINE ring == NewRing(s)
  <2>4. ring \in Links
    BY <2>3 DEF RingOf
  <2>5. l = [NoLogger EXCEPT !.block = b, !.sentinel = s, !.reference_count = 1, !.ring = ring]
    OBVIOUS
  <2> HIDE DEF ring, l
  <2>6. /\ logger' \in LoggerRecord /\ logger'.block = b /\ logger'.sentinel = s
        /\ logger'.reference_count = 1 /\ logger'.ring = ring
        /\ ~logger'.callback /\ logger'.since = 0
    <3>1. NoLogger \in LoggerRecord /\ ~NoLogger.callback /\ NoLogger.since = 0
      BY NoLinksAre DEF NoLogger, LoggerRecord
    <3>2. logger' = l
      BY <1>12
    <3>3. b \in Blocks \cup {NoBlock} /\ s \in Blocks \cup {NoBlock} /\ 1 \in Int
      BY <1>9, <2>1
    <3>4. ASSUME NEW r \in LoggerRecord, ~r.callback, r.since = 0
          PROVE  LET q == [r EXCEPT !.block = b, !.sentinel = s, !.reference_count = 1,
                                    !.ring = ring] IN
                 /\ q \in LoggerRecord /\ q.block = b /\ q.sentinel = s
                 /\ q.reference_count = 1 /\ q.ring = ring /\ ~q.callback /\ q.since = 0
      BY <2>4, <3>3, <3>4 DEF LoggerRecord
    <3> QED
      BY <2>5, <3>1, <3>2, <3>4
  <2>7. /\ thread' \in [Threads -> ThreadRecord] /\ Others(thread, thread', First)
        /\ thread'[First].pc = "idle" /\ thread'[First].owns
    BY <1>3, <1>12, BecomesIs, IdleIs
  <2>8. \A t \in Threads : t # First => thread'[t].pc = "unborn" /\ ~thread'[t].owns
    BY <1>3, <1>4, <2>7 DEF Others, Counted, OwnsRightly
  <2>9. b # NoBlock
    BY <1>9, NoBlockIsNone
  <2>10. Counted(logger', thread')
    <3>1. Owning(thread') = {First} /\ Calling(thread') = {}
      BY <1>3, <2>7, <2>8 DEF Owning, Calling
    <3>2. Cardinality(Owning(thread')) = 1 /\ Cardinality(Calling(thread')) = 0
      BY <3>1, FS_Singleton, FS_EmptySet
    <3>3. \A t \in Threads : OwnsRightly(thread'[t])
      BY <2>7, <2>8 DEF OwnsRightly
    <3>4. User(thread', First) /\ \A t \in Threads : thread'[t].pc # "destroy"
      BY <2>7, <2>8 DEF User
    <3> QED
      BY <1>3, <2>6, <2>7, <2>9, <3>2, <3>3, <3>4 DEF Counted
  <2>11. Typed'
    BY <1>1, <1>3, <2>6, <2>7 DEF Typed
  <2>12. Stored(memory, logger)'
    <3>1. \A z \in Blocks : z # b /\ z # s => memory'.heap[z].kind \in {"free", "sentinel"}
      BY <1>6, <2>2
    <3>2. \A z \in Blocks : memory'.heap[z].kind = "sentinel" => z = Sentinel
      BY <1>11, <2>2
    <3> QED
      BY <1>9, <2>1, <2>2, <2>6, <2>9, <3>1, <3>2 DEF Stored
  <2>13. Roomy(memory, thread, calls, logged)'
    <3>1. Logging(thread') = {}
      BY <2>7, <2>8 DEF Logging
    <3>2. Cardinality(Logging(thread')) = 0
      BY <3>1, FS_EmptySet
    <3>3. 0 + 0 <= calls /\ ((1 + 1) + 1) + 2 * 0 <= 3 + 3 * calls
      BY <1>7
    <3> QED
      BY <1>1, <1>3, <1>7, <2>1, <3>2, <3>3 DEF Roomy
  <2>14. Linked(memory.heap, thread)'
    <3>1. \A z \in Blocks : memory'.heap[z].kind \notin {"node", "element", "message"}
      BY <1>6, <2>2
    <3>2. \A t \in Threads : ~HoldingOne(thread', t)
      BY <2>7, <2>8 DEF HoldingOne
    <3> QED
      BY <3>1, <3>2, LinkedNothing
  <2>15. Listing(memory, logger, thread, logged, taken)'
    <3>1. ListOf(memory'.heap, ring, s, c, 0, 0)
      <4>1. NodesOf(c, 0) = {} /\ \A z \in Blocks : memory'.heap[z].kind # "node"
        BY <1>6, <2>2 DEF NodesOf
      <4> QED
        BY <2>3, <4>1 DEF ListOf, ring
    <3>2. Lists(memory'.heap, ring, s, 0, 0)
      BY <3>1 DEF Lists
    <3>3. ListIs(memory', logger', thread', logged', taken', 0)
      BY <1>1, <1>3, <2>6, <3>2 DEF ListIs
    <3> QED
      BY <3>3 DEF Listing
  <2> QED
    BY <2>10, <2>11, <2>12, <2>13, <2>14, <2>15 DEF LoggerInv
<1>13. CASE /\ memory' = Freed(m1, b) /\ thread' = [t \in Threads |-> Idle(FALSE)]
            /\ UNCHANGED logger
  <2>1. /\ Region(memory') /\ Changes(m1.heap, memory'.heap, b, Free)
        /\ Cardinality(InUse(memory')) = (1 + 1) - 1
    BY <1>9, <1>10, <1>13, FreedIs
  <2>2. \A z \in Blocks : memory'.heap[z].kind \in {"free", "sentinel"}
    BY <1>6, <1>9, <2>1, FreeIs DEF Changes
  <2>3. \A z \in Blocks : memory'.heap[z].kind = "sentinel" => z = Sentinel
    BY <1>9, <1>11, <2>1, FreeIs DEF Changes
  <2>4. /\ thread' \in [Threads -> ThreadRecord]
        /\ \A t \in Threads : thread'[t].pc = "gone" /\ ~thread'[t].owns
    BY <1>13, IdleIs
  <2>5. Typed'
    <3>1. logger' = logger /\ taken' = taken /\ logged' = logged /\ non_freed' = non_freed
      BY <1>1, <1>13
    <3> QED
      BY <1>3, <2>4, <3>1 DEF Typed
  <2>6. Logging(thread') = {} /\ Calling(thread') = {} /\ Owning(thread') = {}
    BY <2>4 DEF Logging, Calling, Owning
  <2>7. Counted(logger', thread')
    <3>1. logger'.reference_count = Cardinality(Owning(thread')) + Cardinality(Calling(thread'))
      BY <1>3, <1>6, <1>13, <2>6 DEF Counted
    <3> QED
      BY <1>3, <1>5, <1>13, <2>4, <3>1 DEF Counted, OwnsRightly, User
  <2>8. Stored(memory, logger)'
    BY <1>5, <1>13, <2>1, <2>2, <2>3 DEF Stored
  <2>9. Roomy(memory, thread, calls, logged)'
    <3>1. Cardinality(Logging(thread')) = 0
      BY <2>6, FS_EmptySet
    <3>2. 0 + 0 <= calls /\ ((1 + 1) - 1) + 2 * 0 <= 3 + 3 * calls
      BY <1>7
    <3> QED
      BY <1>1, <1>3, <1>7, <2>1, <3>1, <3>2 DEF Roomy
  <2>10. Linked(memory.heap, thread)'
    <3>1. \A z \in Blocks : memory'.heap[z].kind \notin {"node", "element", "message"}
      BY <2>2
    <3>2. \A t \in Threads : ~HoldingOne(thread', t)
      BY <2>4 DEF HoldingOne
    <3> QED
      BY <3>1, <3>2, LinkedNothing
  <2>11. Listing(memory, logger, thread, logged, taken)'
    BY <1>5, <1>13 DEF Listing
  <2> QED
    BY <2>5, <2>7, <2>8, <2>9, <2>10, <2>11 DEF LoggerInv
<1> QED
  BY <1>2, <1>12, <1>13

LEMMA DestroyLoggerInv ==
    ASSUME LoggerInv, NEW t \in Threads, DestroyLogger(t)
    PROVE  LoggerInv'
<1> DEFINE s == Nodes(logger.ring, logger.sentinel)
           r == logger.sentinel
           l == logger.block
           m1 == FoldLeft(NodeFreed, memory, s)
           m2 == Freed(m1, r)
           path == {b \in Blocks : memory.heap[b].kind \in {"node", "element", "message"}}
<1>1. /\ thread[t].pc = "destroy" /\ memory' = Freed(m2, l) /\ logger' = NoLogger
      /\ Becomes(t, Idle(FALSE)) /\ UNCHANGED <<logged, taken, calls, non_freed>>
  BY DEF DestroyLogger, At
<1>2. /\ thread \in [Threads -> ThreadRecord] /\ logged \in Nat /\ taken \in 0 .. logged
      /\ Counted(logger, thread) /\ Roomy(memory, thread, calls, logged)
      /\ Linked(memory.heap, thread) /\ Stored(memory, logger)
      /\ Listing(memory, logger, thread, logged, taken) /\ non_freed \in {-1, 0}
  BY DEF LoggerInv, Typed
<1>3. /\ logger.block # NoBlock /\ Region(memory)
      /\ l \in Blocks /\ memory.heap[l].kind = "logger"
      /\ r \in Blocks /\ memory.heap[r].kind = "ring"
  BY <1>1, UserHasLogger DEF User
<1>4. \A u \in Threads : u # t => thread[u].pc \in {"unborn", "gone"}
  BY <1>1, <1>2 DEF Counted, User
<1>5. \A u \in Threads : ~HoldingOne(thread, u)
  BY <1>1, <1>4 DEF HoldingOne
<1>6. PICK n, c : n \in Nat /\ ListOf(memory.heap, logger.ring, r, c, n, logged)
  BY <1>2, <1>3 DEF Listing, ListIs, Lists
<1>7. /\ Cycle(c, n) /\ RingOf(logger.ring, c, n) /\ c[0] = r
      /\ NodesOf(c, n) = {b \in Blocks : memory.heap[b].kind = "node"}
      /\ \A i \in 1 .. n : c[i] \in Blocks /\ memory.heap[c[i]].kind = "node"
  <2>1. Cycle(c, n) /\ \A i \in 1 .. n : c[i] \in Blocks /\ memory.heap[c[i]].kind = "node"
    BY <1>6, ListNodes
  <2> QED
    BY <1>6, <2>1 DEF ListOf
<1>8. DOMAIN s = 1 .. n /\ Len(s) = n /\ \A i \in 1 .. n : s[i] = c[i]
  <2>1. /\ Nodes(logger.ring, c[0]) \in Seq(Blocks) /\ Len(Nodes(logger.ring, c[0])) = n
        /\ \A i \in 1 .. n : Nodes(logger.ring, c[0])[i] = c[i]
    BY <1>7, RingIs
  <2> QED
    BY <1>7, <2>1
<1>9. \A i \in 1 .. n : s[i] \in Blocks /\ memory.heap[s[i]].kind = "node"
  BY <1>7, <1>8
<1>10. \A i, j \in 1 .. n : s[i] = s[j] => i = j
  <2>1. \A i \in 1 .. n : i \in 0 .. n
    OBVIOUS
  <2> QED
    BY <1>7, <1>8, <2>1 DEF Cycle
<1>11. PointersRight(memory.heap) /\ PointersApart(memory.heap) /\ AllOwned(memory.heap, thread)
  BY <1>2 DEF Linked
<1> HIDE DEF s
<1>12. /\ Region(m1)
       /\ \A b \in LedTo(memory.heap, s, n) : m1.heap[b] = Free
       /\ \A b \in Blocks \ LedTo(memory.heap, s, n) : m1.heap[b] = memory.heap[b]
  BY <1>3, <1>6, <1>8, <1>9, <1>10, <1>11, ListFreed
<1>13. LedTo(memory.heap, s, n) = path
  <2>1. \A b \in Blocks : memory.heap[b].kind = "node" => \E j \in 1 .. n : b = s[j]
    BY <1>7, <1>8 DEF NodesOf
  <2>2. \A b \in Blocks : memory.heap[b].kind = "element" =>
            \E d \in Blocks : memory.heap[d].kind = "node" /\ memory.heap[d].to = b
    BY <1>5, <1>11 DEF AllOwned, PointersRight, Referring, Below
  <2>3. \A b \in Blocks : memory.heap[b].kind = "message" =>
            \E d \in Blocks : memory.heap[d].kind = "element" /\ memory.heap[d].to = b
    BY <1>5, <1>11 DEF AllOwned, PointersRight, Referring, Below
  <2>4. path \subseteq LedTo(memory.heap, s, n)
    BY <2>1, <2>2, <2>3 DEF LedTo
  <2>5. \A j \in 1 .. n :
            /\ memory.heap[s[j]].to \in Blocks /\ memory.heap[memory.heap[s[j]].to].kind = "element"
            /\ memory.heap[memory.heap[memory.heap[s[j]].to].to].kind = "message"
    BY <1>9, <1>11 DEF PointersRight, Referring, Below
  <2>6. LedTo(memory.heap, s, n) \subseteq path
    BY <1>9, <2>5 DEF LedTo
  <2> QED
    BY <2>4, <2>6
<1> HIDE DEF m1
<1>14. /\ \A b \in path : m1.heap[b] = Free
       /\ \A b \in Blocks : b \notin path => m1.heap[b] = memory.heap[b]
  BY <1>12, <1>13
<1>15. m1.heap[r].kind = "ring" /\ m1.heap[l].kind = "logger"
  BY <1>3, <1>14
<1> HIDE DEF path
<1>16. Region(m2) /\ Changes(m1.heap, m2.heap, r, Free)
  BY <1>3, <1>12, <1>15, FreedIs
<1>17. m2.heap[l].kind = "logger"
  BY <1>3, <1>15, <1>16 DEF Changes
<1> HIDE DEF m2
<1>18. Region(memory') /\ Changes(m2.heap, memory'.heap, l, Free)
  BY <1>1, <1>3, <1>16, <1>17, FreedIs
<1>19. \A b \in Blocks : \/ memory'.heap[b] = Free
                         \/ /\ memory'.heap[b] = memory.heap[b] /\ b # l /\ b # r
                            /\ b \notin path
  BY <1>14, <1>16, <1>18 DEF Changes
<1>20. \A b \in Blocks : memory'.heap[b].kind \in {"free", "sentinel"}
  <2>1. \A b \in Blocks : memory.heap[b].kind \in Kinds
    BY <1>3 DEF Region, Content
  <2> QED
    BY <1>2, <1>19, <2>1, FreeIs DEF Kinds, Stored, path
<1>21. /\ logger' \in LoggerRecord /\ logger'.block = NoBlock /\ logger'.reference_count = 0
  BY <1>1, NoLinksAre DEF NoLogger, LoggerRecord
<1>22. /\ thread' \in [Threads -> ThreadRecord] /\ Others(thread, thread', t)
       /\ thread'[t].pc = "gone" /\ ~thread'[t].owns
  BY <1>1, <1>2, BecomesIs, IdleIs
<1>23. \A u \in Threads : thread'[u].pc \in {"unborn", "gone"} /\ ~thread'[u].owns
  BY <1>2, <1>4, <1>22 DEF Others, Counted, OwnsRightly
<1>24. Counted(logger', thread')
  <2>1. Owning(thread') = {} /\ Calling(thread') = {}
    BY <1>23 DEF Owning, Calling
  <2>2. logger'.reference_count = Cardinality(Owning(thread')) + Cardinality(Calling(thread'))
    BY <1>21, <2>1, FS_EmptySet
  <2>3. \A u \in Threads : OwnsRightly(thread'[u]) /\ ~User(thread', u)
    BY <1>23 DEF OwnsRightly, User
  <2>4. thread'[First].pc # "unborn"
    <3>1. First \in Threads /\ thread[First].pc # "unborn"
      BY <1>1, <1>2, LoggerAssumption DEF Counted
    <3> QED
      BY <1>22, <3>1 DEF Others
  <2> QED
    BY <1>21, <2>2, <2>3, <2>4 DEF Counted
<1>25. Typed'
  BY <1>1, <1>2, <1>21, <1>22 DEF Typed
<1>26. Stored(memory, logger)'
  <2>1. \A b \in Blocks : memory'.heap[b].kind = "sentinel" => b = Sentinel
    BY <1>2, <1>19, FreeIs DEF Stored
  <2> QED
    BY <1>18, <1>20, <1>21, <2>1 DEF Stored
<1>27. Linked(memory.heap, thread)'
  <2>1. \A b \in Blocks : memory'.heap[b].kind \notin {"node", "element", "message"}
    BY <1>20
  <2>2. \A u \in Threads : ~HoldingOne(thread', u)
    BY <1>23 DEF HoldingOne
  <2> QED
    BY <2>1, <2>2, LinkedNothing
<1>28. Roomy(memory, thread, calls, logged)'
  <2>1. InUse(memory') = {Sentinel} /\ Logging(thread') = {}
    BY <1>18, <1>21, <1>24, <1>26, <1>27, NothingInUse
  <2>2. Cardinality(InUse(memory')) = 1 /\ Cardinality(Logging(thread')) = 0
    BY <2>1, FS_Singleton, FS_EmptySet
  <2>3. Cardinality(Logging(thread)) \in Nat
    BY ThreadsFinite DEF Logging
  <2>4. calls \in 0 .. MaxCalls /\ logged + 0 <= calls /\ MaxCalls \in Nat
    BY <1>2, <2>3, LoggerAssumption DEF Roomy
  <2>5. 1 + 2 * 0 <= 3 + 3 * calls
    BY <2>4
  <2> QED
    BY <1>1, <2>2, <2>4, <2>5 DEF Roomy
<1>29. Listing(memory, logger, thread, logged, taken)'
  BY <1>21 DEF Listing
<1> QED
  BY <1>24, <1>25, <1>26, <1>27, <1>28, <1>29 DEF LoggerInv

-----------------------------------------------------------------------------
(* The invariant holds *)

\* A thread that takes a step uses the logger.
LEMMA StepsOfUsers ==
    ASSUME NEW t \in Threads, ThreadStep(t)
    PROVE  User(thread, t)
<1>1. \/ thread[t].pc \in {"idle", "destroy", "format", "log", "take", "element", "polled", "release"}
      \/ GiveUp(t)
  BY DEF ThreadStep, HandOver, DropOwn, DestroyLogger, SetCallback, NewMessage, CheckLevel, Format,
         Reject, LogString, Poll, Drain, DestroyElement, EndCallback, At
<1>2. GiveUp(t) => thread[t].pc \in {"take", "element"}
  BY DEF GiveUp, InCallback
<1> QED
  BY <1>1, <1>2 DEF User

LEMMA ThreadStepInv ==
    ASSUME LoggerInv, NEW t \in Threads, ThreadStep(t)
    PROVE  LoggerInv'
<1>1. CASE \E u \in Threads : HandOver(t, u)
  BY <1>1, HandOverInv
<1>2. CASE DropOwn(t)
  BY <1>2, DropOwnInv
<1>3. CASE DestroyLogger(t)
  BY <1>3, DestroyLoggerInv
<1>4. CASE SetCallback(t)
  BY <1>4, SetCallbackInv
<1>5. CASE \E detailed \in BOOLEAN : NewMessage(t, detailed)
  BY <1>5, NewMessageInv
<1>6. CASE CheckLevel(t)
  BY <1>6, CheckLevelInv
<1>7. CASE Format(t)
  BY <1>7, FormatInv
<1>8. CASE Reject(t)
  BY <1>8, RejectInv
<1>9. CASE LogString(t)
  BY <1>9, LogStringInv
<1>10. CASE Poll(t)
  BY <1>10, PollInv
<1>11. CASE Drain(t)
  BY <1>11, DrainInv
<1>12. CASE DestroyElement(t)
  BY <1>12, DestroyElementInv
<1>13. CASE GiveUp(t)
  BY <1>13, GiveUpInv
<1>14. CASE EndCallback(t)
  BY <1>14, EndCallbackInv
<1> QED
  BY <1>1, <1>2, <1>3, <1>4, <1>5, <1>6, <1>7, <1>8, <1>9, <1>10, <1>11, <1>12, <1>13, <1>14
     DEF ThreadStep

\* The logger is created once: no step makes a thread unborn.
LEMMA NobodyUnborn ==
    ASSUME LoggerInv, NEW t \in Threads, ThreadStep(t), NEW u \in Threads, thread[u].pc # "unborn"
    PROVE  thread'[u].pc # "unborn"
<1>1. thread \in [Threads -> ThreadRecord] /\ LoggerInv'
  BY ThreadStepInv DEF LoggerInv, Typed
<1>2. ASSUME NEW w \in Threads, NEW r, r.pc # "unborn", Becomes(w, r)
      PROVE  thread'[u].pc # "unborn"
  BY <1>1, <1>2 DEF Becomes
<1>3. ASSUME NEW w \in Threads, NEW pc \in Labels, pc # "unborn", Goes(w, pc)
      PROVE  thread'[u].pc # "unborn"
  BY <1>1, <1>3 DEF Goes, ThreadRecord
<1>4. ASSUME NEW w \in Threads, NEW pc \in Labels, NEW b, pc # "unborn", GoesWith(w, pc, b)
      PROVE  thread'[u].pc # "unborn"
  BY <1>1, <1>4 DEF GoesWith, ThreadRecord
<1>5. /\ Idle(TRUE).pc = "idle" /\ Idle(FALSE).pc = "gone"
      /\ \A x : [Idle(TRUE) EXCEPT !.pc = x].pc = x /\ [Idle(FALSE) EXCEPT !.pc = x].pc = x
  BY DEF Idle
<1>6. \A x \in {"idle", "format", "log", "take", "element", "polled", "release", "destroy"} :
          x \in Labels /\ x # "unborn"
  BY DEF Labels
<1>7. ASSUME NEW owns \in BOOLEAN, Dropped(t, owns) PROVE thread'[u].pc # "unborn"
  <2> DEFINE pc == IF Dereferenced(logger.reference_count) = 0 THEN "destroy" ELSE Idle(owns).pc
             r == [Idle(owns) EXCEPT !.pc = pc]
  <2>1. Becomes(t, r)
    BY <1>7 DEF Dropped
  <2>2. pc # "unborn"
    BY <1>5
  <2> HIDE DEF pc
  <2>3. r.pc # "unborn"
    BY <1>5, <2>2
  <2> HIDE DEF r
  <2> QED
    BY <1>2, <2>1, <2>3
<1>8. CASE \E w \in Threads : HandOver(t, w)
  BY <1>2, <1>5, <1>8 DEF HandOver
<1>9. CASE DropOwn(t)
  BY <1>7, <1>9 DEF DropOwn
<1>10. CASE DestroyLogger(t)
  BY <1>2, <1>5, <1>10 DEF DestroyLogger
<1>11. CASE SetCallback(t)
  BY <1>11 DEF SetCallback
<1>12. CASE \E detailed \in BOOLEAN : NewMessage(t, detailed)
  <2>1. PICK detailed \in BOOLEAN : NewMessage(t, detailed)
    BY <1>12
  <2> DEFINE r == [Idle(TRUE) EXCEPT !.pc = "log", !.block = Fresh(memory), !.detailed = detailed]
  <2>2. Becomes(t, r) /\ r.pc = "log"
    BY <2>1 DEF NewMessage, Idle
  <2> HIDE DEF r
  <2> QED
    BY <1>2, <2>2
<1>13. CASE CheckLevel(t)
  BY <1>3, <1>6, <1>13 DEF CheckLevel
<1>14. CASE Format(t)
  <2>1. GoesWith(t, "log", Fresh(memory)) \/ Goes(t, "idle")
    BY <1>14 DEF Format
  <2> QED
    BY <1>3, <1>4, <1>6, <2>1
<1>15. CASE Reject(t)
  BY <1>2, <1>5, <1>15 DEF Reject
<1>16. CASE LogString(t)
  <2> DEFINE pc == IF logger.callback THEN "take" ELSE Idle(TRUE).pc
             r == [Idle(TRUE) EXCEPT !.pc = pc]
  <2>1. Becomes(t, r) /\ pc # "unborn"
    BY <1>5, <1>16 DEF LogString
  <2> HIDE DEF pc
  <2>2. r.pc # "unborn"
    BY <1>5, <2>1
  <2> HIDE DEF r
  <2> QED
    BY <1>2, <2>1, <2>2
<1>17. CASE Poll(t)
  <2>1. Goes(t, "idle") \/ \E b : GoesWith(t, "polled", b)
    BY <1>17 DEF Poll, TakeElement
  <2> QED
    BY <1>3, <1>4, <1>6, <2>1
<1>18. CASE Drain(t)
  <2>1. Goes(t, "release") \/ \E b : GoesWith(t, "element", b)
    BY <1>18 DEF Drain, TakeElement
  <2> QED
    BY <1>3, <1>4, <1>6, <2>1
<1>19. CASE DestroyElement(t)
  <2>1. GoesWith(t, "take", NoBlock) \/ GoesWith(t, "idle", NoBlock)
    BY <1>19 DEF DestroyElement, AfterOutput
  <2> QED
    BY <1>4, <1>6, <2>1
<1>20. CASE GiveUp(t)
  <2>1. thread' = [thread EXCEPT ![t].owns = FALSE]
    BY <1>20 DEF GiveUp
  <2> QED
    BY <1>1, <2>1 DEF ThreadRecord
<1>21. CASE EndCallback(t)
  <2>1. thread[t].owns \in BOOLEAN
    BY <1>1 DEF ThreadRecord
  <2> QED
    BY <1>7, <1>21, <2>1 DEF EndCallback
<1> QED
  BY <1>8, <1>9, <1>10, <1>11, <1>12, <1>13, <1>14, <1>15, <1>16, <1>17, <1>18, <1>19, <1>20,
     <1>21 DEF ThreadStep

\* Nothing is logged, and nothing taken, before the logger is created.
LEMMA BeginsStep ==
    ASSUME LoggerInv, Begins, [Next]_vars
    PROVE  Begins'
<1> SUFFICES ASSUME thread'[First].pc = "unborn" PROVE logged' = 0 /\ taken' = 0
  BY DEF Begins
<1>1. First \in Threads /\ thread \in [Threads -> ThreadRecord]
  BY LoggerAssumption DEF LoggerInv, Typed
<1>2. thread[First].pc = "unborn" => \A t \in Threads : ~User(thread, t)
  BY DEF LoggerInv, Counted, User
<1>3. \A t \in Threads : ~ThreadStep(t)
  <2> SUFFICES ASSUME NEW t \in Threads, ThreadStep(t) PROVE FALSE
    OBVIOUS
  <2>1. thread[First].pc # "unborn"
    BY <1>2, StepsOfUsers
  <2> QED
    BY <1>1, <2>1, NobodyUnborn
<1>4. UNCHANGED <<logged, taken>>
  BY <1>3 DEF Next, CreateRegion, CreateLogger, DestroyRegion, Finished, vars
<1>5. thread[First].pc = "unborn"
  <2>1. CASE CreateLogger
    <3>1. /\ Idle(TRUE).pc = "idle" /\ Idle(FALSE).pc = "gone"
      BY DEF Idle
    <3> QED
      BY <1>1, <2>1, <3>1 DEF CreateLogger, Becomes
  <2> QED
    BY <1>3, <2>1 DEF Next, CreateRegion, DestroyRegion, Finished, vars
<1> QED
  BY <1>4, <1>5 DEF Begins

LEMMA StepInv ==
    ASSUME LoggerInv, Begins, [Next]_vars
    PROVE  LoggerInv' /\ Begins'
<1>1. CreateRegion => LoggerInv'
  BY CreateRegionInv
<1>2. CreateLogger => LoggerInv'
  BY CreateLoggerInv
<1>3. DestroyRegion => LoggerInv'
  BY DestroyRegionInv
<1>4. (\E t \in Threads : ThreadStep(t)) => LoggerInv'
  BY ThreadStepInv
<1>5. UNCHANGED vars => LoggerInv'
  BY SMTT(30) DEF vars, LoggerInv, Typed, Counted, Stored, Roomy, Linked, Listing, ListIs,
              PointersRight, HandsRight, PointersApart, HandsApart, BothApart, AllOwned,
              User, Owning, Calling, Logging, HoldingOne, Referring, Region, NobodyCalls,
              OwnsRightly, Lists, ListOf
<1>6. LoggerInv'
  BY <1>1, <1>2, <1>3, <1>4, <1>5 DEF Next, Finished
<1> QED
  BY <1>6, BeginsStep

\* The inductive invariant, for every number of threads and messages.
THEOREM Invariant == Spec => [](LoggerInv /\ Begins)
<1>1. Init => LoggerInv /\ Begins
  BY InitInv DEF Init, Begins
<1>2. (LoggerInv /\ Begins) /\ [Next]_vars => (LoggerInv /\ Begins)'
  BY StepInv
<1> QED
  BY <1>1, <1>2, PTL DEF Spec

-----------------------------------------------------------------------------
(* What follows from the invariant *)

(***************************************************************************)
(* The type invariant.  Each thread accounts for at most two references to *)
(* the logger (logger.c:109 and 298), its own and the one of its callback, and no  *)
(* more is logged than was allocated.                                      *)
(***************************************************************************)
THEOREM LoggerTypes == Spec => []TypeOK
<1>1. LoggerInv => TypeOK
  <2> SUFFICES ASSUME LoggerInv PROVE TypeOK
    OBVIOUS
  <2>1. memory.heap \in [Blocks -> Content]
    BY NoMemoryIs DEF LoggerInv, Stored, Region
  <2>2. logger.reference_count \in 0 .. 2 * Cardinality(Threads)
    <3>1. /\ Cardinality(Owning(thread)) \in 0 .. Cardinality(Threads)
          /\ Cardinality(Calling(thread)) \in 0 .. Cardinality(Threads)
          /\ Cardinality(Threads) \in Nat
      <4>1. Owning(thread) \in SUBSET Threads /\ Calling(thread) \in SUBSET Threads
        BY DEF Owning, Calling
      <4> QED
        BY <4>1, ThreadsFinite
    <3>2. logger.reference_count = Cardinality(Owning(thread)) + Cardinality(Calling(thread))
      BY DEF LoggerInv, Counted
    <3> QED
      BY <3>1, <3>2
  <2>3. logger.callback \in BOOLEAN
    BY DEF LoggerInv, Typed, LoggerRecord
  <2>4. thread \in [Threads -> ThreadRecord] /\ taken \in 0 .. logged /\ non_freed \in Nat \cup {-1}
    BY DEF LoggerInv, Typed
  <2>5. logged \in 0 .. MaxCalls
    <3>1. Cardinality(Logging(thread)) \in Nat
      BY ThreadsFinite DEF Logging
    <3>2. logged \in Nat /\ calls \in 0 .. MaxCalls /\ logged + Cardinality(Logging(thread)) <= calls
      BY DEF LoggerInv, Typed, Roomy
    <3>3. MaxCalls \in Nat
      BY LoggerAssumption
    <3> QED
      BY <3>1, <3>2, <3>3
  <2> QED
    BY <2>1, <2>2, <2>3, <2>4, <2>5 DEF TypeOK, ThreadRecord, Labels
<1> QED
  BY <1>1, Invariant, PTL

(***************************************************************************)
(* However many threads allocate, free, log and take messages, the ring of *)
(* the region (memory_region.c) runs through exactly the blocks in use and *)
(* that of the logger through exactly its nodes, each with a message.      *)
(***************************************************************************)
THEOREM RingsStayRings == Spec => []RingsConsistent
<1>1. LoggerInv => RingsConsistent
  <2> SUFFICES ASSUME LoggerInv PROVE RingsConsistent
    OBVIOUS
  <2>1. RegionAlive(memory) => IsRing(memory.ring, Sentinel, InUse(memory) \ {Sentinel})
    BY NoMemoryIs, RegionRing DEF LoggerInv, Stored
  <2> DEFINE nodes == {b \in Blocks : memory.heap[b].kind = "node"}
  <2>2. ASSUME LoggerAlive PROVE IsRing(logger.ring, logger.sentinel, nodes)
    <3>1. PICK n, c : ListOf(memory.heap, logger.ring, logger.sentinel, c, n, logged)
      BY <2>2 DEF LoggerInv, Listing, ListIs, Lists, LoggerAlive
    <3>2. RingOf(logger.ring, c, n) /\ c[0] = logger.sentinel /\ NodesOf(c, n) = nodes
      BY <3>1 DEF ListOf
    <3>3. IsRing(logger.ring, c[0], NodesOf(c, n))
      BY <3>2, RingIs
    <3> QED
      BY <3>2, <3>3
  <2>3. \A n \in nodes : /\ memory.heap[memory.heap[n].to].kind = "element"
                         /\ memory.heap[memory.heap[memory.heap[n].to].to].kind = "message"
    BY DEF LoggerInv, Linked, PointersRight, Referring, Below
  <2> QED
    BY <2>1, <2>2, <2>3 DEF RingsConsistent
<1> QED
  BY <1>1, Invariant, PTL

(***************************************************************************)
(* The logger exists while any thread uses it, a callback included, and    *)
(* one thread alone gets to destroy it (logger.c:123 and 298): the         *)
(* reference count is the number of references there are.                  *)
(***************************************************************************)
THEOREM NoThreadUsesItDestroyed == Spec => []NoUseAfterDestroy
<1>1. LoggerInv => NoUseAfterDestroy
  BY DEF LoggerInv, Counted, User, NoUseAfterDestroy, LoggerAlive, At
<1> QED
  BY <1>1, Invariant, PTL

(***************************************************************************)
(* When no thread is inside the callback, every message still in the list  *)
(* is older than the callback: file_output_callback, run by each thread    *)
(* that logged, leaves nothing behind.                                     *)
(***************************************************************************)
THEOREM NobodyStrandsMessages == Spec => []NothingStranded
<1>1. LoggerInv => NothingStranded
  <2> SUFFICES ASSUME LoggerInv, LoggerAlive, logger.callback, NobodyCalls(thread),
                      NEW i \in DOMAIN Listed
               PROVE  Listed[i] <= logger.since
    BY DEF NothingStranded, NobodyCalls
  <2> DEFINE s == Nodes(logger.ring, logger.sentinel)
             nodes == Reverse(s)
  <2>1. PICK n : ListIs(memory, logger, thread, logged, taken, n)
    BY DEF LoggerInv, Listing, LoggerAlive
  <2>2. /\ n \in Nat /\ logged \in Nat /\ logger.since \in Nat
        /\ n = 0 \/ logged <= logger.since
    BY <2>1 DEF LoggerInv, Typed, LoggerRecord, ListIs, Lists
  <2>3. PICK c : ListOf(memory.heap, logger.ring, logger.sentinel, c, n, logged)
    BY <2>1 DEF ListIs, Lists
  <2>4. RingOf(logger.ring, c, n) /\ c[0] = logger.sentinel
    BY <2>3 DEF ListOf
  <2>5. Len(s) = n /\ \A j \in 1 .. n : s[j] = c[j]
    <3>1. /\ Len(Nodes(logger.ring, c[0])) = n
          /\ \A j \in 1 .. n : Nodes(logger.ring, c[0])[j] = c[j]
      BY <2>4, RingIs
    <3> QED
      BY <2>4, <3>1
  <2> HIDE DEF s
  <2>6. nodes = [j \in 1 .. n |-> s[(n - j) + 1]]
    BY <2>5 DEF Reverse
  <2>7. Listed = [j \in DOMAIN nodes |-> memory.heap[memory.heap[nodes[j]].to].id]
    BY DEF Listed, s
  <2> HIDE DEF nodes
  <2>8. DOMAIN nodes = 1 .. n /\ i \in 1 .. n
    BY <2>6, <2>7
  <2>9. (n - i) + 1 \in 1 .. n
    BY <2>2, <2>8
  <2>10. nodes[i] = c[(n - i) + 1]
    BY <2>5, <2>6, <2>8, <2>9
  <2>11. Listed[i] = (logged - ((n - i) + 1)) + 1
    <3>1. memory.heap[memory.heap[c[(n - i) + 1]].to].id = (logged - ((n - i) + 1)) + 1
      BY <2>3, <2>9 DEF ListOf
    <3> QED
      BY <2>7, <2>8, <2>10, <3>1
  <2>12. (logged - ((n - i) + 1)) + 1 <= logger.since
    BY <2>2, <2>8, <2>9
  <2> QED
    BY <2>11, <2>12
<1> QED
  BY <1>1, Invariant, PTL

(***************************************************************************)
(* armd_memory_region_destroy finds nothing left of a logger: whichever of *)
(* its messages were rejected, taken or left in the list, each has been    *)
(* freed once.                                                             *)
(***************************************************************************)
THEOREM NothingIsLeaked == Spec => []NothingLeaked
<1>1. LoggerInv => NothingLeaked
  BY DEF LoggerInv, Typed, NothingLeaked
<1> QED
  BY <1>1, Invariant, PTL

(***************************************************************************)
(* Messages are taken in the order in which they were logged, each once    *)
(* and none left out, whichever threads take them.                         *)
(***************************************************************************)
THEOREM MessagesTakenInOrder == Spec => TakenInOrder
<1>1. LoggerInv /\ [Next]_vars => [taken' # taken => taken' = taken + 1]_vars
  <2> SUFFICES ASSUME LoggerInv, [Next]_vars, taken' # taken PROVE taken' = taken + 1
    OBVIOUS
  <2>1. PICK t \in Threads : ThreadStep(t)
    BY DEF Next, CreateRegion, CreateLogger, DestroyRegion, Finished, vars
  <2>2. Poll(t) \/ Drain(t)
    BY <2>1 DEF ThreadStep, HandOver, DropOwn, DestroyLogger, SetCallback, NewMessage, CheckLevel,
                Format, Reject, LogString, DestroyElement, GiveUp, EndCallback
  <2> QED
    BY <2>2, PollInv, DrainInv
<1> QED
  BY <1>1, Invariant, PTL DEF Spec, TakenInOrder

=============================================================================
