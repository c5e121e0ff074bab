-------------------------- MODULE Containers_proofs --------------------------
(***************************************************************************)
(* The containers of a context are what they promise to be, whatever their *)
(* initial sizes, the keys and the values, and whichever allocations fail: *)
(* the ring buffer of deque.c implements a sequence of jobs, the chained   *)
(* table of hash_table.c implements a partial map, and together they own   *)
(* every block of their region.                                            *)
(***************************************************************************)
EXTENDS Containers, InductionLemmas, FiniteSetTheorems, FunctionTheorems, SequenceTheorems

-----------------------------------------------------------------------------
(* The deque *)

IsRecord(d) ==
    d = [buffer_size |-> d.buffer_size, head_index |-> d.head_index,
         tail_index |-> d.tail_index, buffer |-> d.buffer]

\* A deque in use: its indices are inside the buffer, and what lies between
\* them was put there.
WellFormed(d) ==
    /\ IsRecord(d)
    /\ d.buffer_size \in Nat \ {0}
    /\ d.head_index \in 0 .. d.buffer_size - 1
    /\ d.tail_index \in 0 .. d.buffer_size - 1
    /\ d.buffer \in Buffer(d.buffer_size)
    /\ \A i \in 0 .. NumEntries(d) - 1 : Entry(d, i) \in Elements

DequeAnswers == [status : {-1, 0}, element : Elements \cup {Nothing}]

\* The inductive invariant.
DequeInv ==
    /\ Alive => WellFormed(deque)
    /\ deque_answer \in DequeAnswers

-----------------------------------------------------------------------------
(* Arithmetic of indices *)

\* A sum of two indices wraps at most once.
LEMMA RoundOnce ==
    ASSUME NEW m \in Nat \ {0}, NEW a \in 0 .. 2 * m - 1
    PROVE  a % m = IF a < m THEN a ELSE a - m
<1>1. CASE a < m
  <2>1. a \in 0 .. m - 1
    BY <1>1
  <2>2. a % m = a
    BY <2>1
  <2> QED BY <2>2, <1>1
<1>2. CASE ~(a < m)
  <2>1. a \in m .. 2 * m - 1
    BY <1>2
  <2>2. a % m = a - m
    BY <2>1
  <2> QED BY <2>2, <1>2
<1> QED BY <1>1, <1>2

\* The neighbours of an index.
LEMMA Neighbours ==
    ASSUME NEW m \in Nat \ {0}, NEW i \in 0 .. m - 1
    PROVE  /\ NextIndex(i, m) = IF i = m - 1 THEN 0 ELSE i + 1
           /\ PrevIndex(i, m) = IF i = 0 THEN m - 1 ELSE i - 1
<1>1. NextIndex(i, m) = IF i = m - 1 THEN 0 ELSE i + 1
  <2> DEFINE a == i + 1
  <2>1. a \in 0 .. 2 * m - 1
    OBVIOUS
  <2>2. a % m = IF a < m THEN a ELSE a - m
    <3> HIDE DEF a
    <3> QED BY <2>1, RoundOnce
  <2> QED BY <2>2 DEF NextIndex
<1>2. PrevIndex(i, m) = IF i = 0 THEN m - 1 ELSE i - 1
  <2> DEFINE a == i + m - 1
  <2>1. a \in 0 .. 2 * m - 1
    OBVIOUS
  <2>2. a % m = IF a < m THEN a ELSE a - m
    <3> HIDE DEF a
    <3> QED BY <2>1, RoundOnce
  <2> QED BY <2>2 DEF PrevIndex
<1> QED BY <1>1, <1>2

\* How many entries there are, in each of the two positions of the indices.
LEMMA Counted ==
    ASSUME NEW d, d.buffer_size \in Nat \ {0},
           d.head_index \in 0 .. d.buffer_size - 1,
           d.tail_index \in 0 .. d.buffer_size - 1
    PROVE  /\ NumEntries(d) = IF d.head_index <= d.tail_index
                                THEN d.tail_index - d.head_index
                                ELSE d.buffer_size + d.tail_index - d.head_index
           /\ NumEntries(d) \in 0 .. d.buffer_size - 1
<1> DEFINE m == d.buffer_size
           a == d.buffer_size + d.tail_index - d.head_index
<1>1. a \in 0 .. 2 * m - 1
  OBVIOUS
<1>2. a % m = IF a < m THEN a ELSE a - m
  <2> HIDE DEF a
  <2> QED BY <1>1, RoundOnce
<1> QED BY <1>2 DEF NumEntries

\* Where the i-th entry lies.
LEMMA Placed ==
    ASSUME NEW d, d.buffer_size \in Nat \ {0},
           d.head_index \in 0 .. d.buffer_size - 1,
           NEW i \in 0 .. d.buffer_size - 1
    PROVE  Entry(d, i) = d.buffer[IF d.head_index + i < d.buffer_size
                                    THEN d.head_index + i
                                    ELSE d.head_index + i - d.buffer_size]
<1> DEFINE m == d.buffer_size
           a == d.head_index + i
<1>1. a \in 0 .. 2 * m - 1
  OBVIOUS
<1>2. a % m = IF a < m THEN a ELSE a - m
  <2> HIDE DEF a
  <2> QED BY <1>1, RoundOnce
<1> QED BY <1>2 DEF Entry

-----------------------------------------------------------------------------
(* Contents *)

\* What makes a sequence the contents of a deque.
LEMMA ContentsAre ==
    ASSUME NEW d, WellFormed(d)
    PROVE  /\ Contents(d) \in Seq(Elements)
           /\ Len(Contents(d)) = NumEntries(d)
           /\ \A i \in 1 .. NumEntries(d) : Contents(d)[i] = Entry(d, i - 1)
<1>1. NumEntries(d) \in Nat
  BY Counted DEF WellFormed
<1>2. \A i \in 1 .. NumEntries(d) : Entry(d, i - 1) \in Elements
  BY <1>1 DEF WellFormed
<1> QED BY <1>1, <1>2 DEF Contents

LEMMA ContentsUnique ==
    ASSUME NEW d, WellFormed(d), NEW s \in Seq(Elements),
           Len(s) = NumEntries(d),
           \A i \in 1 .. NumEntries(d) : s[i] = Entry(d, i - 1)
    PROVE  Contents(d) = s
  BY ContentsAre, SeqEqual

-----------------------------------------------------------------------------
(* What the operations do to the contents *)

\* How a deque is shown to be well formed with given contents.
LEMMA Rebuilt ==
    ASSUME NEW m \in Nat \ {0}, NEW h \in 0 .. m - 1, NEW t \in 0 .. m - 1,
           NEW b \in Buffer(m), NEW s \in Seq(Elements), NEW d,
           d = [buffer_size |-> m, head_index |-> h, tail_index |-> t, buffer |-> b],
           Len(s) = NumEntries(d),
           \A i \in 0 .. NumEntries(d) - 1 : Entry(d, i) = s[i + 1]
    PROVE  WellFormed(d) /\ Contents(d) = s
<1>1. /\ d.buffer_size = m /\ d.head_index = h /\ d.tail_index = t /\ d.buffer = b
  OBVIOUS
<1>2. NumEntries(d) \in Nat
  BY <1>1, Counted
<1>3. \A i \in 0 .. NumEntries(d) - 1 : Entry(d, i) \in Elements
  BY <1>2
<1>4. WellFormed(d)
  BY <1>1, <1>3 DEF WellFormed, IsRecord
<1>5. \A i \in 1 .. NumEntries(d) : s[i] = Entry(d, i - 1)
  BY <1>2
<1> QED BY <1>4, <1>5, ContentsUnique

\* Updates of the record, spelt out.
WithHead(d, g, k, j) == [d EXCEPT !.head_index = g, !.buffer[k] = j]
WithTail(d, g, k, j) == [d EXCEPT !.tail_index = g, !.buffer[k] = j]

LEMMA HeadMoved ==
    ASSUME NEW d, IsRecord(d), NEW g, NEW k, NEW j
    PROVE  WithHead(d, g, k, j)
             = [buffer_size |-> d.buffer_size, head_index |-> g, tail_index |-> d.tail_index,
                buffer |-> [d.buffer EXCEPT ![k] = j]]
<1> DEFINE m == d.buffer_size
           h == d.head_index
           t == d.tail_index
           b == d.buffer
           c == [b EXCEPT ![k] = j]
           x == [buffer_size |-> m, head_index |-> g, tail_index |-> t, buffer |-> b]
<1>1. d = [buffer_size |-> m, head_index |-> h, tail_index |-> t, buffer |-> b]
  BY DEF IsRecord
<1>2. WithHead(d, g, k, j) = [d EXCEPT !.head_index = g, !.buffer = c]
  BY DEF WithHead
<1> HIDE DEF m, h, t, b, c
<1>3. [d EXCEPT !.head_index = g] = x
  BY <1>1
<1>4. [x EXCEPT !.buffer = c]
        = [buffer_size |-> m, head_index |-> g, tail_index |-> t, buffer |-> c]
  OBVIOUS
<1>5. [d EXCEPT !.head_index = g, !.buffer = c] = [[d EXCEPT !.head_index = g] EXCEPT !.buffer = c]
  OBVIOUS
<1> QED BY <1>2, <1>3, <1>4, <1>5 DEF m, h, t, b, c

LEMMA TailMoved ==
    ASSUME NEW d, IsRecord(d), NEW g, NEW k, NEW j
    PROVE  WithTail(d, g, k, j)
             = [buffer_size |-> d.buffer_size, head_index |-> d.head_index, tail_index |-> g,
                buffer |-> [d.buffer EXCEPT ![k] = j]]
<1> DEFINE m == d.buffer_size
           h == d.head_index
           t == d.tail_index
           b == d.buffer
           c == [b EXCEPT ![k] = j]
           x == [buffer_size |-> m, head_index |-> h, tail_index |-> g, buffer |-> b]
<1>1. d = [buffer_size |-> m, head_index |-> h, tail_index |-> t, buffer |-> b]
  BY DEF IsRecord
<1>2. WithTail(d, g, k, j) = [d EXCEPT !.tail_index = g, !.buffer = c]
  BY DEF WithTail
<1> HIDE DEF m, h, t, b, c
<1>3. [d EXCEPT !.tail_index = g] = x
  BY <1>1
<1>4. [x EXCEPT !.buffer = c]
        = [buffer_size |-> m, head_index |-> h, tail_index |-> g, buffer |-> c]
  OBVIOUS
<1>5. [d EXCEPT !.tail_index = g, !.buffer = c] = [[d EXCEPT !.tail_index = g] EXCEPT !.buffer = c]
  OBVIOUS
<1> QED BY <1>2, <1>3, <1>4, <1>5 DEF m, h, t, b, c

LEMMA PutForwardContents ==
    ASSUME NEW d, WellFormed(d), ~IsFull(d), NEW j \in Elements
    PROVE  /\ WellFormed(PutForward(d, j))
           /\ Contents(PutForward(d, j)) = <<j>> \o Contents(d)
<1> DEFINE m == d.buffer_size
           h == d.head_index
           t == d.tail_index
           g == PrevIndex(h, m)
           b == [d.buffer EXCEPT ![g] = j]
           e == [buffer_size |-> m, head_index |-> g, tail_index |-> t, buffer |-> b]
           s == <<j>> \o Contents(d)
<1>1. m \in Nat \ {0} /\ h \in 0 .. m - 1 /\ t \in 0 .. m - 1 /\ d.buffer \in Buffer(m)
  BY DEF WellFormed
<1>2. /\ g = IF h = 0 THEN m - 1 ELSE h - 1
      /\ g \in 0 .. m - 1
  BY <1>1, Neighbours
<1>3. g # t
  BY <1>1, <1>2, Neighbours DEF IsFull
<1>4. b \in Buffer(m)
  BY <1>1, <1>2 DEF Buffer
<1>5. PutForward(d, j) = e
  <2>1. PutForward(d, j) = WithHead(d, g, g, j)
    BY DEF PutForward, WithHead
  <2>2. IsRecord(d)
    BY DEF WellFormed
  <2> QED BY <2>1, <2>2, HeadMoved
<1>6. e.buffer_size = m /\ e.head_index = g /\ e.tail_index = t /\ e.buffer = b
  OBVIOUS
<1>7. /\ NumEntries(d) = IF h <= t THEN t - h ELSE m + t - h
      /\ NumEntries(d) \in 0 .. m - 1
  BY <1>1, Counted
<1>8. NumEntries(e) = IF g <= t THEN t - g ELSE m + t - g
  <2> HIDE DEF e
  <2> QED BY <1>1, <1>2, <1>6, Counted
<1>9. NumEntries(e) = NumEntries(d) + 1
  <2> HIDE DEF e
  <2> QED BY <1>1, <1>2, <1>3, <1>7, <1>8
<1>10. s \in Seq(Elements) /\ Len(s) = NumEntries(d) + 1
  BY <1>7, ContentsAre
<1>11. \A i \in 0 .. NumEntries(d) : Entry(e, i) = s[i + 1]
  <2> TAKE i \in 0 .. NumEntries(d)
  <2>1. i \in 0 .. m - 1
    BY <1>1, <1>7
  <2>2. Entry(e, i) = b[IF g + i < m THEN g + i ELSE g + i - m]
    <3> HIDE DEF e
    <3> QED BY <1>1, <1>2, <1>6, <2>1, Placed, ZenonT(60)
  <2>3. CASE i = 0
    <3>1. Entry(e, i) = b[g]
      BY <1>1, <1>2, <2>2, <2>3
    <3>2. b[g] = j
      BY <1>1, <1>2 DEF Buffer
    <3>3. s[1] = j
      BY ContentsAre
    <3> QED BY <2>3, <3>1, <3>2, <3>3
  <2>4. CASE i # 0
    <3> DEFINE k == IF h + (i - 1) < m THEN h + (i - 1) ELSE h + (i - 1) - m
    <3>1. (IF g + i < m THEN g + i ELSE g + i - m) = k
      BY <1>1, <1>2, <2>1, <2>4
    <3>2. k \in 0 .. m - 1 /\ k # g
      BY <1>1, <1>2, <2>1, <2>4, <1>7
    <3>3. b[k] = d.buffer[k]
      BY <1>1, <3>2 DEF Buffer
    <3>4. i - 1 \in 0 .. m - 1
      BY <1>1, <2>1, <2>4
    <3>5. Entry(d, i - 1) = d.buffer[k]
      BY <1>1, <3>4, Placed
    <3>6. s[i + 1] = Contents(d)[i]
      BY <1>7, <2>4, ContentsAre
    <3>7. Contents(d)[i] = Entry(d, i - 1)
      BY <1>7, <2>4, ContentsAre
    <3> QED BY <2>2, <3>1, <3>3, <3>5, <3>6, <3>7
  <2> QED BY <2>3, <2>4
<1> HIDE DEF e, s, b, g
<1>12. e = [buffer_size |-> m, head_index |-> g, tail_index |-> t, buffer |-> b]
  BY DEF e
<1>13. \A i \in 0 .. NumEntries(e) - 1 : Entry(e, i) = s[i + 1]
  BY <1>7, <1>9, <1>11
<1>14. WellFormed(e) /\ Contents(e) = s
  BY <1>1, <1>2, <1>4, <1>9, <1>10, <1>12, <1>13, Rebuilt
<1> QED BY <1>5, <1>14 DEF s

LEMMA PutBackContents ==
    ASSUME NEW d, WellFormed(d), ~IsFull(d), NEW j \in Elements
    PROVE  /\ WellFormed(PutBack(d, j))
           /\ Contents(PutBack(d, j)) = Append(Contents(d), j)
<1> DEFINE m == d.buffer_size
           h == d.head_index
           t == d.tail_index
           g == NextIndex(t, m)
           b == [d.buffer EXCEPT ![t] = j]
           e == [buffer_size |-> m, head_index |-> h, tail_index |-> g, buffer |-> b]
           s == Append(Contents(d), j)
<1>1. m \in Nat \ {0} /\ h \in 0 .. m - 1 /\ t \in 0 .. m - 1 /\ d.buffer \in Buffer(m)
  BY DEF WellFormed
<1>2. /\ g = IF t = m - 1 THEN 0 ELSE t + 1
      /\ g \in 0 .. m - 1
  BY <1>1, Neighbours
<1>3. g # h
  BY DEF IsFull
<1>4. b \in Buffer(m)
  BY <1>1 DEF Buffer
<1>5. PutBack(d, j) = e
  <2>1. PutBack(d, j) = WithTail(d, g, t, j)
    BY DEF PutBack, WithTail
  <2>2. IsRecord(d)
    BY DEF WellFormed
  <2> QED BY <2>1, <2>2, TailMoved
<1>6. e.buffer_size = m /\ e.head_index = h /\ e.tail_index = g /\ e.buffer = b
  OBVIOUS
<1>7. /\ NumEntries(d) = IF h <= t THEN t - h ELSE m + t - h
      /\ NumEntries(d) \in 0 .. m - 1
  BY <1>1, Counted
<1>8. NumEntries(e) = IF h <= g THEN g - h ELSE m + g - h
  <2> HIDE DEF e
  <2> QED BY <1>1, <1>2, <1>6, Counted
<1>9. NumEntries(e) = NumEntries(d) + 1
  <2> HIDE DEF e
  <2> QED BY <1>1, <1>2, <1>3, <1>7, <1>8
<1>10. s \in Seq(Elements) /\ Len(s) = NumEntries(d) + 1
  BY <1>7, ContentsAre
<1>11. \A i \in 0 .. NumEntries(d) : Entry(e, i) = s[i + 1]
  <2> TAKE i \in 0 .. NumEntries(d)
  <2> DEFINE k == IF h + i < m THEN h + i ELSE h + i - m
  <2>1. i \in 0 .. m - 1
    BY <1>1, <1>7
  <2>2. Entry(e, i) = b[k]
    <3> HIDE DEF e
    <3> QED BY <1>1, <1>2, <1>6, <2>1, Placed, ZenonT(60)
  <2>3. CASE i = NumEntries(d)
    <3>1. k = t
      BY <1>1, <1>7, <2>3
    <3>2. b[t] = j
      BY <1>1 DEF Buffer
    <3>3. s[i + 1] = j
      BY <1>7, <2>3, ContentsAre
    <3> QED BY <2>2, <3>1, <3>2, <3>3
  <2>4. CASE i # NumEntries(d)
    <3>1. k \in 0 .. m - 1 /\ k # t
      BY <1>1, <2>1, <2>4, <1>7
    <3>2. b[k] = d.buffer[k]
      BY <1>1, <3>1 DEF Buffer
    <3>3. Entry(d, i) = d.buffer[k]
      BY <1>1, <2>1, Placed
    <3>4. i + 1 \in 1 .. NumEntries(d)
      BY <1>7, <2>4
    <3>5. Contents(d)[i + 1] = Entry(d, (i + 1) - 1)
      BY <3>4, ContentsAre
    <3>6. s[i + 1] = Contents(d)[i + 1]
      BY <1>7, <3>4, ContentsAre
    <3>7. (i + 1) - 1 = i
      BY <1>7
    <3> QED BY <2>2, <3>2, <3>3, <3>5, <3>6, <3>7
  <2> QED BY <2>3, <2>4
<1> HIDE DEF e, s, b, g
<1>12. e = [buffer_size |-> m, head_index |-> h, tail_index |-> g, buffer |-> b]
  BY DEF e
<1>13. \A i \in 0 .. NumEntries(e) - 1 : Entry(e, i) = s[i + 1]
  BY <1>7, <1>9, <1>11
<1>14. WellFormed(e) /\ Contents(e) = s
  BY <1>1, <1>2, <1>4, <1>9, <1>10, <1>12, <1>13, Rebuilt, SMTT(30)
<1> QED BY <1>5, <1>14 DEF s

LEMMA TakeForwardContents ==
    ASSUME NEW d, WellFormed(d), ~IsEmpty(d)
    PROVE  /\ WellFormed(TakeForward(d))
           /\ Contents(d) # <<>>
           /\ Contents(TakeForward(d)) = Tail(Contents(d))
           /\ d.buffer[d.head_index] = Head(Contents(d))
           /\ d.buffer[d.head_index] \in Elements
<1> DEFINE m == d.buffer_size
           h == d.head_index
           t == d.tail_index
           g == NextIndex(h, m)
           b == [d.buffer EXCEPT ![h] = Nothing]
           e == [buffer_size |-> m, head_index |-> g, tail_index |-> t, buffer |-> b]
           s == Tail(Contents(d))
<1>1. m \in Nat \ {0} /\ h \in 0 .. m - 1 /\ t \in 0 .. m - 1 /\ d.buffer \in Buffer(m)
  BY DEF WellFormed
<1>2. /\ g = IF h = m - 1 THEN 0 ELSE h + 1
      /\ g \in 0 .. m - 1
  BY <1>1, Neighbours
<1>3. h # t
  BY DEF IsEmpty
<1>4. b \in Buffer(m)
  BY <1>1 DEF Buffer
<1>5. TakeForward(d) = e
  <2>1. TakeForward(d) = WithHead(d, g, h, Nothing)
    BY DEF TakeForward, WithHead
  <2>2. IsRecord(d)
    BY DEF WellFormed
  <2> QED BY <2>1, <2>2, HeadMoved
<1>6. e.buffer_size = m /\ e.head_index = g /\ e.tail_index = t /\ e.buffer = b
  OBVIOUS
<1>7. /\ NumEntries(d) = IF h <= t THEN t - h ELSE m + t - h
      /\ NumEntries(d) \in 1 .. m - 1
  BY <1>1, <1>3, Counted
<1>8. NumEntries(e) = IF g <= t THEN t - g ELSE m + t - g
  <2> HIDE DEF e
  <2> QED BY <1>1, <1>2, <1>6, Counted
<1>9. NumEntries(e) = NumEntries(d) - 1
  <2> HIDE DEF e
  <2> QED BY <1>1, <1>2, <1>3, <1>7, <1>8
<1>10. Contents(d) \in Seq(Elements) /\ Len(Contents(d)) = NumEntries(d) /\ Contents(d) # <<>>
  BY <1>7, ContentsAre
<1>11. s \in Seq(Elements) /\ Len(s) = NumEntries(d) - 1
  BY <1>7, <1>10
<1>12. \A i \in 0 .. NumEntries(d) - 2 : Entry(e, i) = s[i + 1]
  <2> TAKE i \in 0 .. NumEntries(d) - 2
  <2> DEFINE k == IF h + (i + 1) < m THEN h + (i + 1) ELSE h + (i + 1) - m
  <2>1. i \in 0 .. m - 1 /\ i + 1 \in 0 .. m - 1
    BY <1>1, <1>7
  <2>2. Entry(e, i) = b[IF g + i < m THEN g + i ELSE g + i - m]
    <3> HIDE DEF e
    <3> QED BY <1>1, <1>2, <1>6, <2>1, Placed, ZenonT(60)
  <2>3. (IF g + i < m THEN g + i ELSE g + i - m) = k
    BY <1>1, <1>2, <2>1
  <2>4. k \in 0 .. m - 1 /\ k # h
    BY <1>1, <2>1
  <2>5. b[k] = d.buffer[k]
    BY <1>1, <2>4 DEF Buffer
  <2>6. Entry(d, i + 1) = d.buffer[k]
    BY <1>1, <2>1, Placed
  <2>7. i + 2 \in 1 .. NumEntries(d)
    BY <1>7
  <2>8. Contents(d)[i + 2] = Entry(d, (i + 2) - 1)
    BY <2>7, ContentsAre
  <2>9. s[i + 1] = Contents(d)[i + 2]
    BY <1>7, <1>10
  <2>10. (i + 2) - 1 = i + 1
    BY <1>7
  <2> QED BY <2>2, <2>3, <2>5, <2>6, <2>8, <2>9, <2>10
<1>13. d.buffer[h] = Head(Contents(d)) /\ d.buffer[h] \in Elements
  <2>1. Entry(d, 0) = d.buffer[h]
    <3>1. 0 \in 0 .. m - 1
      BY <1>1
    <3>2. Entry(d, 0) = d.buffer[IF h + 0 < m THEN h + 0 ELSE h + 0 - m]
      BY <1>1, <3>1, Placed
    <3> QED BY <1>1, <3>2
  <2>2. Contents(d)[1] = Entry(d, 1 - 1)
    BY <1>7, ContentsAre
  <2>3. Head(Contents(d)) = Contents(d)[1] /\ Contents(d)[1] \in Elements
    BY <1>7, <1>10
  <2> QED BY <2>1, <2>2, <2>3
<1> HIDE DEF e, s, b, g
<1>14. e = [buffer_size |-> m, head_index |-> g, tail_index |-> t, buffer |-> b]
  BY DEF e
<1>15. \A i \in 0 .. NumEntries(e) - 1 : Entry(e, i) = s[i + 1]
  BY <1>7, <1>9, <1>12
<1>16. WellFormed(e) /\ Contents(e) = s
  BY <1>1, <1>2, <1>4, <1>9, <1>11, <1>14, <1>15, Rebuilt
<1> QED BY <1>5, <1>10, <1>13, <1>16 DEF s

LEMMA TakeBackContents ==
    ASSUME NEW d, WellFormed(d), ~IsEmpty(d)
    PROVE  LET taken == d.buffer[PrevIndex(d.tail_index, d.buffer_size)]
               n == Len(Contents(d)) IN
           /\ WellFormed(TakeBack(d))
           /\ Contents(d) # <<>>
           /\ Contents(TakeBack(d)) = SubSeq(Contents(d), 1, n - 1)
           /\ taken = Contents(d)[n]
           /\ taken \in Elements
<1> DEFINE m == d.buffer_size
           h == d.head_index
           t == d.tail_index
           g == PrevIndex(t, m)
           b == [d.buffer EXCEPT ![g] = Nothing]
           e == [buffer_size |-> m, head_index |-> h, tail_index |-> g, buffer |-> b]
           s == SubSeq(Contents(d), 1, Len(Contents(d)) - 1)
<1>1. m \in Nat \ {0} /\ h \in 0 .. m - 1 /\ t \in 0 .. m - 1 /\ d.buffer \in Buffer(m)
  BY DEF WellFormed
<1>2. /\ g = IF t = 0 THEN m - 1 ELSE t - 1
      /\ g \in 0 .. m - 1
  BY <1>1, Neighbours
<1>3. h # t
  BY DEF IsEmpty
<1>4. b \in Buffer(m)
  BY <1>1, <1>2 DEF Buffer
<1>5. TakeBack(d) = e
  <2>1. TakeBack(d) = WithTail(d, g, g, Nothing)
    BY DEF TakeBack, WithTail
  <2>2. IsRecord(d)
    BY DEF WellFormed
  <2> QED BY <2>1, <2>2, TailMoved
<1>6. e.buffer_size = m /\ e.head_index = h /\ e.tail_index = g /\ e.buffer = b
  OBVIOUS
<1>7. /\ NumEntries(d) = IF h <= t THEN t - h ELSE m + t - h
      /\ NumEntries(d) \in 1 .. m - 1
  BY <1>1, <1>3, Counted
<1>8. NumEntries(e) = IF h <= g THEN g - h ELSE m + g - h
  <2> HIDE DEF e
  <2> QED BY <1>1, <1>2, <1>6, Counted
<1>9. NumEntries(e) = NumEntries(d) - 1
  <2> HIDE DEF e
  <2> QED BY <1>1, <1>2, <1>3, <1>7, <1>8
<1>10. Contents(d) \in Seq(Elements) /\ Len(Contents(d)) = NumEntries(d) /\ Contents(d) # <<>>
  BY <1>7, ContentsAre
<1>11. s \in Seq(Elements) /\ Len(s) = NumEntries(d) - 1
  BY <1>7, <1>10
<1>12. \A i \in 0 .. NumEntries(d) - 2 : Entry(e, i) = s[i + 1]
  <2> TAKE i \in 0 .. NumEntries(d) - 2
  <2> DEFINE k == IF h + i < m THEN h + i ELSE h + i - m
  <2>1. i \in 0 .. m - 1
    BY <1>1, <1>7
  <2>2. Entry(e, i) = b[k]
    <3> HIDE DEF e
    <3> QED BY <1>1, <1>2, <1>6, <2>1, Placed, ZenonT(60)
  <2>3. k \in 0 .. m - 1 /\ k # g
    BY <1>1, <1>2, <1>7, <2>1
  <2>4. b[k] = d.buffer[k]
    BY <1>1, <2>3 DEF Buffer
  <2>5. Entry(d, i) = d.buffer[k]
    BY <1>1, <2>1, Placed
  <2>6. i + 1 \in 1 .. NumEntries(d) - 1
    BY <1>7
  <2>7. Contents(d)[i + 1] = Entry(d, (i + 1) - 1)
    BY <1>7, <2>6, ContentsAre
  <2>8. s[i + 1] = Contents(d)[i + 1]
    BY <1>7, <1>10, <2>6
  <2>9. (i + 1) - 1 = i
    BY <1>7
  <2> QED BY <2>2, <2>4, <2>5, <2>7, <2>8, <2>9
<1>13. d.buffer[g] = Contents(d)[NumEntries(d)] /\ d.buffer[g] \in Elements
  <2> DEFINE n == NumEntries(d) - 1
             k == IF h + n < m THEN h + n ELSE h + n - m
  <2>1. n \in 0 .. m - 1
    BY <1>1, <1>7
  <2>2. Entry(d, n) = d.buffer[k]
    <3> HIDE DEF n
    <3> QED BY <1>1, <2>1, Placed
  <2>3. k = g
    BY <1>1, <1>2, <1>7
  <2>4. Contents(d)[NumEntries(d)] = Entry(d, n)
    BY <1>7, ContentsAre
  <2>5. Contents(d)[NumEntries(d)] \in Elements
    BY <1>7, <1>10
  <2> QED BY <2>2, <2>3, <2>4, <2>5
<1> HIDE DEF e, s, b, g
<1>14. e = [buffer_size |-> m, head_index |-> h, tail_index |-> g, buffer |-> b]
  BY DEF e
<1>15. \A i \in 0 .. NumEntries(e) - 1 : Entry(e, i) = s[i + 1]
  BY <1>7, <1>9, <1>12
<1>16. WellFormed(e) /\ Contents(e) = s
  BY <1>1, <1>2, <1>4, <1>9, <1>11, <1>14, <1>15, Rebuilt
<1> QED BY <1>5, <1>10, <1>13, <1>16 DEF s, g

LEMMA ExpandedContents ==
    ASSUME NEW d, WellFormed(d)
    PROVE  /\ WellFormed(Expanded(d))
           /\ ~IsFull(Expanded(d))
           /\ Contents(Expanded(d)) = Contents(d)
<1> DEFINE m == d.buffer_size
           n == NumEntries(d)
           b == [i \in 0 .. m * 2 - 1 |-> IF i < n THEN Entry(d, i) ELSE Uninitialized]
           e == [buffer_size |-> m * 2, head_index |-> 0, tail_index |-> n, buffer |-> b]
           s == Contents(d)
<1>1. m \in Nat \ {0} /\ n \in 0 .. m - 1
  BY Counted DEF WellFormed
<1>2. m * 2 \in Nat \ {0} /\ 0 \in 0 .. m * 2 - 1 /\ n \in 0 .. m * 2 - 1
  BY <1>1
<1>3. \A i \in 0 .. n - 1 : Entry(d, i) \in Elements
  BY DEF WellFormed
<1>4. b \in Buffer(m * 2)
  <2> HIDE DEF n, m
  <2> QED BY <1>1, <1>3 DEF Buffer
<1>5. Expanded(d) = e
  BY DEF Expanded
<1>6. e.buffer_size = m * 2 /\ e.head_index = 0 /\ e.tail_index = n /\ e.buffer = b
  OBVIOUS
<1>7. s \in Seq(Elements) /\ Len(s) = n
  BY ContentsAre
<1>8. NumEntries(e) = n
  <2>1. NumEntries(e) = n - 0
    <3> HIDE DEF e, n, m
    <3> QED BY <1>1, <1>2, <1>6, Counted
  <2> QED BY <1>1, <2>1
<1>9. \A i \in 0 .. n - 1 : Entry(e, i) = s[i + 1]
  <2> TAKE i \in 0 .. n - 1
  <2>1. i \in 0 .. m * 2 - 1
    BY <1>1
  <2>2. Entry(e, i) = b[i]
    <3>1. Entry(e, i) = b[IF 0 + i < m * 2 THEN 0 + i ELSE 0 + i - m * 2]
      <4> HIDE DEF e, b, n, m
      <4> QED BY <1>2, <1>6, <2>1, Placed
    <3>2. 0 + i = i /\ i < m * 2
      BY <1>2, <2>1
    <3> HIDE DEF e, b, n, m
    <3> QED BY <3>1, <3>2
  <2>3. b[i] = Entry(d, i)
    BY <1>1, <2>1
  <2>4. s[i + 1] = Entry(d, (i + 1) - 1)
    BY <1>1, ContentsAre
  <2>5. (i + 1) - 1 = i
    BY <1>1
  <2> QED BY <2>2, <2>3, <2>4, <2>5
<1>10. ~IsFull(e)
  <2>1. NextIndex(n, m * 2) = IF n = m * 2 - 1 THEN 0 ELSE n + 1
    <3> HIDE DEF n, m
    <3> QED BY <1>2, Neighbours
  <2>2. NextIndex(n, m * 2) # 0
    BY <1>1, <2>1
  <2> HIDE DEF e
  <2> QED BY <1>6, <2>2 DEF IsFull
<1> HIDE DEF e, s, b, n, m
<1>11. e = [buffer_size |-> m * 2, head_index |-> 0, tail_index |-> n, buffer |-> b]
  BY DEF e
<1>12. WellFormed(e) /\ Contents(e) = s
  BY <1>2, <1>4, <1>7, <1>8, <1>9, <1>11, Rebuilt
<1> QED BY <1>5, <1>10, <1>12 DEF s

\* A deque with room, expanded or not, has the same contents.
LEMMA RoomyContents ==
    ASSUME NEW d, WellFormed(d)
    PROVE  /\ WellFormed(Roomy(d))
           /\ ~IsFull(Roomy(d))
           /\ Contents(Roomy(d)) = Contents(d)
  BY ExpandedContents DEF Roomy

LEMMA NewDequeContents ==
    WellFormed(NewDeque) /\ Contents(NewDeque) = <<>>
<1> DEFINE b == [i \in 0 .. InitialSize - 1 |-> Uninitialized]
           e == [buffer_size |-> InitialSize, head_index |-> 0, tail_index |-> 0, buffer |-> b]
<1>1. InitialSize \in Nat \ {0} /\ 0 \in 0 .. InitialSize - 1
  BY DequeAssumption
<1>2. b \in Buffer(InitialSize)
  BY <1>1 DEF Buffer
<1>3. NewDeque = e
  BY DEF NewDeque
<1>4. e.buffer_size = InitialSize /\ e.head_index = 0 /\ e.tail_index = 0 /\ e.buffer = b
  OBVIOUS
<1>5. NumEntries(e) = 0
  <2>1. NumEntries(e) = 0 - 0
    <3> HIDE DEF e
    <3> QED BY <1>1, <1>4, Counted
  <2> QED BY <2>1
<1> HIDE DEF b
<1>6. <<>> \in Seq(Elements) /\ Len(<<>>) = 0
  OBVIOUS
<1>7. WellFormed(e) /\ Contents(e) = <<>>
  <2>1. \A i \in 0 .. NumEntries(e) - 1 : Entry(e, i) = <<>>[i + 1]
    BY <1>5
  <2>2. e = [buffer_size |-> InitialSize, head_index |-> 0, tail_index |-> 0, buffer |-> b]
    OBVIOUS
  <2> DEFINE s == <<>>
  <2>3. s \in Seq(Elements) /\ Len(s) = NumEntries(e)
    BY <1>5, <1>6
  <2>4. \A i \in 0 .. NumEntries(e) - 1 : Entry(e, i) = s[i + 1]
    BY <2>1
  <2> HIDE DEF e, s
  <2>5. WellFormed(e) /\ Contents(e) = s
    BY <1>1, <1>2, <2>2, <2>3, <2>4, Rebuilt
  <2> QED BY <2>5 DEF s
<1> QED BY <1>3, <1>7

\* A deque is empty exactly if its contents are.
LEMMA EmptyContents ==
    ASSUME NEW d, WellFormed(d)
    PROVE  IsEmpty(d) <=> Contents(d) = <<>>
<1>1. IsEmpty(d) <=> NumEntries(d) = 0
  BY Counted DEF WellFormed, IsEmpty
<1> QED BY <1>1, ContentsAre

LEMMA WellFormedAlive ==
    ASSUME NEW d, WellFormed(d)
    PROVE  d # NoDeque
<1>1. NoDeque.buffer_size = 0
  BY DEF NoDeque
<1> QED BY <1>1 DEF WellFormed

-----------------------------------------------------------------------------
(* Steps *)

\* A step keeps the invariant and is a step of the abstract deque.
DequeRefines == DequeInv' /\ [Q!Next]_(Q!vars)

LEMMA AnswerTyped ==
    ASSUME NEW status \in {-1, 0}, NEW element \in Elements \cup {Nothing}, Returns(status, element)
    PROVE  deque_answer' \in DequeAnswers
  BY DEF Returns, DequeAnswers

LEMMA CreateRefines ==
    ASSUME DequeInv, NEW allocated \in BOOLEAN, CreateDeque(allocated)
    PROVE  DequeRefines
<1>1. CASE allocated
  <2>1. deque' = NewDeque /\ Returns(0, Nothing) /\ ~Alive
    BY <1>1 DEF CreateDeque
  <2>2. WellFormed(deque') /\ Contents(deque') = <<>> /\ deque' # NoDeque
    BY <2>1, NewDequeContents, WellFormedAlive
  <2>3. Q!Create
    BY <2>1, <2>2 DEF Q!Create, Q!Done, Q!Failed, Q!Answer, Returns, Alive
  <2>4. DequeInv'
    BY <2>1, <2>2, AnswerTyped DEF DequeInv
  <2> QED BY <2>3, <2>4 DEF DequeRefines, Q!Next
<1>2. CASE ~allocated
  <2>1. deque' = deque /\ Returns(-1, Nothing) /\ ~Alive
    BY <1>2 DEF CreateDeque
  <2>2. Q!Create
    BY <2>1 DEF Q!Create, Q!Done, Q!Failed, Q!Answer, Returns, Alive
  <2>3. DequeInv'
    BY <2>1, AnswerTyped DEF DequeInv, Alive
  <2> QED BY <2>2, <2>3 DEF DequeRefines, Q!Next
<1> QED BY <1>1, <1>2

LEMMA DestroyRefines ==
    ASSUME DequeInv, DestroyDeque
    PROVE  DequeRefines
<1>1. Alive /\ WellFormed(deque) /\ deque' = NoDeque
  BY DEF DestroyDeque, DequeInv
<1>2. Returns(IF Contents(deque) = <<>> THEN 0 ELSE -1, Nothing)
  BY <1>1, EmptyContents DEF DestroyDeque
<1>3. Q!Destroy
  BY <1>1, <1>2 DEF Q!Destroy, Q!Done, Q!Failed, Q!Answer, Returns, Alive
<1>4. DequeInv'
  BY <1>1, <1>2, AnswerTyped DEF DequeInv, Alive
<1> QED BY <1>3, <1>4 DEF DequeRefines, Q!Next

LEMMA EnqueueForwardRefines ==
    ASSUME DequeInv, NEW j \in Elements, NEW allocated \in BOOLEAN, EnqueueForward(j, allocated)
    PROVE  DequeRefines
<1>1. Alive /\ WellFormed(deque)
  BY DEF EnqueueForward, DequeInv
<1>2. CASE HasRoom(deque, allocated)
  <2>1. deque' = PutForward(Roomy(deque), j) /\ Returns(0, Nothing)
    BY <1>2 DEF EnqueueForward
  <2>2. WellFormed(deque') /\ Contents(deque') = <<j>> \o Contents(deque) /\ deque' # NoDeque
    BY <1>1, <2>1, RoomyContents, PutForwardContents, WellFormedAlive
  <2>3. Q!EnqueueAtFront(j)
    BY <1>1, <2>1, <2>2 DEF Q!EnqueueAtFront, Q!EnqueueForward, Q!Done, Q!Answer, Returns, Alive
  <2>4. DequeInv'
    BY <2>1, <2>2, AnswerTyped DEF DequeInv
  <2> QED BY <2>3, <2>4 DEF DequeRefines, Q!Next
<1>3. CASE ~HasRoom(deque, allocated)
  <2>1. deque' = deque /\ Returns(-1, Nothing)
    BY <1>3 DEF EnqueueForward
  <2>2. Q!EnqueueAtFront(j)
    BY <1>1, <2>1 DEF Q!EnqueueAtFront, Q!Failed, Q!Answer, Returns, Alive
  <2>3. DequeInv'
    BY <1>1, <2>1, AnswerTyped DEF DequeInv
  <2> QED BY <2>2, <2>3 DEF DequeRefines, Q!Next
<1> QED BY <1>2, <1>3

LEMMA EnqueueBackRefines ==
    ASSUME DequeInv, NEW j \in Elements, NEW allocated \in BOOLEAN, EnqueueBack(j, allocated)
    PROVE  DequeRefines
<1>1. Alive /\ WellFormed(deque)
  BY DEF EnqueueBack, DequeInv
<1>2. CASE HasRoom(deque, allocated)
  <2>1. deque' = PutBack(Roomy(deque), j) /\ Returns(0, Nothing)
    BY <1>2 DEF EnqueueBack
  <2>2. WellFormed(deque') /\ Contents(deque') = Append(Contents(deque), j) /\ deque' # NoDeque
    BY <1>1, <2>1, RoomyContents, PutBackContents, WellFormedAlive
  <2>3. Q!EnqueueAtBack(j)
    BY <1>1, <2>1, <2>2 DEF Q!EnqueueAtBack, Q!EnqueueBack, Q!Done, Q!Answer, Returns, Alive
  <2>4. DequeInv'
    BY <2>1, <2>2, AnswerTyped DEF DequeInv
  <2> QED BY <2>3, <2>4 DEF DequeRefines, Q!Next
<1>3. CASE ~HasRoom(deque, allocated)
  <2>1. deque' = deque /\ Returns(-1, Nothing)
    BY <1>3 DEF EnqueueBack
  <2>2. Q!EnqueueAtBack(j)
    BY <1>1, <2>1 DEF Q!EnqueueAtBack, Q!Failed, Q!Answer, Returns, Alive
  <2>3. DequeInv'
    BY <1>1, <2>1, AnswerTyped DEF DequeInv
  <2> QED BY <2>2, <2>3 DEF DequeRefines, Q!Next
<1> QED BY <1>2, <1>3

LEMMA DequeueForwardRefines ==
    ASSUME DequeInv, DequeueForward
    PROVE  DequeRefines
<1>1. Alive /\ WellFormed(deque)
  BY DEF DequeueForward, DequeInv
<1>2. CASE IsEmpty(deque)
  <2>1. deque' = deque /\ Returns(-1, Nothing) /\ Contents(deque) = <<>>
    BY <1>1, <1>2, EmptyContents DEF DequeueForward
  <2>2. Q!DequeueAtFront
    BY <1>1, <2>1 DEF Q!DequeueAtFront, Q!Failed, Q!Answer, Returns, Alive
  <2>3. DequeInv'
    BY <1>1, <2>1, AnswerTyped DEF DequeInv
  <2> QED BY <2>2, <2>3 DEF DequeRefines, Q!Next
<1>3. CASE ~IsEmpty(deque)
  <2>1. /\ deque' = TakeForward(deque)
        /\ Returns(0, deque.buffer[deque.head_index])
    BY <1>3 DEF DequeueForward
  <2>2. /\ WellFormed(deque')
        /\ Contents(deque) # <<>>
        /\ Contents(deque') = Tail(Contents(deque))
        /\ deque.buffer[deque.head_index] = Head(Contents(deque))
        /\ deque.buffer[deque.head_index] \in Elements
    BY <1>1, <1>3, <2>1, TakeForwardContents
  <2>3. deque' # NoDeque
    BY <2>2, WellFormedAlive
  <2>4. Q!DequeueAtFront
    BY <1>1, <2>1, <2>2, <2>3
       DEF Q!DequeueAtFront, Q!WithoutFront, Q!Front, Q!Answer, Returns, Alive
  <2>5. DequeInv'
    BY <2>1, <2>2, AnswerTyped DEF DequeInv
  <2> QED BY <2>4, <2>5 DEF DequeRefines, Q!Next
<1> QED BY <1>2, <1>3

LEMMA DequeueBackRefines ==
    ASSUME DequeInv, DequeueBack
    PROVE  DequeRefines
<1>1. Alive /\ WellFormed(deque)
  BY DEF DequeueBack, DequeInv
<1>2. CASE IsEmpty(deque)
  <2>1. deque' = deque /\ Returns(-1, Nothing) /\ Contents(deque) = <<>>
    BY <1>1, <1>2, EmptyContents DEF DequeueBack
  <2>2. Q!DequeueAtBack
    BY <1>1, <2>1 DEF Q!DequeueAtBack, Q!Failed, Q!Answer, Returns, Alive
  <2>3. DequeInv'
    BY <1>1, <2>1, AnswerTyped DEF DequeInv
  <2> QED BY <2>2, <2>3 DEF DequeRefines, Q!Next
<1>3. CASE ~IsEmpty(deque)
  <2> DEFINE taken == deque.buffer[PrevIndex(deque.tail_index, deque.buffer_size)]
  <2>1. deque' = TakeBack(deque) /\ Returns(0, taken)
    BY <1>3 DEF DequeueBack
  <2>2. /\ WellFormed(deque')
        /\ Contents(deque) # <<>>
        /\ Contents(deque') = SubSeq(Contents(deque), 1, Len(Contents(deque)) - 1)
        /\ taken = Contents(deque)[Len(Contents(deque))]
        /\ taken \in Elements
    BY <1>1, <1>3, <2>1, TakeBackContents
  <2> HIDE DEF taken
  <2>3. deque' # NoDeque
    BY <2>2, WellFormedAlive
  <2>4. Q!DequeueAtBack
    BY <1>1, <2>1, <2>2, <2>3
       DEF Q!DequeueAtBack, Q!WithoutBack, Q!Back, Q!Answer, Returns, Alive
  <2>5. DequeInv'
    BY <2>1, <2>2, AnswerTyped DEF DequeInv
  <2> QED BY <2>4, <2>5 DEF DequeRefines, Q!Next
<1> QED BY <1>2, <1>3

LEMMA DequeStepRefines ==
    ASSUME DequeInv, [DequeNext]_dequeVars
    PROVE  DequeRefines
<1>1. CASE DequeNext
  BY <1>1, CreateRefines, DestroyRefines, EnqueueForwardRefines, EnqueueBackRefines,
     DequeueForwardRefines, DequeueBackRefines DEF DequeNext
<1>2. CASE UNCHANGED dequeVars
  <2>1. deque' = deque /\ deque_answer' = deque_answer
    BY <1>2 DEF dequeVars
  <2>2. DequeInv'
    BY <2>1 DEF DequeInv, Alive
  <2>3. UNCHANGED Q!vars
    BY <2>1 DEF Q!vars, Alive
  <2> QED BY <2>2, <2>3 DEF DequeRefines
<1> QED BY <1>1, <1>2

LEMMA DequeInitRefines ==
    ASSUME DequeInit
    PROVE  DequeInv /\ Q!Init
  BY DEF DequeInit, DequeInv, DequeAnswers, Alive, Q!Init, Q!Done, Q!Answer

-----------------------------------------------------------------------------
(* Chains: every node is in the chain its key belongs to, and has that key *)
(* for itself.                                                             *)

NodeSet == [key : Keys, value : Values]
Chains(size) == [0 .. size - 1 -> Seq(NodeSet)]

Sorted(chain, size) ==
    /\ chain \in Chains(size)
    /\ \A i \in 0 .. size - 1 : \A p \in 1 .. Len(chain[i]) : chain[i][p].key % size = i
    /\ \A i \in 0 .. size - 1 : \A p, q \in 1 .. Len(chain[i]) :
          chain[i][p].key = chain[i][q].key => p = q

\* The nodes that chains of a table of this size have.
Stored(chain, size) == {n \in NodeSet : \E i \in 0 .. size - 1 : \E p \in 1 .. Len(chain[i]) :
                                            n = chain[i][p]}

LEMMA ChainIs ==
    ASSUME NEW size \in Nat \ {0}, NEW chain \in Chains(size), NEW i \in 0 .. size - 1
    PROVE  /\ chain[i] \in Seq(NodeSet) /\ Len(chain[i]) \in Nat
           /\ DOMAIN chain[i] = 1 .. Len(chain[i])
           /\ \A p \in 1 .. Len(chain[i]) : chain[i][p] \in NodeSet /\ chain[i][p].key \in Nat
<1>1. chain[i] \in Seq(NodeSet)
  BY DEF Chains
<1>2. \A n \in NodeSet : n.key \in Nat
  BY HashTableAssumption DEF NodeSet
<1> QED
  BY <1>1, <1>2, LenProperties, ElementOfSeq

LEMMA IndexIs ==
    ASSUME NEW size \in Nat \ {0}, NEW k \in Nat
    PROVE  k % size \in 0 .. size - 1
OBVIOUS

LEMMA StoredIs ==
    ASSUME NEW t, t.table_size \in Nat \ {0}, t.chain \in Chains(t.table_size)
    PROVE  Nodes(t) = Stored(t.chain, t.table_size)
<1> DEFINE size == t.table_size
           chain == t.chain
<1>1. DOMAIN chain = 0 .. size - 1
  BY DEF Chains
<1>2. \A i \in 0 .. size - 1 :
          /\ DOMAIN chain[i] = 1 .. Len(chain[i])
          /\ \A p \in 1 .. Len(chain[i]) : chain[i][p] \in NodeSet
  BY ChainIs
<1>3. \A n : n \in Nodes(t) <=> \E i \in 0 .. size - 1 : \E p \in 1 .. Len(chain[i]) : n = chain[i][p]
  <2> HIDE DEF size, chain
  <2>1. Nodes(t) = UNION {Range(chain[i]) : i \in DOMAIN chain}
    BY DEF Nodes, chain
  <2>2. \A i \in 0 .. size - 1 : Range(chain[i]) = {chain[i][p] : p \in 1 .. Len(chain[i])}
    BY <1>2 DEF Range
  <2> QED
    BY <1>1, <2>1, <2>2
<1> HIDE DEF size, chain
<1>4. \A n : n \in Stored(chain, size) <=>
             \E i \in 0 .. size - 1 : \E p \in 1 .. Len(chain[i]) : n = chain[i][p]
  BY <1>2 DEF Stored
<1> QED
  BY <1>3, <1>4 DEF size, chain

\* No two nodes have the same key.
LEMMA KeysApart ==
    ASSUME NEW size \in Nat \ {0}, NEW chain, Sorted(chain, size)
    PROVE  /\ \A m, n \in Stored(chain, size) : m.key = n.key => m = n
           /\ \A i, j \in 0 .. size - 1 : \A p \in 1 .. Len(chain[i]), q \in 1 .. Len(chain[j]) :
                 chain[i][p].key = chain[j][q].key => i = j /\ p = q
<1>1. \A i, j \in 0 .. size - 1 : \A p \in 1 .. Len(chain[i]), q \in 1 .. Len(chain[j]) :
          chain[i][p].key = chain[j][q].key => i = j /\ p = q
  BY DEF Sorted
<1> QED
  BY <1>1 DEF Stored

LEMMA EmptyChains ==
    ASSUME NEW size \in Nat \ {0}
    PROVE  LET chain == [i \in 0 .. size - 1 |-> <<>>] IN
           Sorted(chain, size) /\ Stored(chain, size) = {}
<1> DEFINE chain == [i \in 0 .. size - 1 |-> <<>>]
<1>1. chain \in Chains(size)
  <2>1. <<>> \in Seq(NodeSet)
    OBVIOUS
  <2> QED
    BY <2>1 DEF Chains
<1>2. \A i \in 0 .. size - 1 : Len(chain[i]) = 0
  OBVIOUS
<1>3. \A i \in 0 .. size - 1 : \A p \in 1 .. Len(chain[i]) : FALSE
  BY <1>2
<1> HIDE DEF chain
<1>4. Sorted(chain, size) /\ Stored(chain, size) = {}
  BY <1>1, <1>3 DEF Sorted, Stored
<1> QED
  BY <1>4 DEF chain

\* A node with a new key is put in front of its chain.
LEMMA Pushed ==
    ASSUME NEW size \in Nat \ {0}, NEW chain, Sorted(chain, size), NEW n \in NodeSet,
           \A m \in Stored(chain, size) : m.key # n.key
    PROVE  LET chain2 == [chain EXCEPT ![n.key % size] = <<n>> \o @] IN
           Sorted(chain2, size) /\ Stored(chain2, size) = Stored(chain, size) \cup {n}
<1> DEFINE i == n.key % size
           s == chain[i]
           s2 == <<n>> \o s
           chain2 == [chain EXCEPT ![i] = s2]
<1>1. n.key \in Nat /\ i \in 0 .. size - 1 /\ chain \in Chains(size)
  <2>1. n.key \in Nat
    BY HashTableAssumption DEF NodeSet
  <2> QED
    BY <2>1, IndexIs DEF Sorted
<1> HIDE DEF i
<1>2. s \in Seq(NodeSet) /\ Len(s) \in Nat
  BY <1>1, ChainIs
<1>3. /\ s2 \in Seq(NodeSet) /\ Len(s2) = Len(s) + 1 /\ s2[1] = n
      /\ \A p \in 1 .. Len(s) : s2[p + 1] = s[p]
      /\ \A p \in 2 .. Len(s) + 1 : s2[p] = s[p - 1]
  <2> HIDE DEF s
  <2>1. <<n>> \in Seq(NodeSet) /\ Len(<<n>>) = 1 /\ <<n>>[1] = n
    OBVIOUS
  <2>2. s2 \in Seq(NodeSet) /\ Len(s2) = 1 + Len(s)
    BY <1>2, <2>1, ConcatProperties
  <2>3. \A p \in 1 .. Len(s2) : s2[p] = IF p <= 1 THEN <<n>>[p] ELSE s[p - 1]
    BY <1>2, <2>1, ConcatProperties
  <2>4. s2[1] = n
    BY <1>2, <2>1, <2>2, <2>3
  <2>5. \A p \in 2 .. Len(s) + 1 : s2[p] = s[p - 1]
    BY <1>2, <2>2, <2>3
  <2>6. \A p \in 1 .. Len(s) : s2[p + 1] = s[p]
    BY <1>2, <2>2, <2>3
  <2> QED
    BY <1>2, <2>2, <2>4, <2>5, <2>6
<1> HIDE DEF s2
<1>4. /\ chain2 \in Chains(size) /\ chain2[i] = s2
      /\ \A j \in 0 .. size - 1 : j # i => chain2[j] = chain[j]
  BY <1>1, <1>3 DEF Chains
<1> HIDE DEF chain2
<1>5. \A p \in 1 .. Len(s) : s[p].key # n.key /\ s[p] \in NodeSet
  <2>1. \A p \in 1 .. Len(s) : s[p] \in Stored(chain, size)
    BY <1>1, ChainIs DEF Stored
  <2> QED
    BY <2>1 DEF Stored
<1>6. \A p \in 1 .. Len(s2) : \/ p = 1
                              \/ p - 1 \in 1 .. Len(s) /\ s2[p] = s[p - 1]
  BY <1>2, <1>3
<1>7. \A j \in 0 .. size - 1 : \A p \in 1 .. Len(chain2[j]) : chain2[j][p].key % size = j
  <2> TAKE j \in 0 .. size - 1
  <2>1. CASE j # i
    BY <1>4, <2>1 DEF Sorted
  <2>2. CASE j = i
    <3>1. \A p \in 1 .. Len(s) : s[p].key % size = i
      BY <1>1 DEF Sorted
    <3>2. n.key % size = i
      BY DEF i
    <3>3. \A p \in 1 .. Len(s2) : s2[p].key % size = i
      <4> TAKE p \in 1 .. Len(s2)
      <4>1. CASE p = 1
        BY <1>3, <3>2, <4>1
      <4>2. CASE p - 1 \in 1 .. Len(s) /\ s2[p] = s[p - 1]
        BY <3>1, <4>2
      <4> QED
        BY <1>6, <4>1, <4>2
    <3> QED
      BY <1>4, <2>2, <3>3
  <2> QED
    BY <2>1, <2>2
<1>8. \A j \in 0 .. size - 1 : \A p, q \in 1 .. Len(chain2[j]) :
          chain2[j][p].key = chain2[j][q].key => p = q
  <2> TAKE j \in 0 .. size - 1
  <2>1. CASE j # i
    BY <1>4, <2>1 DEF Sorted
  <2>2. CASE j = i
    <3>1. \A p, q \in 1 .. Len(s) : s[p].key = s[q].key => p = q
      BY <1>1 DEF Sorted
    <3>2. ASSUME NEW p \in 1 .. Len(s2), NEW q \in 1 .. Len(s2), s2[p].key = s2[q].key
          PROVE  p = q
      <4>1. CASE p = 1 /\ q = 1
        BY <4>1
      <4>2. CASE p = 1 /\ q # 1
        BY <1>3, <1>5, <1>6, <3>2, <4>2
      <4>3. CASE p # 1 /\ q = 1
        BY <1>3, <1>5, <1>6, <3>2, <4>3
      <4>4. CASE p # 1 /\ q # 1
        <5>1. p - 1 \in 1 .. Len(s) /\ q - 1 \in 1 .. Len(s)
          BY <1>6, <4>4
        <5>2. s2[p] = s[p - 1] /\ s2[q] = s[q - 1]
          BY <1>6, <4>4
        <5>3. s[p - 1].key = s[q - 1].key
          BY <3>2, <5>2
        <5>4. p - 1 = q - 1
          BY ONLY <3>1, <5>1, <5>3
        <5>5. p \in Int /\ q \in Int
          BY <1>2, <1>3
        <5> QED
          BY ONLY <5>4, <5>5
      <4> QED
        BY <4>1, <4>2, <4>3, <4>4
    <3> QED
      BY <1>4, <2>2, <3>2
  <2> QED
    BY <2>1, <2>2
<1>9. Stored(chain2, size) \subseteq Stored(chain, size) \cup {n}
  <2> SUFFICES ASSUME NEW m \in NodeSet, NEW j \in 0 .. size - 1, NEW p \in 1 .. Len(chain2[j]),
                      m = chain2[j][p], m # n
               PROVE  m \in Stored(chain, size)
    BY DEF Stored
  <2>1. CASE j # i
    BY <1>4, <2>1 DEF Stored
  <2>2. CASE j = i
    <3>1. p - 1 \in 1 .. Len(s) /\ m = s[p - 1]
      BY <1>3, <1>4, <1>6, <2>2
    <3> QED
      BY <1>1, <3>1 DEF Stored
  <2> QED
    BY <2>1, <2>2
<1>10. Stored(chain, size) \cup {n} \subseteq Stored(chain2, size)
  <2>1. n \in Stored(chain2, size)
    <3>1. 1 \in 1 .. Len(s2) /\ n = s2[1]
      BY <1>2, <1>3
    <3> QED
      BY <1>1, <1>4, <3>1 DEF Stored
  <2>2. ASSUME NEW m \in NodeSet, NEW j \in 0 .. size - 1, NEW p \in 1 .. Len(chain[j]),
               m = chain[j][p]
        PROVE  m \in Stored(chain2, size)
    <3>1. CASE j # i
      BY <1>4, <2>2, <3>1 DEF Stored
    <3>2. CASE j = i
      <4>1. p + 1 \in 1 .. Len(s2) /\ m = s2[p + 1]
        BY <1>2, <1>3, <2>2, <3>2
      <4> QED
        BY <1>1, <1>4, <4>1 DEF Stored
    <3> QED
      BY <3>1, <3>2
  <2> QED
    BY <2>1, <2>2 DEF Stored
<1>11. Sorted(chain2, size)
  BY <1>4, <1>7, <1>8 DEF Sorted
<1> QED
  BY <1>9, <1>10, <1>11 DEF chain2, s2, s, i

-----------------------------------------------------------------------------
(* A chain that changes *)

\* A chain that may hang at an index.
Fits(s, i, size) ==
    /\ s \in Seq(NodeSet)
    /\ \A p \in 1 .. Len(s) : s[p].key % size = i
    /\ \A p, q \in 1 .. Len(s) : s[p].key = s[q].key => p = q

\* The nodes of the other chains stay, and those of the new chain are added.
Exchanged(chain2, chain, size, i, s) ==
    \A n : n \in Stored(chain2, size) <=>
              \/ n \in Stored(chain, size) /\ n.key % size # i
              \/ \E p \in 1 .. Len(s) : n = s[p]

LEMMA Replaced ==
    ASSUME NEW size \in Nat \ {0}, NEW chain, Sorted(chain, size),
           NEW i \in 0 .. size - 1, NEW s, Fits(s, i, size),
           NEW chain2, chain2 = [chain EXCEPT ![i] = s]
    PROVE  Sorted(chain2, size) /\ Exchanged(chain2, chain, size, i, s)
<1> USE DEF Fits
<1>1. chain \in Chains(size)
  BY DEF Sorted
<1>2. /\ chain2 \in Chains(size) /\ chain2[i] = s
      /\ \A j \in 0 .. size - 1 : j # i => chain2[j] = chain[j]
  BY <1>1 DEF Chains
<1>3. Sorted(chain2, size)
  <2>1. \A j \in 0 .. size - 1 : \A p \in 1 .. Len(chain2[j]) : chain2[j][p].key % size = j
    <3> TAKE j \in 0 .. size - 1
    <3> QED
      BY <1>2 DEF Sorted
  <2>2. \A j \in 0 .. size - 1 : \A p, q \in 1 .. Len(chain2[j]) :
            chain2[j][p].key = chain2[j][q].key => p = q
    <3> TAKE j \in 0 .. size - 1
    <3> QED
      BY <1>2 DEF Sorted
  <2> QED
    BY <1>2, <2>1, <2>2 DEF Sorted
<1>4. \A n : n \in Stored(chain, size) /\ n.key % size # i => n \in Stored(chain2, size)
  BY <1>2 DEF Sorted, Stored
<1>5. \A p \in 1 .. Len(s) : s[p] \in Stored(chain2, size)
  <2> TAKE p \in 1 .. Len(s)
  <2>1. s[p] \in NodeSet
    BY ElementOfSeq
  <2> QED
    BY <1>2, <2>1 DEF Stored
<1>6. ASSUME NEW n \in Stored(chain2, size)
      PROVE  \/ n \in Stored(chain, size) /\ n.key % size # i
             \/ \E p \in 1 .. Len(s) : n = s[p]
  <2>1. PICK j \in 0 .. size - 1 : \E p \in 1 .. Len(chain2[j]) : n = chain2[j][p]
    BY DEF Stored
  <2>2. CASE j = i
    BY <1>2, <2>1, <2>2
  <2>3. CASE j # i
    <3>1. PICK p \in 1 .. Len(chain[j]) : n = chain[j][p]
      BY <1>2, <2>1, <2>3
    <3>2. n.key % size = j
      BY <3>1 DEF Sorted
    <3> QED
      BY <2>3, <3>1, <3>2 DEF Stored
  <2> QED
    BY <2>2, <2>3
<1> QED
  BY <1>3, <1>4, <1>5, <1>6 DEF Exchanged

\* What RemoveAt does to a sequence.
LEMMA RemovedIs ==
    ASSUME NEW S, NEW s \in Seq(S), NEW p \in 1 .. Len(s)
    PROVE  LET r == RemoveAt(s, p) IN
           /\ r \in Seq(S) /\ Len(r) = Len(s) - 1
           /\ \A q \in 1 .. Len(s) - 1 : r[q] = IF q < p THEN s[q] ELSE s[q + 1]
<1> DEFINE a == SubSeq(s, 1, p - 1)
           b == SubSeq(s, p + 1, Len(s))
           r == RemoveAt(s, p)
<1>1. Len(s) \in Nat /\ p \in Nat
  BY LenProperties
<1>2. a \in Seq(S) /\ Len(a) = p - 1 /\ \A q \in 1 .. p - 1 : a[q] = s[q]
  <2>1. /\ SubSeq(s, 1, p - 1) \in Seq(S)
        /\ Len(SubSeq(s, 1, p - 1)) = IF 1 <= p - 1 THEN p - 1 - 1 + 1 ELSE 0
        /\ \A q \in 1 .. p - 1 - 1 + 1 : SubSeq(s, 1, p - 1)[q] = s[1 + q - 1]
    BY <1>1, SubSeqProperties
  <2>2. Len(a) = p - 1
    BY <1>1, <2>1
  <2>3. \A q \in 1 .. p - 1 : a[q] = s[q]
    <3> TAKE q \in 1 .. p - 1
    <3>1. q \in 1 .. p - 1 - 1 + 1 /\ 1 + q - 1 = q
      BY <1>1
    <3> QED
      BY <2>1, <3>1
  <2> QED
    BY <2>1, <2>2, <2>3
<1>3. b \in Seq(S) /\ Len(b) = Len(s) - p /\ \A q \in 1 .. Len(s) - p : b[q] = s[p + q]
  <2>1. /\ SubSeq(s, p + 1, Len(s)) \in Seq(S)
        /\ Len(SubSeq(s, p + 1, Len(s))) = IF p + 1 <= Len(s) THEN Len(s) - (p + 1) + 1 ELSE 0
        /\ \A q \in 1 .. Len(s) - (p + 1) + 1 : SubSeq(s, p + 1, Len(s))[q] = s[p + 1 + q - 1]
    BY <1>1, SubSeqProperties
  <2>2. Len(b) = Len(s) - p
    BY <1>1, <2>1
  <2>3. \A q \in 1 .. Len(s) - p : b[q] = s[p + q]
    <3> TAKE q \in 1 .. Len(s) - p
    <3>1. q \in 1 .. Len(s) - (p + 1) + 1 /\ p + 1 + q - 1 = p + q
      BY <1>1
    <3> QED
      BY <2>1, <3>1
  <2> QED
    BY <2>1, <2>2, <2>3
<1>4. r = a \o b
  BY DEF RemoveAt
<1> HIDE DEF a, b, r
<1>5. r \in Seq(S) /\ Len(r) = Len(a) + Len(b)
  BY <1>2, <1>3, <1>4, ConcatProperties
<1>6. \A q \in 1 .. Len(a) + Len(b) : r[q] = IF q <= Len(a) THEN a[q] ELSE b[q - Len(a)]
  BY <1>2, <1>3, <1>4, ConcatProperties
<1>7. Len(r) = Len(s) - 1
  BY <1>1, <1>2, <1>3, <1>5
<1>8. \A q \in 1 .. Len(s) - 1 : r[q] = IF q < p THEN s[q] ELSE s[q + 1]
  <2> TAKE q \in 1 .. Len(s) - 1
  <2>1. q \in 1 .. Len(a) + Len(b) /\ q \in Nat
    BY <1>1, <1>2, <1>3
  <2>2. CASE q < p
    BY <1>1, <1>2, <1>6, <2>1, <2>2
  <2>3. CASE ~(q < p)
    <3>1. q - (p - 1) \in 1 .. Len(s) - p /\ p + (q - (p - 1)) = q + 1
      BY <1>1, <2>1, <2>3
    <3>2. r[q] = b[q - (p - 1)]
      BY <1>1, <1>2, <1>6, <2>1, <2>3
    <3>3. b[q - (p - 1)] = s[q + 1]
      BY <1>3, <3>1
    <3> QED
      BY <2>3, <3>2, <3>3
  <2> QED
    BY <2>2, <2>3
<1> QED
  BY <1>5, <1>7, <1>8 DEF r

-----------------------------------------------------------------------------
(* A table in use *)

\* Its nodes.
NodesOf(t) == Stored(t.chain, t.table_size)

IsTable(t) ==
    t = [table_size |-> t.table_size, num_entries |-> t.num_entries, chain |-> t.chain]

\* Every node is where its key belongs, and the count is right.
Sound(t) ==
    /\ IsTable(t)
    /\ t.table_size \in Nat \ {0}
    /\ Sorted(t.chain, t.table_size)
    /\ IsFiniteSet(NodesOf(t))
    /\ t.num_entries = Cardinality(NodesOf(t))

LEMMA SoundNew == Sound(NewTable) /\ NodesOf(NewTable) = {} /\ NewTable.table_size > 0
<1>1. NewTable.table_size \in Nat \ {0}
  BY HashTableAssumption DEF NewTable
<1>2. Sorted(NewTable.chain, NewTable.table_size) /\ NodesOf(NewTable) = {}
  BY HashTableAssumption, EmptyChains DEF NewTable, NodesOf
<1>3. IsTable(NewTable) /\ NewTable.num_entries = 0
  BY DEF NewTable, IsTable
<1> QED
  BY <1>1, <1>2, <1>3, FS_EmptySet DEF Sound

\* The least number of a set of natural numbers is one of them.
LEMMA MinIs ==
    ASSUME NEW S \in SUBSET Nat, S # {}
    PROVE  Min(S) \in S
<1>1. \E x \in S : \A y \in S : x <= y
  BY LeastNatural
<1> QED
  BY <1>1 DEF Min

\* A key is found exactly when a node has it, and at the node that has it.
LEMMA Found ==
    ASSUME NEW t, Sound(t), NEW k \in Keys
    PROVE  /\ ChainOf(t, k) = t.chain[k % t.table_size]
           /\ k % t.table_size \in 0 .. t.table_size - 1
           /\ Has(t, k) <=> \E n \in NodesOf(t) : n.key = k
           /\ Has(t, k) => /\ Position(t, k) \in 1 .. Len(ChainOf(t, k))
                           /\ ChainOf(t, k)[Position(t, k)].key = k
                           /\ ChainOf(t, k)[Position(t, k)] \in NodesOf(t)
<1> DEFINE i == k % t.table_size
           s == t.chain[i]
           I == {p \in 1 .. Len(s) : s[p].key = k}
<1>1. k \in Nat /\ t.table_size \in Nat \ {0} /\ Sorted(t.chain, t.table_size)
  BY HashTableAssumption DEF Sound
<1>2. ChainOf(t, k) = s /\ i \in 0 .. t.table_size - 1
  BY <1>1, IndexIs DEF ChainOf, TableIndex
<1>3. Position(t, k) = IF I # {} THEN Min(I) ELSE 0
  BY <1>2 DEF Position, SelectInSeq
<1>4. s \in Seq(NodeSet) /\ Len(s) \in Nat /\ \A p \in 1 .. Len(s) : s[p] \in NodeSet
  <2>1. t.chain \in Chains(t.table_size)
    BY <1>1 DEF Sorted
  <2> HIDE DEF s, i
  <2> QED
    BY <1>1, <1>2, <2>1, ChainIs DEF s
<1> HIDE DEF i
<1>5. \A p \in 1 .. Len(s) : s[p] \in NodesOf(t)
  BY <1>2, <1>4 DEF NodesOf, Stored
<1>6. I # {} => Position(t, k) \in I /\ Has(t, k)
  <2> SUFFICES ASSUME I # {} PROVE Position(t, k) \in I /\ Has(t, k)
    OBVIOUS
  <2>1. I \in SUBSET Nat
    BY <1>4
  <2>2. Min(I) \in I
    <3> HIDE DEF I
    <3> QED
      BY <2>1, MinIs
  <2> QED
    BY <1>3, <1>4, <2>2, SMTT(30) DEF Has
<1>7. I = {} => ~Has(t, k)
  BY <1>3 DEF Has
<1>8. (\E n \in NodesOf(t) : n.key = k) => I # {}
  <2> SUFFICES ASSUME NEW n \in NodesOf(t), n.key = k PROVE I # {}
    OBVIOUS
  <2>1. PICK j \in 0 .. t.table_size - 1 : \E p \in 1 .. Len(t.chain[j]) : n = t.chain[j][p]
    BY DEF NodesOf, Stored
  <2>2. j = i
    BY <1>1, <2>1 DEF Sorted, i
  <2> QED
    BY <2>1, <2>2
<1>9. I # {} => \E n \in NodesOf(t) : n.key = k
  BY <1>5
<1>10. Has(t, k) => Position(t, k) \in I
  BY <1>6, <1>7
<1>11. Has(t, k) <=> \E n \in NodesOf(t) : n.key = k
  <2> HIDE DEF I
  <2> QED
    BY <1>6, <1>7, <1>8, <1>9
<1> QED
  BY <1>2, <1>5, <1>10, <1>11 DEF i

\* A node is put in front of its chain.
LEMMA SoundWithNode ==
    ASSUME NEW t, Sound(t), NEW k \in Keys, NEW v \in Values, ~Has(t, k)
    PROVE  LET t2 == WithNode(t, k, v) IN
           /\ Sound(t2) /\ t2.table_size = t.table_size
           /\ NodesOf(t2) = NodesOf(t) \cup {Node(k, v)}
<1> DEFINE size == t.table_size
           n == Node(k, v)
           chain2 == [t.chain EXCEPT ![n.key % size] = <<n>> \o @]
           t2 == WithNode(t, k, v)
<1>1. size \in Nat \ {0} /\ Sorted(t.chain, size) /\ t.chain \in Chains(size)
  BY DEF Sound, Sorted
<1>2. n \in NodeSet /\ n.key = k
  BY DEF Node, NodeSet
<1>3. \A m \in NodesOf(t) : m.key # n.key
  BY <1>2, Found
<1>4. Sorted(chain2, size) /\ Stored(chain2, size) = Stored(t.chain, size) \cup {n}
  <2> DEFINE chain == t.chain
  <2>1. Sorted(chain, size) /\ \A m \in Stored(chain, size) : m.key # n.key
    BY <1>1, <1>3 DEF NodesOf
  <2> HIDE DEF size, n, chain
  <2>2. LET c == [chain EXCEPT ![n.key % size] = <<n>> \o @] IN
        Sorted(c, size) /\ Stored(c, size) = Stored(chain, size) \cup {n}
    BY <1>1, <1>2, <2>1, Pushed
  <2> QED
    BY <2>2 DEF chain
<1>5. /\ t2 = [table_size |-> size, num_entries |-> t.num_entries + 1, chain |-> chain2]
  <2>1. t = [table_size |-> t.table_size, num_entries |-> t.num_entries, chain |-> t.chain]
    BY DEF Sound, IsTable
  <2>2. TableIndex(t, k) = n.key % size
    BY <1>2 DEF TableIndex
  <2> DEFINE i == n.key % size
             q == <<n>>
  <2>3. t2 = [t EXCEPT !.chain[i] = q \o @, !.num_entries = @ + 1]
    BY <2>2 DEF WithNode
  <2> HIDE DEF i, q, t2
  <2>4. t2 = [table_size |-> size, num_entries |-> t.num_entries + 1,
              chain |-> [t.chain EXCEPT ![i] = q \o @]]
    BY <2>1, <2>3
  <2> QED
    BY <2>4 DEF i, q
<1> HIDE DEF t2, chain2
<1>6. t2.chain = chain2 /\ t2.table_size = size /\ t2.num_entries = t.num_entries + 1
  BY <1>5
<1>7. NodesOf(t2) = NodesOf(t) \cup {n}
  BY <1>4, <1>6 DEF NodesOf
<1>8. n \notin NodesOf(t)
  BY <1>3
<1>9. IsFiniteSet(NodesOf(t2)) /\ Cardinality(NodesOf(t2)) = Cardinality(NodesOf(t)) + 1
  <2>1. IsFiniteSet(NodesOf(t))
    BY DEF Sound
  <2> QED
    BY <1>7, <1>8, <2>1, FS_AddElement
<1>10. IsTable(t2)
  BY <1>5, <1>6 DEF IsTable
<1>11. Sound(t2)
  BY <1>1, <1>4, <1>6, <1>9, <1>10 DEF Sound
<1> QED
  BY <1>6, <1>7, <1>11 DEF t2

\* The node that has a key, and what replaces it.
Held(t, k) == ChainOf(t, k)[Position(t, k)]

\* The value of a node changes.
LEMMA SoundWithValue ==
    ASSUME NEW t, Sound(t), NEW k \in Keys, NEW v \in Values, Has(t, k)
    PROVE  LET t2 == WithValue(t, k, v) IN
           /\ Sound(t2) /\ t2.table_size = t.table_size
           /\ NodesOf(t2) = (NodesOf(t) \ {Held(t, k)}) \cup {Node(k, v)}
<1> DEFINE size == t.table_size
           i == k % size
           s == t.chain[i]
           p == Position(t, k)
           old == s[p]
           n == Node(k, v)
           s2 == [s EXCEPT ![p] = n]
           chain2 == [t.chain EXCEPT ![i] = s2]
           t2 == WithValue(t, k, v)
<1>1. size \in Nat \ {0} /\ Sorted(t.chain, size) /\ t.chain \in Chains(size)
  BY DEF Sound, Sorted
<1>2. n \in NodeSet /\ n.key = k
  BY DEF Node, NodeSet
<1>3. /\ ChainOf(t, k) = s /\ i \in 0 .. size - 1 /\ p \in 1 .. Len(s)
      /\ old.key = k /\ old \in NodesOf(t) /\ Held(t, k) = old
  BY Found DEF Held
<1>4. TableIndex(t, k) = i
  BY DEF TableIndex
<1> HIDE DEF i, p, n
<1>5. s \in Seq(NodeSet) /\ Len(s) \in Nat /\ DOMAIN s = 1 .. Len(s)
  BY <1>1, <1>3, ChainIs
<1>6. /\ s2 \in Seq(NodeSet) /\ Len(s2) = Len(s) /\ s2[p] = n
      /\ \A q \in 1 .. Len(s) : q # p => s2[q] = s[q]
  <2> HIDE DEF s
  <2>1. s2 \in Seq(NodeSet) /\ Len(s2) = Len(s)
    BY <1>2, <1>3, <1>5, ExceptSeq
  <2>2. s2[p] = n /\ \A q \in 1 .. Len(s) : q # p => s2[q] = s[q]
    BY <1>3, <1>5
  <2> QED
    BY <2>1, <2>2
<1>7. n = [old EXCEPT !.value = v]
  <2>1. old \in NodeSet
    BY <1>3 DEF NodesOf, Stored
  <2> QED
    BY <1>3, <2>1 DEF n, Node, NodeSet
<1> HIDE DEF s2, old, s
<1>8. t2 = [table_size |-> size, num_entries |-> t.num_entries, chain |-> chain2]
  <2>1. t = [table_size |-> t.table_size, num_entries |-> t.num_entries, chain |-> t.chain]
    BY DEF Sound, IsTable
  <2>2. t2 = [t EXCEPT !.chain[i][p].value = v]
    BY <1>4 DEF WithValue, p
  <2> HIDE DEF t2
  <2>3. [t.chain[i] EXCEPT ![p].value = v] = s2
    BY <1>7 DEF s2, s, old
  <2>4. t2 = [t EXCEPT !.chain = [t.chain EXCEPT ![i] = [t.chain[i] EXCEPT ![p].value = v]]]
    BY <2>2
  <2>5. t2 = [t EXCEPT !.chain = chain2]
    BY <2>3, <2>4
  <2> HIDE DEF chain2
  <2> QED
    BY <2>1, <2>5
<1>9. /\ Sorted(chain2, size)
      /\ \A m : m \in Stored(chain2, size) <=>
            \/ m \in Stored(t.chain, size) /\ m.key % size # i
            \/ \E q \in 1 .. Len(s2) : m = s2[q]
  <2> DEFINE chain == t.chain
  <2>1. \A q \in 1 .. Len(s2) : s2[q].key % size = i
    BY <1>1, <1>2, <1>3, <1>6 DEF Sorted, s, i
  <2>2. \A q, r \in 1 .. Len(s2) : s2[q].key = s2[r].key => q = r
    <3>1. \A q \in 1 .. Len(s) : s2[q].key = s[q].key
      BY <1>2, <1>3, <1>6 DEF old
    <3> QED
      BY <1>1, <1>3, <1>6, <3>1 DEF Sorted, s
  <2>3. size \in Nat \ {0} /\ Sorted(chain, size) /\ i \in 0 .. size - 1 /\ Fits(s2, i, size)
    BY <1>1, <1>3, <1>6, <2>1, <2>2 DEF Fits
  <2>4. chain2 = [chain EXCEPT ![i] = s2]
    OBVIOUS
  <2> HIDE DEF chain, size, chain2
  <2>5. Sorted(chain2, size) /\ Exchanged(chain2, chain, size, i, s2)
    BY ONLY <2>3, <2>4, Replaced
  <2> QED
    BY <2>5 DEF chain, Exchanged
<1> HIDE DEF t2, chain2
<1>10. t2.chain = chain2 /\ t2.table_size = size /\ t2.num_entries = t.num_entries
  BY <1>8
<1>11. \A m \in NodesOf(t) : m.key % size = i => \E q \in 1 .. Len(s) : m = s[q]
  <2> TAKE m \in NodesOf(t)
  <2>1. PICK j \in 0 .. size - 1 : \E q \in 1 .. Len(t.chain[j]) : m = t.chain[j][q]
    BY DEF NodesOf, Stored
  <2> QED
    BY <1>1, <2>1 DEF Sorted, s
<1>12. \A q \in 1 .. Len(s) : s[q] \in NodesOf(t) /\ (s[q] = old => q = p)
  <2> TAKE q \in 1 .. Len(s)
  <2>1. s[q] \in NodeSet
    BY <1>5, ElementOfSeq
  <2>2. s[q] \in NodesOf(t)
    BY <1>3, <2>1 DEF NodesOf, Stored, s
  <2>3. s[q] = old => q = p
    BY <1>1, <1>3 DEF Sorted, s, old
  <2> QED
    BY <2>2, <2>3
<1>13. \A q \in 1 .. Len(s) : s[q].key % size = i
  BY <1>1, <1>3 DEF Sorted, s
<1>14. NodesOf(t2) = (NodesOf(t) \ {old}) \cup {n}
  <2>1. \A m \in NodesOf(t2) : m \in (NodesOf(t) \ {old}) \cup {n}
    <3> TAKE m \in NodesOf(t2)
    <3>1. CASE m \in NodesOf(t) /\ m.key % size # i
      BY <1>3, <1>13, <3>1 DEF old
    <3>2. CASE \E q \in 1 .. Len(s2) : m = s2[q]
      BY <1>6, <1>12, <3>2
    <3> QED
      BY <1>9, <1>10, <3>1, <3>2 DEF NodesOf
  <2>2. n \in NodesOf(t2)
    BY <1>3, <1>6, <1>9, <1>10 DEF NodesOf
  <2>3. \A m \in NodesOf(t) : m # old => m \in NodesOf(t2)
    <3> SUFFICES ASSUME NEW m \in NodesOf(t), m # old PROVE m \in NodesOf(t2)
      OBVIOUS
    <3>1. CASE m.key % size # i
      BY <1>9, <1>10, <3>1 DEF NodesOf
    <3>2. CASE m.key % size = i
      <4>1. PICK q \in 1 .. Len(s) : m = s[q]
        BY <1>11, <3>2
      <4>2. m = s2[q] /\ q \in 1 .. Len(s2)
        BY <1>6, <4>1 DEF old
      <4> QED
        BY <1>9, <1>10, <4>2 DEF NodesOf
    <3> QED
      BY <3>1, <3>2
  <2> QED
    BY <2>1, <2>2, <2>3
<1>15. n \notin NodesOf(t) \ {old}
  <2>1. \A a, b \in NodesOf(t) : a.key = b.key => a = b
    BY <1>1, KeysApart DEF NodesOf
  <2> QED
    BY <1>2, <1>3, <2>1
<1>16. IsFiniteSet(NodesOf(t2)) /\ Cardinality(NodesOf(t2)) = Cardinality(NodesOf(t))
  <2> DEFINE rest == NodesOf(t) \ {old}
  <2>1. IsFiniteSet(NodesOf(t)) /\ Cardinality(NodesOf(t)) \in Nat
    BY FS_CardinalityType DEF Sound
  <2>2. IsFiniteSet(rest) /\ Cardinality(rest) = Cardinality(NodesOf(t)) - 1
    BY <1>3, <2>1, FS_RemoveElement
  <2> HIDE DEF rest
  <2>3. IsFiniteSet(rest \cup {n}) /\ Cardinality(rest \cup {n}) = Cardinality(rest) + 1
    BY <1>15, <2>2, FS_AddElement DEF rest
  <2> QED
    BY <1>14, <2>1, <2>2, <2>3 DEF rest
<1>17. Sound(t2)
  <2>1. IsTable(t2)
    BY <1>8, <1>10 DEF IsTable
  <2>2. t.num_entries = Cardinality(NodesOf(t))
    BY DEF Sound
  <2> QED
    BY <1>1, <1>9, <1>10, <1>16, <2>1, <2>2 DEF Sound
<1> QED
  BY <1>3, <1>10, <1>14, <1>17 DEF t2, n

\* A node is taken out of its chain.
LEMMA SoundWithoutNode ==
    ASSUME NEW t, Sound(t), NEW k \in Keys, Has(t, k)
    PROVE  LET t2 == WithoutNode(t, k) IN
           /\ Sound(t2) /\ t2.table_size = t.table_size
           /\ NodesOf(t2) = NodesOf(t) \ {Held(t, k)}
<1> DEFINE size == t.table_size
           i == k % size
           s == t.chain[i]
           p == Position(t, k)
           old == s[p]
           s2 == RemoveAt(s, p)
           chain2 == [t.chain EXCEPT ![i] = s2]
           t2 == WithoutNode(t, k)
<1>1. size \in Nat \ {0} /\ Sorted(t.chain, size) /\ t.chain \in Chains(size)
  BY DEF Sound, Sorted
<1>2. /\ ChainOf(t, k) = s /\ i \in 0 .. size - 1 /\ p \in 1 .. Len(s)
      /\ old.key = k /\ old \in NodesOf(t) /\ Held(t, k) = old
  BY Found DEF Held
<1>3. TableIndex(t, k) = i
  BY DEF TableIndex
<1> HIDE DEF i, p
<1>4. s \in Seq(NodeSet) /\ Len(s) \in Nat /\ DOMAIN s = 1 .. Len(s)
  BY <1>1, <1>2, ChainIs
<1>5. /\ s2 \in Seq(NodeSet) /\ Len(s2) = Len(s) - 1
      /\ \A q \in 1 .. Len(s) - 1 : s2[q] = IF q < p THEN s[q] ELSE s[q + 1]
  <2> HIDE DEF s
  <2> QED
    BY <1>2, <1>4, RemovedIs
<1> HIDE DEF s2, old, s
<1>6. t2 = [table_size |-> size, num_entries |-> t.num_entries - 1, chain |-> chain2]
  <2>1. t = [table_size |-> t.table_size, num_entries |-> t.num_entries, chain |-> t.chain]
    BY DEF Sound, IsTable
  <2>2. t2 = [t EXCEPT !.chain[i] = RemoveAt(@, p), !.num_entries = @ - 1]
    BY <1>3 DEF WithoutNode, p
  <2> HIDE DEF t2
  <2>3. t2 = [table_size |-> size, num_entries |-> t.num_entries - 1,
              chain |-> [t.chain EXCEPT ![i] = RemoveAt(t.chain[i], p)]]
    BY <2>1, <2>2
  <2> QED
    BY <2>3 DEF s2, s
\* Where the nodes of the new chain come from and where those of the old one go.
<1>7. \A q \in 1 .. Len(s2) : \E r \in 1 .. Len(s) : r # p /\ s2[q] = s[r] /\ (q < p => r = q)
                                                    /\ (q >= p => r = q + 1)
  <2> TAKE q \in 1 .. Len(s2)
  <2>1. CASE q < p
    <3>1. q \in 1 .. Len(s) /\ q # p /\ ~(q >= p) /\ s2[q] = s[q]
      BY <1>2, <1>4, <1>5, <2>1
    <3> QED
      BY <2>1, <3>1
  <2>2. CASE ~(q < p)
    <3>1. q + 1 \in 1 .. Len(s) /\ q + 1 # p /\ s2[q] = s[q + 1]
      BY <1>2, <1>4, <1>5, <2>2
    <3> QED
      BY <2>2, <3>1
  <2> QED
    BY <2>1, <2>2
<1>8. \A r \in 1 .. Len(s) : r # p => \E q \in 1 .. Len(s2) : s2[q] = s[r]
  <2> SUFFICES ASSUME NEW r \in 1 .. Len(s), r # p PROVE \E q \in 1 .. Len(s2) : s2[q] = s[r]
    OBVIOUS
  <2>1. CASE r < p
    <3>1. r \in 1 .. Len(s2) /\ s2[r] = s[r]
      BY <1>2, <1>4, <1>5, <2>1
    <3> QED
      BY <3>1
  <2>2. CASE ~(r < p)
    <3>1. r - 1 \in 1 .. Len(s) - 1 /\ ~(r - 1 < p) /\ r - 1 + 1 = r
      BY <1>2, <1>4, <2>2
    <3>2. s2[r - 1] = s[r]
      BY <1>5, <3>1
    <3> QED
      BY <1>5, <3>1, <3>2
  <2> QED
    BY <2>1, <2>2
<1>9. \A q \in 1 .. Len(s) : s[q].key % size = i
  BY <1>1, <1>2 DEF Sorted, s
<1>10. \A q, r \in 1 .. Len(s) : s[q].key = s[r].key => q = r
  BY <1>1, <1>2 DEF Sorted, s
<1>11. Fits(s2, i, size)
  <2>1. \A q \in 1 .. Len(s2) : s2[q].key % size = i
    BY <1>7, <1>9
  <2>2. \A q, r \in 1 .. Len(s2) : s2[q].key = s2[r].key => q = r
    <3> SUFFICES ASSUME NEW q \in 1 .. Len(s2), NEW r \in 1 .. Len(s2), s2[q].key = s2[r].key
                 PROVE  q = r
      OBVIOUS
    <3>1. PICK x \in 1 .. Len(s) : x # p /\ s2[q] = s[x] /\ (q < p => x = q) /\ (q >= p => x = q + 1)
      BY <1>7
    <3>2. PICK y \in 1 .. Len(s) : y # p /\ s2[r] = s[y] /\ (r < p => y = r) /\ (r >= p => y = r + 1)
      BY <1>7
    <3>3. x = y
      BY <1>10, <3>1, <3>2
    <3>4. q \in Int /\ r \in Int /\ p \in Int
      BY <1>2, <1>4, <1>5
    <3> QED
      BY ONLY <3>1, <3>2, <3>3, <3>4
  <2> QED
    BY <1>5, <2>1, <2>2 DEF Fits
<1>12. Sorted(chain2, size) /\ Exchanged(chain2, t.chain, size, i, s2)
  <2> DEFINE chain == t.chain
  <2>1. chain2 = [chain EXCEPT ![i] = s2]
    OBVIOUS
  <2>2. size \in Nat \ {0} /\ Sorted(chain, size) /\ i \in 0 .. size - 1
    BY <1>1, <1>2
  <2> HIDE DEF chain, size, chain2
  <2>3. Sorted(chain2, size) /\ Exchanged(chain2, chain, size, i, s2)
    BY ONLY <1>11, <2>1, <2>2, Replaced
  <2> QED
    BY <2>3 DEF chain
<1> HIDE DEF t2, chain2
<1>13. t2.chain = chain2 /\ t2.table_size = size /\ t2.num_entries = t.num_entries - 1
  BY <1>6
<1>14. \A m \in NodesOf(t) : m.key % size = i => \E q \in 1 .. Len(s) : m = s[q]
  <2> TAKE m \in NodesOf(t)
  <2>1. PICK j \in 0 .. size - 1 : \E q \in 1 .. Len(t.chain[j]) : m = t.chain[j][q]
    BY DEF NodesOf, Stored
  <2> QED
    BY <1>1, <2>1 DEF Sorted, s
<1>15. \A q \in 1 .. Len(s) : s[q] \in NodesOf(t) /\ (s[q] = old => q = p)
  <2> TAKE q \in 1 .. Len(s)
  <2>1. s[q] \in NodeSet
    BY <1>4, ElementOfSeq
  <2>2. s[q] \in NodesOf(t)
    BY <1>2, <2>1 DEF NodesOf, Stored, s
  <2>3. s[q] = old => q = p
    BY <1>2, <1>10 DEF old
  <2> QED
    BY <2>2, <2>3
<1>16. NodesOf(t2) = NodesOf(t) \ {old}
  <2>1. \A m \in NodesOf(t2) : m \in NodesOf(t) \ {old}
    <3> TAKE m \in NodesOf(t2)
    <3>1. CASE m \in NodesOf(t) /\ m.key % size # i
      BY <1>2, <1>9, <3>1 DEF old
    <3>2. CASE \E q \in 1 .. Len(s2) : m = s2[q]
      BY <1>7, <1>15, <3>2
    <3> QED
      BY <1>12, <1>13, <3>1, <3>2 DEF NodesOf, Exchanged
  <2>2. \A m \in NodesOf(t) : m # old => m \in NodesOf(t2)
    <3> SUFFICES ASSUME NEW m \in NodesOf(t), m # old PROVE m \in NodesOf(t2)
      OBVIOUS
    <3>1. CASE m.key % size # i
      BY <1>12, <1>13, <3>1 DEF NodesOf, Exchanged
    <3>2. CASE m.key % size = i
      <4>1. PICK r \in 1 .. Len(s) : m = s[r]
        BY <1>14, <3>2
      <4>2. PICK q \in 1 .. Len(s2) : s2[q] = m
        BY <1>8, <4>1 DEF old
      <4> QED
        BY <1>12, <1>13, <4>2 DEF NodesOf, Exchanged
    <3> QED
      BY <3>1, <3>2
  <2> QED
    BY <2>1, <2>2
<1>17. IsFiniteSet(NodesOf(t2)) /\ Cardinality(NodesOf(t2)) = Cardinality(NodesOf(t)) - 1
  <2>1. IsFiniteSet(NodesOf(t))
    BY DEF Sound
  <2> QED
    BY <1>2, <1>16, <2>1, FS_RemoveElement
<1>18. Sound(t2)
  <2>1. IsTable(t2)
    BY <1>6, <1>13 DEF IsTable
  <2>2. t.num_entries = Cardinality(NodesOf(t))
    BY DEF Sound
  <2> QED
    BY <1>1, <1>12, <1>13, <1>17, <2>1, <2>2 DEF Sound
<1> QED
  BY <1>2, <1>13, <1>16, <1>18 DEF t2

-----------------------------------------------------------------------------
(* All nodes, chain after chain *)

\* f[i] is the first i sequences in a row.
Joins(f, seqs, n) ==
    f = [i \in 1 .. n |-> IF i = 1 THEN seqs[i] ELSE f[i - 1] \o seqs[i]]

\* The recursion of FlattenSeq defines a function.
LEMMA JoinsExist ==
    ASSUME NEW S, NEW n \in Nat \ {0}, NEW seqs \in [1 .. n -> Seq(S)]
    PROVE  \E f \in [1 .. n -> Seq(S)] : Joins(f, seqs, n)
<1> DEFINE M == {m \in 0 .. n : m = 0 \/ \E f \in [1 .. m -> Seq(S)] : Joins(f, seqs, m)}
<1>1. 0 \in M
  OBVIOUS
<1>2. ASSUME NEW m \in 0 .. n - 1, m \in M PROVE m + 1 \in M
  <2>1. CASE m = 0
    <3> DEFINE f == [i \in 1 .. 1 |-> seqs[1]]
    <3>1. f \in [1 .. 1 -> Seq(S)] /\ Joins(f, seqs, 1)
      BY DEF Joins
    <3>2. m + 1 = 1 /\ 1 \in 0 .. n
      BY <2>1
    <3> QED
      BY <3>1, <3>2
  <2>2. CASE m # 0
    <3>1. PICK f \in [1 .. m -> Seq(S)] : Joins(f, seqs, m)
      BY <1>2, <2>2
    <3> DEFINE g == [i \in 1 .. m + 1 |-> IF i <= m THEN f[i] ELSE f[m] \o seqs[m + 1]]
    <3>2. m \in 1 .. m /\ m + 1 \in 1 .. n
      BY <2>2
    <3>3. f[m] \o seqs[m + 1] \in Seq(S)
      BY <3>2, ConcatProperties
    <3>4. g \in [1 .. m + 1 -> Seq(S)]
      BY <3>3
    <3>5. \A i \in 1 .. m + 1 : g[i] = IF i = 1 THEN seqs[i] ELSE g[i - 1] \o seqs[i]
      <4> TAKE i \in 1 .. m + 1
      <4>1. CASE i \in 1 .. m
        <5>1. f[i] = IF i = 1 THEN seqs[i] ELSE f[i - 1] \o seqs[i]
          BY <3>1, <4>1 DEF Joins
        <5>2. g[i] = f[i] /\ (i # 1 => g[i - 1] = f[i - 1])
          BY <4>1
        <5> HIDE DEF g
        <5> QED
          BY <5>1, <5>2
      <4>2. CASE i = m + 1
        <5>1. i # 1 /\ i - 1 = m
          BY <2>2, <4>2
        <5>2. g[i] = f[m] \o seqs[i] /\ g[m] = f[m]
          BY <3>2, <4>2
        <5> HIDE DEF g
        <5> QED
          BY <5>1, <5>2
      <4> QED
        BY <4>1, <4>2
    <3> HIDE DEF g
    <3>6. Joins(g, seqs, m + 1)
      BY <3>4, <3>5 DEF Joins
    <3> QED
      BY <3>4, <3>6
  <2> QED
    BY <2>1, <2>2
<1>3. n \in M
  <2> HIDE DEF M
  <2>1. \A m \in 0 .. n - 1 : m \in M => m + 1 \in M
    BY <1>2
  <2>2. n \in Nat
    OBVIOUS
  <2>3. \A m \in 0 .. n : m \in M
    BY ONLY <1>1, <2>1, <2>2, InductionUpTo
  <2> QED
    BY <2>2, <2>3
<1> QED
  BY <1>3

\* What FlattenSeq comes to.
Flattens(f, seqs, n) ==
    /\ FlattenSeq(seqs) = f[n] /\ f[1] = seqs[1]
    /\ \A i \in 1 .. n - 1 : f[i + 1] = f[i] \o seqs[i + 1]

LEMMA FlattenIs ==
    ASSUME NEW S, NEW n \in Nat \ {0}, NEW seqs \in [1 .. n -> Seq(S)]
    PROVE  \E f \in [1 .. n -> Seq(S)] : Flattens(f, seqs, n)
<1>1. seqs \in Seq(Seq(S)) /\ Len(seqs) = n
  <2> DEFINE B == Seq(S)
  <2>1. seqs \in [1 .. n -> B] /\ n \in Nat
    OBVIOUS
  <2> HIDE DEF B
  <2>2. seqs \in Seq(B)
    BY <2>1, SeqDef
  <2>3. DOMAIN seqs = 1 .. Len(seqs) /\ Len(seqs) \in Nat
    BY <2>2, LenProperties
  <2> QED
    BY <2>1, <2>2, <2>3 DEF B
<1> DEFINE flatten[i \in 1 .. Len(seqs)] ==
               IF i = 1 THEN seqs[i] ELSE flatten[i - 1] \o seqs[i]
<1>2. FlattenSeq(seqs) = flatten[n]
  BY <1>1 DEF FlattenSeq
<1>3. \E f \in [1 .. n -> Seq(S)] : Joins(f, seqs, n)
  BY JoinsExist
<1>4. flatten = [i \in 1 .. Len(seqs) |-> IF i = 1 THEN seqs[i] ELSE flatten[i - 1] \o seqs[i]]
  BY <1>1, <1>3 DEF Joins
<1> HIDE DEF flatten
<1>5. flatten = [i \in 1 .. n |-> IF i = 1 THEN seqs[i] ELSE flatten[i - 1] \o seqs[i]]
  BY <1>1, <1>4
<1>6. flatten[1] = seqs[1]
  <2>1. 1 \in 1 .. n
    OBVIOUS
  <2> QED
    BY <1>5, <2>1
<1>7. \A i \in 1 .. n - 1 : flatten[i + 1] = flatten[i] \o seqs[i + 1]
  <2> TAKE i \in 1 .. n - 1
  <2>1. i + 1 \in 1 .. n /\ i + 1 # 1 /\ i + 1 - 1 = i
    OBVIOUS
  <2> DEFINE j == i + 1
  <2>2. j \in 1 .. n /\ j # 1 /\ j - 1 = i
    BY <2>1
  <2> HIDE DEF j
  <2>3. flatten[j] = flatten[j - 1] \o seqs[j]
    BY ONLY <1>5, <2>2
  <2> QED
    BY ONLY <2>2, <2>3 DEF j
<1> DEFINE M == {m \in 0 .. n : m # 0 => flatten[m] \in Seq(S)}
<1>8. 0 \in M
  OBVIOUS
<1>9. ASSUME NEW m \in 0 .. n - 1, m \in M PROVE m + 1 \in M
  <2>1. CASE m = 0
    <3>1. m + 1 = 1 /\ seqs[1] \in Seq(S)
      BY <2>1
    <3> QED
      BY <1>6, <3>1
  <2>2. CASE m # 0
    <3>1. m \in 1 .. n - 1 /\ m + 1 \in 1 .. n /\ m + 1 \in 0 .. n
      BY <2>2
    <3>2. flatten[m + 1] = flatten[m] \o seqs[m + 1]
      BY <1>7, <3>1
    <3>3. flatten[m] \in Seq(S) /\ seqs[m + 1] \in Seq(S)
      BY <1>9, <2>2, <3>1
    <3>4. flatten[m + 1] \in Seq(S)
      BY <3>2, <3>3, ConcatProperties
    <3> QED
      BY <3>1, <3>4
  <2> QED
    BY <2>1, <2>2
<1>10. \A m \in 0 .. n : m \in M
  <2> HIDE DEF M
  <2> QED
    BY <1>8, <1>9, InductionUpTo
<1>11. flatten \in [1 .. n -> Seq(S)]
  <2>1. \A i \in 1 .. n : flatten[i] \in Seq(S)
    BY <1>10
  <2> QED
    BY <1>5, <2>1
<1> QED
  BY <1>2, <1>6, <1>7, <1>11 DEF Flattens

\* The order has every node once.
Lists(s, S) ==
    /\ s \in Seq(NodeSet)
    /\ \A p, q \in 1 .. Len(s) : s[p].key = s[q].key => p = q
    /\ \A n : n \in S <=> \E p \in 1 .. Len(s) : n = s[p]

LEMMA InOrder ==
    ASSUME NEW t, Sound(t)
    PROVE  Lists(NodesInOrder(t), NodesOf(t))
<1> DEFINE size == t.table_size
           chain == t.chain
           seqs == [i \in 1 .. size |-> chain[i - 1]]
           \* the nodes of the first m chains
           First(m) == {n \in NodesOf(t) : \E i \in 0 .. m - 1 : \E q \in 1 .. Len(chain[i]) :
                                               n = chain[i][q]}
<1>1. size \in Nat \ {0} /\ Sorted(chain, size) /\ chain \in Chains(size)
  BY DEF Sound, Sorted
<1>2. \A i \in 0 .. size - 1 :
          /\ chain[i] \in Seq(NodeSet) /\ Len(chain[i]) \in Nat
          /\ \A p \in 1 .. Len(chain[i]) : chain[i][p] \in NodeSet
  <2> HIDE DEF chain, size
  <2> QED
    BY <1>1, ChainIs
<1>3. seqs \in [1 .. size -> Seq(NodeSet)]
  <2>1. \A i \in 1 .. size : i - 1 \in 0 .. size - 1
    BY <1>1
  <2> QED
    BY <1>2, <2>1
<1>4. NodesInOrder(t) = FlattenSeq(seqs)
  BY DEF NodesInOrder
<1>5. PICK f \in [1 .. size -> Seq(NodeSet)] :
               /\ FlattenSeq(seqs) = f[size] /\ f[1] = seqs[1]
               /\ \A i \in 1 .. size - 1 : f[i + 1] = f[i] \o seqs[i + 1]
  <2> DEFINE B == NodeSet
  <2>1. seqs \in [1 .. size -> Seq(B)] /\ size \in Nat \ {0}
    BY <1>1, <1>3
  <2> HIDE DEF seqs, size, B
  <2>2. \E f \in [1 .. size -> Seq(B)] : Flattens(f, seqs, size)
    BY <2>1, FlattenIs
  <2> QED
    BY <2>2 DEF B, Flattens
<1>6. f[1] = chain[0] /\ \A m \in 1 .. size - 1 : f[m + 1] = f[m] \o chain[m]
  <2>1. seqs[1] = chain[0]
    BY <1>1
  <2>2. \A m \in 1 .. size - 1 : seqs[m + 1] = chain[m]
    BY <1>1
  <2> QED
    BY <1>5, <2>1, <2>2
<1>7. \A i \in 0 .. size - 1 : \A q \in 1 .. Len(chain[i]) : chain[i][q] \in NodesOf(t)
  BY <1>2 DEF NodesOf, Stored
<1>8. \A i, j \in 0 .. size - 1 : \A p \in 1 .. Len(chain[i]), q \in 1 .. Len(chain[j]) :
          chain[i][p].key = chain[j][q].key => i = j /\ p = q
  <2> HIDE DEF size, chain
  <2> QED
    BY <1>1, KeysApart
<1> HIDE DEF size, chain, seqs
<1> DEFINE M == {m \in 0 .. size : m # 0 => Lists(f[m], First(m))}
<1>9. 0 \in M
  BY <1>1
<1>10. ASSUME NEW m \in 0 .. size - 1, m \in M PROVE m + 1 \in M
  <2>0. m + 1 \in 0 .. size /\ m + 1 # 0
    BY <1>1
  <2>1. CASE m = 0
    <3>1. \A n : n \in First(1) <=> \E p \in 1 .. Len(chain[0]) : n = chain[0][p]
      BY <1>1, <1>7
    <3>2. Lists(chain[0], First(1))
      BY <1>1, <1>2, <1>8, <3>1 DEF Lists
    <3>3. m + 1 = 1 /\ f[1] = chain[0]
      BY <1>6, <2>1
    <3>4. Lists(f[m + 1], First(m + 1))
      <4> HIDE DEF First
      <4> QED
        BY <3>2, <3>3
    <3> HIDE DEF First
    <3> QED
      BY <2>0, <3>4
  <2>2. CASE m # 0
    <3> DEFINE a == f[m]
               b == chain[m]
    <3>1. m \in 1 .. size - 1 /\ m \in 1 .. size /\ m \in 0 .. size - 1
      BY <1>1, <2>2
    <3>2. f[m + 1] = a \o b /\ Lists(a, First(m))
      BY <1>6, <1>10, <2>2, <3>1
    <3>3. b \in Seq(NodeSet) /\ a \in Seq(NodeSet) /\ Len(a) \in Nat /\ Len(b) \in Nat
      BY <1>2, <3>1, <3>2, LenProperties DEF Lists
    <3> DEFINE r == a \o b
    <3>4. /\ r \in Seq(NodeSet) /\ Len(r) = Len(a) + Len(b)
          /\ \A p \in 1 .. Len(a) + Len(b) : r[p] = IF p <= Len(a) THEN a[p] ELSE b[p - Len(a)]
      <4> HIDE DEF a, b
      <4> QED
        BY <3>3, ConcatProperties
    <3>5. \A p \in 1 .. Len(r) : \/ p \in 1 .. Len(a) /\ r[p] = a[p]
                                 \/ p - Len(a) \in 1 .. Len(b) /\ r[p] = b[p - Len(a)]
      <4> HIDE DEF a, b, r
      <4> QED
        BY <3>3, <3>4
    <3>6. /\ \A p \in 1 .. Len(a) : p \in 1 .. Len(r) /\ r[p] = a[p]
          /\ \A q \in 1 .. Len(b) : q + Len(a) \in 1 .. Len(r) /\ r[q + Len(a)] = b[q]
      <4> HIDE DEF a, b, r
      <4>1. \A q \in 1 .. Len(b) : /\ q + Len(a) \in 1 .. Len(a) + Len(b)
                                   /\ ~(q + Len(a) <= Len(a)) /\ q + Len(a) - Len(a) = q
        BY <3>3
      <4>2. \A q \in 1 .. Len(b) : r[q + Len(a)] = b[q]
        BY <3>4, <4>1
      <4>3. \A p \in 1 .. Len(a) : p \in 1 .. Len(a) + Len(b) /\ p <= Len(a)
        BY <3>3
      <4>4. \A p \in 1 .. Len(a) : r[p] = a[p]
        BY <3>4, <4>3
      <4> QED
        BY <3>4, <4>1, <4>2, <4>3, <4>4
    <3> HIDE DEF r
    <3>7. \A p \in 1 .. Len(a), q \in 1 .. Len(b) : a[p].key # b[q].key
      <4> TAKE p \in 1 .. Len(a), q \in 1 .. Len(b)
      <4>1. a[p] \in First(m)
        BY <3>2 DEF Lists
      <4>2. PICK i \in 0 .. m - 1 : \E x \in 1 .. Len(chain[i]) : a[p] = chain[i][x]
        BY <4>1
      <4>3. i \in 0 .. size - 1 /\ i # m
        BY <1>1, <3>1
      <4> QED
        BY <1>8, <3>1, <4>2, <4>3
    <3>8. \A p, q \in 1 .. Len(r) : r[p].key = r[q].key => p = q
      <4> SUFFICES ASSUME NEW p \in 1 .. Len(r), NEW q \in 1 .. Len(r), r[p].key = r[q].key
                   PROVE  p = q
        OBVIOUS
      <4>0. \A x, y \in 1 .. Len(b) : b[x].key = b[y].key => x = y
        BY <1>8, <3>1
      <4>1. CASE p \in 1 .. Len(a) /\ r[p] = a[p]
        <5>1. CASE q \in 1 .. Len(a) /\ r[q] = a[q]
          BY <3>2, <4>1, <5>1 DEF Lists
        <5>2. CASE q - Len(a) \in 1 .. Len(b) /\ r[q] = b[q - Len(a)]
          BY <3>7, <4>1, <5>2
        <5> QED
          BY <3>5, <5>1, <5>2
      <4>2. CASE p - Len(a) \in 1 .. Len(b) /\ r[p] = b[p - Len(a)]
        <5>1. CASE q \in 1 .. Len(a) /\ r[q] = a[q]
          BY <3>7, <4>2, <5>1
        <5>2. CASE q - Len(a) \in 1 .. Len(b) /\ r[q] = b[q - Len(a)]
          <6>1. b[p - Len(a)].key = b[q - Len(a)].key
            BY <4>2, <5>2
          <6>2. p - Len(a) = q - Len(a)
            BY ONLY <4>0, <4>2, <5>2, <6>1
          <6>3. p \in Int /\ q \in Int /\ Len(a) \in Int
            BY <3>3, <3>4
          <6> QED
            BY ONLY <6>2, <6>3
        <5> QED
          BY <3>5, <5>1, <5>2
      <4> QED
        BY <3>5, <4>1, <4>2
    <3>9. \A n : n \in First(m + 1) <=> n \in First(m) \/ \E q \in 1 .. Len(b) : n = b[q]
      <4>1. \A i : i \in 0 .. m + 1 - 1 <=> i \in 0 .. m - 1 \/ i = m
        BY <3>1
      <4> QED
        BY <1>7, <3>1, <4>1
    <3>10. \A n : n \in First(m + 1) <=> \E p \in 1 .. Len(r) : n = r[p]
      <4>1. \A n : n \in First(m) <=> \E p \in 1 .. Len(a) : n = a[p]
        BY <3>2 DEF Lists
      <4> HIDE DEF First, a, b
      <4>2. ASSUME NEW n, n \in First(m + 1) PROVE \E p \in 1 .. Len(r) : n = r[p]
        <5>1. CASE n \in First(m)
          BY <3>6, <4>1, <5>1
        <5>2. CASE \E q \in 1 .. Len(b) : n = b[q]
          <6>1. PICK q \in 1 .. Len(b) : n = b[q]
            BY <5>2
          <6> QED
            BY <3>6, <6>1
        <5> QED
          BY <3>9, <4>2, <5>1, <5>2
      <4>3. ASSUME NEW p \in 1 .. Len(r) PROVE r[p] \in First(m + 1)
        BY <3>5, <3>9, <4>1
      <4> QED
        BY <4>2, <4>3
    <3>11. Lists(r, First(m + 1))
      BY <3>4, <3>8, <3>10 DEF Lists
    <3> QED
      BY <2>0, <3>2, <3>11 DEF r
  <2> QED
    BY <2>1, <2>2
<1>11. size \in M
  <2> HIDE DEF M
  <2>1. \A m \in 0 .. size - 1 : m \in M => m + 1 \in M
    BY <1>10
  <2>2. size \in Nat
    BY <1>1
  <2>3. \A m \in 0 .. size : m \in M
    BY ONLY <1>9, <2>1, <2>2, InductionUpTo
  <2> QED
    BY <2>2, <2>3
<1>12. First(size) = NodesOf(t)
  BY <1>1, <1>2 DEF NodesOf, Stored, size, chain
<1>13. Lists(f[size], First(size))
  BY <1>1, <1>11
<1> HIDE DEF First
<1> QED
  BY <1>4, <1>5, <1>12, <1>13

\* The order is as long as there are nodes.
LEMMA OrderLength ==
    ASSUME NEW s, NEW S, Lists(s, S)
    PROVE  IsFiniteSet(S) /\ Cardinality(S) = Len(s)
<1> DEFINE n == Len(s)
<1>1. n \in Nat /\ s \in [1 .. n -> S]
  <2>1. n \in Nat /\ s \in [1 .. n -> NodeSet]
    BY LenProperties DEF Lists
  <2>2. \A p \in 1 .. n : s[p] \in S
    BY DEF Lists
  <2> QED
    BY <2>1, <2>2
<1>2. s \in Injection(1 .. n, S) /\ s \in Surjection(1 .. n, S)
  <2>1. \A p, q \in 1 .. n : s[p] = s[q] => p = q
    BY DEF Lists
  <2>2. \A m \in S : \E p \in 1 .. n : s[p] = m
    BY DEF Lists
  <2> QED
    BY <1>1, <2>1, <2>2, Fun_IsInj, Fun_IsSurj
<1>3. IsFiniteSet(1 .. n) /\ Cardinality(1 .. n) = n
  BY <1>1, FS_Interval, SMTT(30)
<1>4. IsFiniteSet(S) /\ Cardinality(S) <= n
  BY <1>2, <1>3, FS_Surjection
<1>5. n <= Cardinality(S)
  BY <1>2, <1>3, <1>4, FS_Injection
<1> QED
  BY <1>1, <1>4, <1>5, FS_CardinalityType

-----------------------------------------------------------------------------
(* Rehashing *)

\* Every node is moved to the chain its key belongs to in the larger table.
LEMMA SoundRehashed ==
    ASSUME NEW t, Sound(t)
    PROVE  Sound(Rehashed(t)) /\ NodesOf(Rehashed(t)) = NodesOf(t)
<1> DEFINE size == t.table_size * 2 + 1
           s == NodesInOrder(t)
           n == Len(s)
           base == [i \in 0 .. size - 1 |-> <<>>]
           Push(chain, m) == [chain EXCEPT ![m.key % size] = <<m>> \o @]
           f[d \in SUBSET DOMAIN s] ==
               IF d = {} THEN base ELSE Push(f[d \ {Max(d)}], s[Max(d)])
           t2 == Rehashed(t)
<1>1. size \in Nat \ {0}
  BY DEF Sound
<1>2. t2 = [t EXCEPT !.table_size = size, !.chain = f[DOMAIN s]]
  BY DEF Rehashed, FoldLeft, MapThenFoldSet
<1>3. Lists(s, NodesOf(t)) /\ n \in Nat /\ DOMAIN s = 1 .. n /\ \A p \in 1 .. n : s[p] \in NodeSet
  <2>1. Lists(s, NodesOf(t)) /\ s \in Seq(NodeSet)
    BY InOrder DEF Lists
  <2> HIDE DEF s
  <2> QED
    BY <2>1, LenProperties, ElementOfSeq
<1> HIDE DEF t2
<1> DEFINE A == Chains(size)
           st == [x \in (1 .. n) \X A |-> Push(x[2], s[x[1]])]
<1>4. base \in A /\ Sorted(base, size) /\ Stored(base, size) = {}
  <2>1. LET c == [i \in 0 .. size - 1 |-> <<>>] IN Sorted(c, size) /\ Stored(c, size) = {}
    <3> HIDE DEF size
    <3> QED
      BY <1>1, EmptyChains
  <2> QED
    BY <2>1 DEF Sorted
<1>5. ASSUME NEW chain \in A, NEW m \in NodeSet PROVE Push(chain, m) \in A
  <2> DEFINE i == m.key % size
             r == <<m>> \o chain[i]
  <2>1. m.key \in Nat /\ i \in 0 .. size - 1
    <3>1. m.key \in Nat
      BY HashTableAssumption DEF NodeSet
    <3> HIDE DEF size
    <3> QED
      BY <1>1, <3>1, IndexIs
  <2>2. chain[i] \in Seq(NodeSet)
    BY <2>1 DEF Chains
  <2>3. r \in Seq(NodeSet)
    BY <2>2, ConcatProperties
  <2> HIDE DEF i, r, size
  <2>4. [chain EXCEPT ![i] = r] \in A
    BY <2>1, <2>3 DEF Chains
  <2> QED
    BY <2>4 DEF i, r
<1> HIDE DEF base, s, A
<1>6. st \in [(1 .. n) \X A -> A]
  <2> HIDE DEF Push, n, size
  <2>1. \A x \in (1 .. n) \X A : Push(x[2], s[x[1]]) \in A
    BY <1>3, <1>5
  <2> QED
    BY <2>1
<1>7. PICK g \in [SUBSET (1 .. n) -> A] : FoldsOver(g, n, base, st)
  <2> HIDE DEF st, n
  <2> QED
    BY <1>3, <1>4, <1>6, FoldExists
<1>8. \A d \in SUBSET (1 .. n) : d # {} =>
          st[<<Max(d), g[d \ {Max(d)}]>>] = Push(g[d \ {Max(d)}], s[Max(d)])
  <2>1. \A d \in SUBSET (1 .. n) : d # {} => Max(d) \in 1 .. n
    BY <1>3, MaxOfNumbers
  <2> HIDE DEF Push, n
  <2> QED
    BY <2>1
<1>9. f = [d \in SUBSET (1 .. n) |-> IF d = {} THEN base ELSE Push(f[d \ {Max(d)}], s[Max(d)])]
  <2>1. g = [d \in SUBSET (1 .. n) |-> IF d = {} THEN base ELSE Push(g[d \ {Max(d)}], s[Max(d)])]
    <3> HIDE DEF Push, st, n
    <3> QED
      BY <1>7, <1>8 DEF FoldsOver
  <2>2. g = [d \in SUBSET DOMAIN s |-> IF d = {} THEN base ELSE Push(g[d \ {Max(d)}], s[Max(d)])]
    <3> HIDE DEF Push, n
    <3> QED
      BY <1>3, <2>1
  <2>3. f = [d \in SUBSET DOMAIN s |-> IF d = {} THEN base ELSE Push(f[d \ {Max(d)}], s[Max(d)])]
    <3> HIDE DEF Push, n
    <3> QED
      BY <2>2
  <2> HIDE DEF f, Push, n
  <2> QED
    BY <1>3, <2>3
<1> HIDE DEF f, st
<1> DEFINE B == {f[d] : d \in SUBSET (1 .. n)}
           su == [x \in (1 .. n) \X B |-> Push(x[2], s[x[1]])]
<1>10. PICK h : h[0] = base /\ h[n] = f[1 .. n] /\ \A i \in 1 .. n : h[i] = Push(h[i - 1], s[i])
  <2>1. f \in [SUBSET (1 .. n) -> B]
    <3> HIDE DEF Push, n
    <3> QED
      BY <1>9
  <2>2. \A d \in SUBSET (1 .. n) : d # {} =>
            su[<<Max(d), f[d \ {Max(d)}]>>] = Push(f[d \ {Max(d)}], s[Max(d)])
    <3>1. \A d \in SUBSET (1 .. n) : d # {} => Max(d) \in 1 .. n
      BY <1>3, MaxOfNumbers
    <3> HIDE DEF Push, n
    <3> QED
      BY <3>1
  <2>3. FoldsOver(f, n, base, su)
    <3> HIDE DEF Push, n, su, B
    <3> QED
      BY <1>9, <2>2 DEF FoldsOver
  <2>4. PICK h \in [0 .. n -> B] : h[n] = f[1 .. n] /\ StepsUpTo(h, n, base, su)
    <3> HIDE DEF su, B, n
    <3> QED
      BY <1>3, <2>1, <2>3, FoldSteps
  <2>5. \A i \in 1 .. n : su[<<i, h[i - 1]>>] = Push(h[i - 1], s[i])
    <3>1. \A i \in 1 .. n : h[i - 1] \in B
      <4> HIDE DEF B, n
      <4> QED
        BY <1>3
    <3> HIDE DEF Push, B, n
    <3> QED
      BY <3>1
  <2> HIDE DEF su, B, Push
  <2> QED
    BY <2>4, <2>5 DEF StepsUpTo
\* The nodes met so far are in the new table.
<1> DEFINE Moved(i) == {m \in NodesOf(t) : \E p \in 1 .. i : m = s[p]}
           M == {i \in 0 .. n : Sorted(h[i], size) /\ Stored(h[i], size) = Moved(i)}
<1> HIDE DEF f, B, su, Push
<1>11. 0 \in M
  BY <1>3, <1>4, <1>10
<1>12. ASSUME NEW i \in 0 .. n - 1, i \in M PROVE i + 1 \in M
  <2> DEFINE m == s[i + 1]
             chain == h[i]
  <2>1. i + 1 \in 1 .. n /\ i + 1 \in 0 .. n /\ i + 1 - 1 = i
    BY <1>3
  <2>2. m \in NodeSet /\ m \in NodesOf(t)
    BY <1>3, <2>1 DEF Lists
  <2>3. Sorted(chain, size) /\ Stored(chain, size) = Moved(i)
    BY <1>12
  <2>4. \A o \in Stored(chain, size) : o.key # m.key
    <3> SUFFICES ASSUME NEW p \in 1 .. i, s[p].key = m.key PROVE FALSE
      BY <2>3
    <3>1. p \in 1 .. n /\ p # i + 1
      BY <2>1
    <3> QED
      BY <1>3, <2>1, <3>1 DEF Lists
  <2>5. Moved(i + 1) = Moved(i) \cup {m}
    <3>1. \A p : p \in 1 .. i + 1 <=> p \in 1 .. i \/ p = i + 1
      BY <1>3
    <3> QED
      BY <2>2, <3>1
  <2> HIDE DEF m, chain, Moved, size
  <2>6. Sorted(Push(chain, m), size) /\ Stored(Push(chain, m), size) = Stored(chain, size) \cup {m}
    <3>1. LET c == [chain EXCEPT ![m.key % size] = <<m>> \o @] IN
          Sorted(c, size) /\ Stored(c, size) = Stored(chain, size) \cup {m}
      BY <1>1, <2>2, <2>3, <2>4, Pushed
    <3> QED
      BY <3>1 DEF Push
  <2>7. h[i + 1] = Push(chain, m)
    BY <1>10, <2>1 DEF chain, m
  <2> QED
    BY <2>1, <2>3, <2>5, <2>6, <2>7
<1>13. n \in M
  <2> HIDE DEF M, n
  <2>1. \A i \in 0 .. n - 1 : i \in M => i + 1 \in M
    BY <1>12
  <2>2. n \in Nat
    BY <1>3
  <2>3. \A i \in 0 .. n : i \in M
    BY ONLY <1>11, <2>1, <2>2, InductionUpTo
  <2> QED
    BY <2>2, <2>3
<1>14. Moved(n) = NodesOf(t)
  BY <1>3 DEF Lists
<1>15. f[DOMAIN s] = h[n]
  BY <1>3, <1>10
<1> DEFINE chain2 == f[DOMAIN s]
<1>16. Sorted(chain2, size) /\ Stored(chain2, size) = NodesOf(t)
  <2> HIDE DEF Moved
  <2> QED
    BY <1>13, <1>14, <1>15
<1>17. t2 = [t EXCEPT !.table_size = size, !.chain = chain2]
  BY <1>2
<1> HIDE DEF chain2, size
<1>18. t2 = [table_size |-> size, num_entries |-> t.num_entries, chain |-> chain2]
  <2>1. t = [table_size |-> t.table_size, num_entries |-> t.num_entries, chain |-> t.chain]
    BY DEF Sound, IsTable
  <2> QED
    BY <1>17, <2>1
<1>19. t2.table_size = size /\ t2.num_entries = t.num_entries /\ t2.chain = chain2 /\ IsTable(t2)
  BY <1>18 DEF IsTable
<1>20. NodesOf(t2) = NodesOf(t)
  BY <1>16, <1>19 DEF NodesOf
<1>21. Sound(t2)
  BY <1>1, <1>16, <1>19, <1>20 DEF Sound
<1> QED
  BY <1>20, <1>21 DEF t2

-----------------------------------------------------------------------------
(* The map that a table stands for *)

LEMMA NodesAre ==
    ASSUME NEW t, Sound(t)
    PROVE  /\ Nodes(t) = NodesOf(t)
           /\ \A m, n \in NodesOf(t) : m.key = n.key => m = n
           /\ \A n \in NodesOf(t) : n.key \in Keys /\ n.value \in Values
<1>1. t.table_size \in Nat \ {0} /\ Sorted(t.chain, t.table_size) /\ t.chain \in Chains(t.table_size)
  BY DEF Sound, Sorted
<1>2. Nodes(t) = NodesOf(t)
  BY <1>1, StoredIs DEF NodesOf
<1>3. \A m, n \in NodesOf(t) : m.key = n.key => m = n
  BY <1>1, KeysApart DEF NodesOf
<1> QED
  BY <1>2, <1>3 DEF NodesOf, Stored, NodeSet

LEMMA EntriesAre ==
    ASSUME NEW t, Sound(t)
    PROVE  /\ Entries(t) = [k \in {n.key : n \in NodesOf(t)} |-> Entries(t)[k]]
           /\ DOMAIN Entries(t) = {n.key : n \in NodesOf(t)}
           /\ \A n \in NodesOf(t) : Entries(t)[n.key] = n.value
<1>1. Entries(t) = [k \in {n.key : n \in NodesOf(t)} |->
                        (CHOOSE n \in NodesOf(t) : n.key = k).value]
  BY NodesAre DEF Entries
<1>2. \A n \in NodesOf(t) : Entries(t)[n.key] = n.value
  <2> TAKE n \in NodesOf(t)
  <2> DEFINE c == CHOOSE m \in NodesOf(t) : m.key = n.key
  <2>1. c \in NodesOf(t) /\ c.key = n.key
    OBVIOUS
  <2>2. c = n
    BY <2>1, NodesAre
  <2>3. Entries(t)[n.key] = c.value
    BY <1>1
  <2> QED
    BY <2>2, <2>3
<1> QED
  BY <1>1, <1>2

\* The count is the size of the map.
LEMMA EntriesCount ==
    ASSUME NEW t, Sound(t)
    PROVE  /\ t.num_entries = Cardinality(DOMAIN Entries(t))
           /\ t.num_entries = 0 <=> Entries(t) = <<>>
           /\ t.num_entries \in Nat
<1> DEFINE S == NodesOf(t)
           K == DOMAIN Entries(t)
           f == [n \in S |-> n.key]
<1>1. IsFiniteSet(S) /\ t.num_entries = Cardinality(S) /\ t.num_entries \in Nat
  BY FS_CardinalityType DEF Sound
<1>2. K = {n.key : n \in S}
  BY EntriesAre
<1>3. f \in Bijection(S, K)
  <2>1. f \in [S -> K]
    BY <1>2
  <2>2. \A m, n \in S : f[m] = f[n] => m = n
    BY NodesAre
  <2>3. \A k \in K : \E n \in S : f[n] = k
    BY <1>2
  <2> HIDE DEF f, K, S
  <2>4. f \in Injection(S, K) /\ f \in Surjection(S, K)
    BY <2>1, <2>2, <2>3, Fun_IsInj, Fun_IsSurj
  <2> QED
    BY <2>4 DEF Bijection
<1>4. Cardinality(K) = Cardinality(S)
  <2>1. ExistsBijection(S, K)
    BY <1>3 DEF ExistsBijection
  <2> HIDE DEF K, S
  <2> QED
    BY <1>1, <2>1, FS_Bijection
<1>5. t.num_entries = 0 <=> S = {}
  BY <1>1, FS_EmptySet
<1>6. S = {} => Entries(t) = <<>>
  <2> SUFFICES ASSUME S = {} PROVE Entries(t) = <<>>
    OBVIOUS
  <2>1. Entries(t) = [k \in {} |-> Entries(t)[k]]
    BY EntriesAre
  <2> QED
    BY <2>1
<1>7. Entries(t) = <<>> => S = {}
  <2>1. Entries(t) = <<>> => K = {}
    OBVIOUS
  <2> QED
    BY <1>2, <2>1
<1> QED
  BY <1>1, <1>4, <1>5, <1>6, <1>7

LEMMA EntriesNone == Entries(NoTable) = <<>>
<1>1. Nodes(NoTable) = {}
  BY DEF Nodes, NoTable
<1>2. Entries(NoTable) = [k \in {} |-> (CHOOSE n \in {} : n.key = k).value]
  BY <1>1 DEF Entries
<1> QED
  BY <1>2

\* Rehashing does not change the map.
LEMMA SoundSpacious ==
    ASSUME NEW t, Sound(t)
    PROVE  Sound(Spacious(t)) /\ Entries(Spacious(t)) = Entries(t)
           /\ Spacious(t).num_entries = t.num_entries
<1>1. Sound(Spacious(t)) /\ NodesOf(Spacious(t)) = NodesOf(t)
  BY SoundRehashed DEF Spacious
<1>2. Nodes(Spacious(t)) = Nodes(t)
  BY <1>1, NodesAre
<1> QED
  BY <1>1, <1>2 DEF Entries, Sound

\* What operations look up and change, as the map has it.
LEMMA Looked ==
    ASSUME NEW t, Sound(t), NEW k \in Keys
    PROVE  /\ Has(t, k) <=> k \in DOMAIN Entries(t)
           /\ Has(t, k) => ValueAt(t, k) = Entries(t)[k]
           /\ Has(t, k) => /\ Held(t, k) \in NodesOf(t) /\ Held(t, k).key = k
                           /\ \A n \in NodesOf(t) : n # Held(t, k) => n.key # k
<1>1. Has(t, k) <=> k \in DOMAIN Entries(t)
  <2>1. Has(t, k) <=> \E n \in NodesOf(t) : n.key = k
    BY Found
  <2>2. DOMAIN Entries(t) = {n.key : n \in NodesOf(t)}
    BY EntriesAre
  <2> QED
    BY <2>1, <2>2
<1>2. ASSUME Has(t, k)
      PROVE  /\ ValueAt(t, k) = Entries(t)[k]
             /\ Held(t, k) \in NodesOf(t) /\ Held(t, k).key = k
             /\ \A n \in NodesOf(t) : n # Held(t, k) => n.key # k
  <2>1. Held(t, k) \in NodesOf(t) /\ Held(t, k).key = k
    BY <1>2, Found DEF Held
  <2>2. ValueAt(t, k) = Held(t, k).value
    BY DEF ValueAt, Held
  <2>3. ValueAt(t, k) = Entries(t)[k]
    BY <2>1, <2>2, EntriesAre
  <2> QED
    BY <2>1, <2>3, NodesAre
<1> QED
  BY <1>1, <1>2

\* The map with one more entry or another value, and without one.
Put(e, k, v) == [i \in DOMAIN e \cup {k} |-> IF i = k THEN v ELSE e[i]]
Drop(e, k) == [i \in DOMAIN e \ {k} |-> e[i]]

\* Two functions with the same arguments and values.
LEMMA Extensional ==
    ASSUME NEW D, NEW e, e = [i \in D |-> e[i]], NEW f, f = [i \in D |-> f[i]],
           \A i \in D : e[i] = f[i]
    PROVE  e = f
OBVIOUS

LEMMA EntriesPut ==
    ASSUME NEW t, Sound(t), NEW t2, Sound(t2), NEW k \in Keys, NEW v \in Values,
           NEW n, n = Node(k, v), NEW rest, NodesOf(t2) = rest \cup {n},
           rest = {m \in NodesOf(t) : m.key # k}
    PROVE  Entries(t2) = Put(Entries(t), k, v)
<1> DEFINE e == Entries(t)
           e2 == Entries(t2)
           f == Put(e, k, v)
           D == DOMAIN e \cup {k}
<1>1. n.key = k /\ n.value = v
  BY DEF Node
<1>2. /\ e2 = [i \in DOMAIN e2 |-> e2[i]] /\ DOMAIN e2 = {m.key : m \in rest \cup {n}}
      /\ \A m \in rest \cup {n} : e2[m.key] = m.value
  BY EntriesAre
<1>3. /\ DOMAIN e = {m.key : m \in NodesOf(t)} /\ \A m \in NodesOf(t) : e[m.key] = m.value
  BY EntriesAre
<1>4. DOMAIN e2 = D
  <2>1. \A i : i \in DOMAIN e2 <=> i = k \/ \E m \in rest : m.key = i
    BY <1>1, <1>2
  <2>2. \A i : i \in D <=> i = k \/ \E m \in rest : m.key = i
    BY <1>3
  <2> QED
    BY <2>1, <2>2
<1>5. f = [i \in D |-> f[i]] /\ \A i \in D : f[i] = IF i = k THEN v ELSE e[i]
  BY DEF Put
<1>6. \A i \in D : e2[i] = f[i]
  <2> TAKE i \in D
  <2>1. CASE i = k
    BY <1>1, <1>2, <1>5, <2>1
  <2>2. CASE i # k
    <3>1. PICK m \in NodesOf(t) : m.key = i
      BY <1>3, <2>2
    <3>2. e2[m.key] = m.value /\ e[m.key] = m.value
      BY <1>2, <1>3, <2>2, <3>1
    <3> QED
      BY <1>5, <2>2, <3>1, <3>2
  <2> QED
    BY <2>1, <2>2
<1> HIDE DEF e, e2, f, D
<1> QED
  BY <1>2, <1>4, <1>5, <1>6, Extensional DEF e, e2, f

LEMMA EntriesDrop ==
    ASSUME NEW t, Sound(t), NEW t2, Sound(t2), NEW k \in Keys,
           NodesOf(t2) = {m \in NodesOf(t) : m.key # k}
    PROVE  Entries(t2) = Drop(Entries(t), k)
<1> DEFINE e == Entries(t)
           e2 == Entries(t2)
           f == Drop(e, k)
           D == DOMAIN e \ {k}
<1>1. /\ e2 = [i \in DOMAIN e2 |-> e2[i]] /\ DOMAIN e2 = {m.key : m \in NodesOf(t2)}
      /\ \A m \in NodesOf(t2) : e2[m.key] = m.value
  BY EntriesAre
<1>2. /\ DOMAIN e = {m.key : m \in NodesOf(t)} /\ \A m \in NodesOf(t) : e[m.key] = m.value
  BY EntriesAre
<1>3. DOMAIN e2 = D
  BY <1>1, <1>2
<1>4. f = [i \in D |-> f[i]] /\ \A i \in D : f[i] = e[i]
  BY DEF Drop
<1>5. \A i \in D : e2[i] = f[i]
  <2> TAKE i \in D
  <2>1. PICK m \in NodesOf(t2) : m.key = i
    BY <1>1, <1>3
  <2>2. m \in NodesOf(t)
    OBVIOUS
  <2> QED
    BY <1>1, <1>2, <1>4, <2>1, <2>2
<1> HIDE DEF e, e2, f, D
<1> QED
  BY <1>1, <1>3, <1>4, <1>5, Extensional DEF e, e2, f

-----------------------------------------------------------------------------
(* What operations do to the map *)

LEMMA WithNodePuts ==
    ASSUME NEW t, Sound(t), NEW k \in Keys, NEW v \in Values, ~Has(t, k)
    PROVE  LET t2 == WithNode(t, k, v) IN
           /\ Sound(t2) /\ t2.num_entries = t.num_entries + 1
           /\ Entries(t2) = Put(Entries(t), k, v)
<1> DEFINE t2 == WithNode(t, k, v)
           n == Node(k, v)
           rest == {m \in NodesOf(t) : m.key # k}
<1>1. Sound(t2) /\ NodesOf(t2) = NodesOf(t) \cup {n}
  BY SoundWithNode
<1>2. rest = NodesOf(t)
  BY Found
<1>3. t2.num_entries = t.num_entries + 1
  BY DEF WithNode, Sound, IsTable
<1>4. n = Node(k, v) /\ NodesOf(t2) = rest \cup {n} /\ rest = {m \in NodesOf(t) : m.key # k}
  BY <1>1, <1>2
<1> HIDE DEF t2, n, rest
<1>5. Entries(t2) = Put(Entries(t), k, v)
  BY <1>1, <1>4, EntriesPut
<1> QED
  BY <1>1, <1>3, <1>5 DEF t2

LEMMA WithValuePuts ==
    ASSUME NEW t, Sound(t), NEW k \in Keys, NEW v \in Values, Has(t, k)
    PROVE  LET t2 == WithValue(t, k, v) IN
           /\ Sound(t2) /\ t2.num_entries = t.num_entries
           /\ Entries(t2) = Put(Entries(t), k, v)
<1> DEFINE t2 == WithValue(t, k, v)
           n == Node(k, v)
           rest == {m \in NodesOf(t) : m.key # k}
<1>1. Sound(t2) /\ NodesOf(t2) = (NodesOf(t) \ {Held(t, k)}) \cup {n}
  BY SoundWithValue
<1>2. rest = NodesOf(t) \ {Held(t, k)}
  BY Looked
<1>3. t2.num_entries = t.num_entries
  BY DEF WithValue, Sound, IsTable
<1>4. n = Node(k, v) /\ NodesOf(t2) = rest \cup {n} /\ rest = {m \in NodesOf(t) : m.key # k}
  BY <1>1, <1>2
<1> HIDE DEF t2, n, rest
<1>5. Entries(t2) = Put(Entries(t), k, v)
  BY <1>1, <1>4, EntriesPut
<1> QED
  BY <1>1, <1>3, <1>5 DEF t2

LEMMA WithoutNodeDrops ==
    ASSUME NEW t, Sound(t), NEW k \in Keys, Has(t, k)
    PROVE  LET t2 == WithoutNode(t, k) IN
           /\ Sound(t2) /\ t2.num_entries = t.num_entries - 1
           /\ Entries(t2) = Drop(Entries(t), k)
<1> DEFINE t2 == WithoutNode(t, k)
<1>1. Sound(t2) /\ NodesOf(t2) = NodesOf(t) \ {Held(t, k)}
  BY SoundWithoutNode
<1>2. NodesOf(t) \ {Held(t, k)} = {m \in NodesOf(t) : m.key # k}
  BY Looked
<1>3. t2.num_entries = t.num_entries - 1
  BY DEF WithoutNode, Sound, IsTable
<1>4. NodesOf(t2) = {m \in NodesOf(t) : m.key # k}
  BY <1>1, <1>2
<1> HIDE DEF t2
<1>5. Entries(t2) = Drop(Entries(t), k)
  BY <1>1, <1>4, EntriesDrop
<1> QED
  BY <1>1, <1>3, <1>5 DEF t2

-----------------------------------------------------------------------------
(* Steps of the table *)

TableInv == IF TableAlive THEN Sound(table) ELSE table = NoTable

\* The cardinality that the module of the map speaks of.
LEMMA SameCardinality == \A S : T!Cardinality(S) = Cardinality(S)
  BY DEF T!Cardinality, Cardinality

\* A step keeps the invariant and is a step of the map.
TableRefines == TableInv' /\ [T!Next]_(T!vars)

\* A table in use is one that is alive.
LEMMA SoundAlive == ASSUME NEW t, Sound(t) PROVE t.table_size > 0
  BY DEF Sound

\* An operation that does nothing but fail.
LEMMA FailRefines ==
    ASSUME TableInv, TableAlive, NEW t, Sound(t), Entries(t) = Entries(table),
           TableFails(t), NEW k \in Keys, NEW v \in Values
    PROVE  TableInv' /\ T!Insert(k, v) /\ T!Upsert(k, v) /\ TableAlive'
<1>1. table' = t /\ TableReturns(-1, Untouched)
  BY DEF TableFails
<1>2. TableAlive' /\ TableInv'
  BY <1>1, SoundAlive DEF TableAlive, TableInv
<1>3. T!OutOfMemory
  BY <1>1 DEF TableReturns, T!OutOfMemory, T!Returns
<1> QED
  BY <1>2, <1>3 DEF T!Insert, T!Upsert

LEMMA CreateTableRefines ==
    ASSUME TableInv, NEW allocated \in BOOLEAN, CreateTable(allocated)
    PROVE  TableRefines
<1>1. ~TableAlive /\ table = NoTable /\ Entries(table) = <<>>
  BY EntriesNone DEF CreateTable, TableInv
<1>2. CASE allocated
  <2>1. table' = NewTable /\ TableReturns(0, Untouched)
    BY <1>2 DEF CreateTable
  <2>2. TableAlive' /\ TableInv'
    BY <2>1, SoundNew DEF TableAlive, TableInv
  <2>3. Entries(NewTable) = <<>>
    <3>1. NewTable.num_entries = 0
      BY DEF NewTable
    <3> QED
      BY <3>1, SoundNew, EntriesCount
  <2>4. T!Create
    BY <1>1, <2>1, <2>2, <2>3 DEF T!Create, T!Returns, TableReturns
  <2> QED
    BY <2>2, <2>4 DEF TableRefines, T!Next
<1>3. CASE ~allocated
  <2>1. table' = table /\ TableReturns(-1, Untouched)
    BY <1>3 DEF CreateTable, TableFails
  <2>2. ~TableAlive' /\ TableInv'
    BY <1>1, <2>1 DEF TableAlive, TableInv
  <2>3. TableAlive' = FALSE /\ Entries(table') = Entries(table)
    BY <2>1, <2>2 DEF TableAlive
  <2>4. T!Returns(-1, Untouched)
    BY <2>1 DEF T!Returns, TableReturns
  <2>5. T!Create
    BY <1>1, <2>3, <2>4 DEF T!Create
  <2> QED
    BY <2>2, <2>5 DEF TableRefines, T!Next
<1> QED
  BY <1>2, <1>3

LEMMA DestroyTableRefines ==
    ASSUME TableInv, DestroyTable
    PROVE  TableRefines
<1>1. TableAlive /\ Sound(table) /\ table' = NoTable
  BY DEF DestroyTable, TableInv
<1>2. Len(NodesInOrder(table)) = Cardinality(DOMAIN Entries(table))
  BY <1>1, InOrder, OrderLength, EntriesCount DEF Sound
<1>3. TableReturns(Cardinality(DOMAIN Entries(table)), Untouched)
  BY <1>2 DEF DestroyTable
<1>4. ~TableAlive' /\ TableInv' /\ Entries(table') = <<>>
  BY <1>1, EntriesNone DEF TableAlive, TableInv, NoTable
<1>5. T!Returns(Cardinality(DOMAIN Entries(table)), Untouched)
  BY <1>3 DEF T!Returns, TableReturns
<1>6. TableAlive' = FALSE
  BY <1>4 DEF TableAlive
<1>7. T!Destroy
  BY <1>1, <1>4, <1>5, <1>6, SameCardinality DEF T!Destroy
<1> QED
  BY <1>4, <1>7 DEF TableRefines, T!Next

LEMMA InsertRefines ==
    ASSUME TableInv, NEW k \in Keys, NEW v \in Values, NEW room \in BOOLEAN,
           NEW allocated \in BOOLEAN, Insert(k, v, room, allocated)
    PROVE  TableInv' /\ TableAlive /\ TableAlive' /\ T!Insert(k, v)
<1> DEFINE t == Spacious(table)
<1>1. TableAlive /\ Sound(table)
  BY DEF Insert, TableInv
<1>2. Sound(t) /\ Entries(t) = Entries(table)
  BY <1>1, SoundSpacious
<1>3. CASE ~CanRehash(table, room)
  <2>1. TableFails(table)
    BY <1>3 DEF Insert
  <2> QED
    BY <1>1, <2>1, FailRefines
<1>4. CASE CanRehash(table, room) /\ (Has(t, k) \/ ~allocated)
  <2>1. TableFails(t)
    BY <1>4 DEF Insert
  <2> HIDE DEF t
  <2> QED
    BY <1>1, <1>2, <2>1, FailRefines
<1>5. CASE CanRehash(table, room) /\ ~Has(t, k) /\ allocated
  <2>1. table' = WithNode(t, k, v) /\ TableReturns(0, Untouched)
    BY <1>5 DEF Insert
  <2> HIDE DEF t
  <2>2. Sound(table') /\ Entries(table') = Put(Entries(table), k, v)
    BY <1>2, <1>5, <2>1, WithNodePuts
  <2>3. TableAlive' /\ TableInv'
    BY <2>2, SoundAlive DEF TableAlive, TableInv
  <2>4. ~T!Present(k)
    BY <1>2, <1>5, Looked DEF T!Present
  <2>5. T!Insert(k, v)
    BY <2>1, <2>2, <2>4 DEF T!Insert, T!With, T!Returns, TableReturns, Put
  <2> QED
    BY <1>1, <2>3, <2>5
<1> QED
  BY <1>3, <1>4, <1>5

LEMMA UpsertRefines ==
    ASSUME TableInv, NEW k \in Keys, NEW v \in Values, NEW room \in BOOLEAN,
           NEW allocated \in BOOLEAN, Upsert(k, v, room, allocated)
    PROVE  TableInv' /\ TableAlive /\ TableAlive' /\ T!Upsert(k, v)
<1> DEFINE t == Spacious(table)
<1>1. TableAlive /\ Sound(table)
  BY DEF Upsert, TableInv
<1>2. Sound(t) /\ Entries(t) = Entries(table)
  BY <1>1, SoundSpacious
<1>3. CASE ~CanRehash(table, room)
  <2>1. TableFails(table)
    BY <1>3 DEF Upsert
  <2> QED
    BY <1>1, <2>1, FailRefines
<1>4. CASE CanRehash(table, room) /\ Has(t, k)
  <2>1. table' = WithValue(t, k, v) /\ TableReturns(0, ValueAt(t, k))
    BY <1>4 DEF Upsert
  <2> HIDE DEF t
  <2>2. Sound(table') /\ Entries(table') = Put(Entries(table), k, v)
    BY <1>2, <1>4, <2>1, WithValuePuts
  <2>3. TableAlive' /\ TableInv'
    BY <2>2, SoundAlive DEF TableAlive, TableInv
  <2>4. T!Present(k) /\ ValueAt(t, k) = Entries(table)[k]
    BY <1>2, <1>4, Looked DEF T!Present
  <2>5. T!Upsert(k, v)
    BY <2>1, <2>2, <2>4 DEF T!Upsert, T!With, T!Returns, TableReturns, Put
  <2> QED
    BY <1>1, <2>3, <2>5
<1>5. CASE CanRehash(table, room) /\ ~Has(t, k) /\ ~allocated
  <2>1. TableFails(t)
    BY <1>5 DEF Upsert
  <2> HIDE DEF t
  <2> QED
    BY <1>1, <1>2, <2>1, FailRefines
<1>6. CASE CanRehash(table, room) /\ ~Has(t, k) /\ allocated
  <2>1. table' = WithNode(t, k, v) /\ TableReturns(1, Null)
    BY <1>6 DEF Upsert
  <2> HIDE DEF t
  <2>2. Sound(table') /\ Entries(table') = Put(Entries(table), k, v)
    BY <1>2, <1>6, <2>1, WithNodePuts
  <2>3. TableAlive' /\ TableInv'
    BY <2>2, SoundAlive DEF TableAlive, TableInv
  <2>4. ~T!Present(k)
    BY <1>2, <1>6, Looked DEF T!Present
  <2>5. T!Upsert(k, v)
    BY <2>1, <2>2, <2>4 DEF T!Upsert, T!With, T!Returns, TableReturns, Put
  <2> QED
    BY <1>1, <2>3, <2>5
<1> QED
  BY <1>3, <1>4, <1>5, <1>6

LEMMA UpdateRefines ==
    ASSUME TableInv, NEW k \in Keys, NEW v \in Values, Update(k, v)
    PROVE  TableInv' /\ TableAlive /\ TableAlive' /\ T!Update(k, v)
<1>1. TableAlive /\ Sound(table)
  BY DEF Update, TableInv
<1>2. CASE Has(table, k)
  <2>1. table' = WithValue(table, k, v) /\ TableReturns(0, ValueAt(table, k))
    BY <1>2 DEF Update
  <2>2. Sound(table') /\ Entries(table') = Put(Entries(table), k, v)
    BY <1>1, <1>2, <2>1, WithValuePuts
  <2>3. TableAlive' /\ TableInv'
    BY <2>2, SoundAlive DEF TableAlive, TableInv
  <2>4. T!Present(k) /\ ValueAt(table, k) = Entries(table)[k]
    BY <1>1, <1>2, Looked DEF T!Present
  <2>5. T!Update(k, v)
    BY <2>1, <2>2, <2>4 DEF T!Update, T!With, T!Returns, TableReturns, Put
  <2> QED
    BY <1>1, <2>3, <2>5
<1>3. CASE ~Has(table, k)
  <2>1. table' = table /\ TableReturns(-1, Null)
    BY <1>3 DEF Update
  <2>2. ~T!Present(k)
    BY <1>1, <1>3, Looked DEF T!Present
  <2>3. T!Update(k, v)
    BY <2>1, <2>2 DEF T!Update, T!Returns, TableReturns
  <2> QED
    BY <1>1, <2>1, <2>3 DEF TableInv, TableAlive
<1> QED
  BY <1>2, <1>3

LEMMA RemoveKeyRefines ==
    ASSUME TableInv, NEW k \in Keys, RemoveKey(k)
    PROVE  TableInv' /\ TableAlive /\ TableAlive' /\ T!Remove(k)
<1>1. TableAlive /\ Sound(table)
  BY DEF RemoveKey, TableInv
<1>2. CASE Has(table, k)
  <2>1. table' = WithoutNode(table, k) /\ TableReturns(0, Untouched)
    BY <1>2 DEF RemoveKey
  <2>2. Sound(table') /\ Entries(table') = Drop(Entries(table), k)
    BY <1>1, <1>2, <2>1, WithoutNodeDrops
  <2>3. TableAlive' /\ TableInv'
    BY <2>2, SoundAlive DEF TableAlive, TableInv
  <2>4. T!Present(k)
    BY <1>1, <1>2, Looked DEF T!Present
  <2>5. T!Remove(k)
    BY <2>1, <2>2, <2>4 DEF T!Remove, T!Without, T!Returns, TableReturns, Drop
  <2> QED
    BY <1>1, <2>3, <2>5
<1>3. CASE ~Has(table, k)
  <2>1. table' = table /\ TableReturns(-1, Untouched)
    BY <1>3 DEF RemoveKey, TableFails
  <2>2. ~T!Present(k)
    BY <1>1, <1>3, Looked DEF T!Present
  <2>3. T!Remove(k)
    BY <2>1, <2>2 DEF T!Remove, T!Returns, TableReturns
  <2> QED
    BY <1>1, <2>1, <2>3 DEF TableInv, TableAlive
<1> QED
  BY <1>2, <1>3

\* The operations that only look.
LEMMA LookRefines ==
    ASSUME TableInv, TableAlive, UNCHANGED table
    PROVE  /\ TableInv' /\ TableAlive'
           /\ \A k \in Keys : Get(k) => T!Get(k)
           /\ \A k \in Keys : Exists(k) => T!Exists(k)
           /\ IsEmptyTable => T!IsEmpty
           /\ CountEntries => T!Count
<1>1. TableInv' /\ TableAlive' /\ Entries(table') = Entries(table) /\ Sound(table)
  BY DEF TableInv, TableAlive
<1>2. \A k \in Keys : Get(k) => T!Get(k)
  <2> SUFFICES ASSUME NEW k \in Keys, Get(k) PROVE T!Get(k)
    OBVIOUS
  <2>1. Has(table, k) <=> T!Present(k)
    BY <1>1, Looked DEF T!Present
  <2>2. Has(table, k) => ValueAt(table, k) = Entries(table)[k]
    BY <1>1, Looked
  <2> QED
    BY <1>1, <2>1, <2>2 DEF Get, T!Get, T!Returns, TableReturns
<1>3. \A k \in Keys : Exists(k) => T!Exists(k)
  <2> SUFFICES ASSUME NEW k \in Keys, Exists(k) PROVE T!Exists(k)
    OBVIOUS
  <2>1. Has(table, k) <=> T!Present(k)
    BY <1>1, Looked DEF T!Present
  <2> QED
    BY <1>1, <2>1 DEF Exists, T!Exists, T!Returns, TableReturns
<1>4. IsEmptyTable => T!IsEmpty
  <2>1. table.num_entries = 0 <=> Entries(table) = <<>>
    BY <1>1, EntriesCount
  <2> QED
    BY <1>1, <2>1 DEF IsEmptyTable, T!IsEmpty, T!Returns, TableReturns
<1>5. CountEntries => T!Count
  <2>1. table.num_entries = Cardinality(DOMAIN Entries(table))
    BY <1>1, EntriesCount
  <2> QED
    BY <1>1, <2>1, SameCardinality DEF CountEntries, T!Count, T!Returns, TableReturns
<1> QED
  BY <1>1, <1>2, <1>3, <1>4, <1>5

LEMMA TableStepRefines ==
    ASSUME TableInv, [TableNext]_tableVars
    PROVE  TableRefines
<1>1. ASSUME TableInv', T!Use PROVE TableRefines
  BY <1>1 DEF TableRefines, T!Next
<1>2. CASE \E allocated \in BOOLEAN : CreateTable(allocated)
  BY <1>2, CreateTableRefines
<1>3. CASE DestroyTable
  BY <1>3, DestroyTableRefines
<1>4. ASSUME NEW k \in Keys, NEW v \in Values, NEW room \in BOOLEAN, NEW allocated \in BOOLEAN,
             Insert(k, v, room, allocated)
      PROVE  TableRefines
  <2>1. TableInv' /\ TableAlive /\ TableAlive' /\ T!Insert(k, v)
    BY <1>4, InsertRefines
  <2> QED
    BY <1>1, <2>1 DEF T!Use
<1>5. ASSUME NEW k \in Keys, NEW v \in Values, NEW room \in BOOLEAN, NEW allocated \in BOOLEAN,
             Upsert(k, v, room, allocated)
      PROVE  TableRefines
  <2>1. TableInv' /\ TableAlive /\ TableAlive' /\ T!Upsert(k, v)
    BY <1>5, UpsertRefines
  <2> QED
    BY <1>1, <2>1 DEF T!Use
<1>6. ASSUME NEW k \in Keys, NEW v \in Values, Update(k, v) PROVE TableRefines
  <2>1. TableInv' /\ TableAlive /\ TableAlive' /\ T!Update(k, v)
    BY <1>6, UpdateRefines
  <2> QED
    BY <1>1, <2>1 DEF T!Use
<1>7. ASSUME NEW k \in Keys, RemoveKey(k) PROVE TableRefines
  <2>1. TableInv' /\ TableAlive /\ TableAlive' /\ T!Remove(k)
    BY <1>7, RemoveKeyRefines
  <2> QED
    BY <1>1, <2>1 DEF T!Use
<1>8. ASSUME NEW k \in Keys, Get(k) \/ Exists(k) PROVE TableRefines
  <2>1. TableAlive /\ UNCHANGED table
    BY <1>8 DEF Get, Exists
  <2>2. TableInv' /\ TableAlive' /\ (T!Get(k) \/ T!Exists(k))
    BY <1>8, <2>1, LookRefines
  <2> QED
    BY <1>1, <2>1, <2>2 DEF T!Use
<1>9. CASE IsEmptyTable \/ CountEntries
  <2>1. TableAlive /\ UNCHANGED table
    BY <1>9 DEF IsEmptyTable, CountEntries
  <2>2. TableInv' /\ TableAlive' /\ (T!IsEmpty \/ T!Count)
    BY <1>9, <2>1, LookRefines
  <2> QED
    BY <1>1, <2>1, <2>2 DEF T!Use
<1>10. CASE UNCHANGED tableVars
  <2>1. table' = table /\ table_answer' = table_answer
    BY <1>10 DEF tableVars
  <2> QED
    BY <2>1 DEF TableRefines, TableInv, TableAlive, T!vars
<1> QED
  BY <1>2, <1>3, <1>4, <1>5, <1>6, <1>7, <1>8, <1>9, <1>10 DEF TableNext

LEMMA TableInitRefines ==
    ASSUME TableInit
    PROVE  TableInv /\ T!Init
  BY EntriesNone DEF TableInit, TableInv, TableAlive, NoTable, T!Init

-----------------------------------------------------------------------------
(* The region *)

\* A step of the deque takes and gives back what the deque owns.
LEMMA DequeOwns ==
    ASSUME DequeInv, DequeNext, blocks \in Int
    PROVE  blocks' = blocks + DequeBlocks' - DequeBlocks
<1>1. ASSUME NEW allocated \in BOOLEAN, CreateDeque(allocated)
      PROVE  blocks' = blocks + DequeBlocks' - DequeBlocks
  <2>1. NewDeque # NoDeque
    BY NewDequeContents, WellFormedAlive
  <2>2. ~Alive
    BY <1>1 DEF CreateDeque
  <2>3. CASE allocated
    <3>1. Alive' /\ blocks' = blocks + 2
      BY <1>1, <2>1, <2>3 DEF CreateDeque, Alive, Allocate
    <3> QED
      BY <2>2, <3>1 DEF DequeBlocks
  <2>4. CASE ~allocated
    <3>1. ~Alive' /\ blocks' = blocks
      BY <1>1, <2>2, <2>4 DEF CreateDeque, Alive, NoAllocation
    <3> QED
      BY <2>2, <3>1 DEF DequeBlocks
  <2> QED
    BY <2>3, <2>4
<1>2. CASE DestroyDeque
  <2>1. Alive /\ ~Alive' /\ blocks' = blocks - 2
    BY <1>2 DEF DestroyDeque, Alive, Free
  <2> QED
    BY <2>1 DEF DequeBlocks
<1>3. ASSUME Alive, deque' # NoDeque, NoAllocation
      PROVE  blocks' = blocks + DequeBlocks' - DequeBlocks
  <2>1. Alive' /\ blocks' = blocks
    BY <1>3 DEF Alive, NoAllocation
  <2> QED
    BY <1>3, <2>1 DEF DequeBlocks
<1>4. ASSUME NEW j \in Elements, NEW allocated \in BOOLEAN, EnqueueForward(j, allocated)
      PROVE  Alive /\ deque' # NoDeque /\ NoAllocation
  <2>1. Alive /\ WellFormed(deque) /\ NoAllocation
    BY <1>4 DEF EnqueueForward, DequeInv
  <2>2. WellFormed(PutForward(Roomy(deque), j))
    BY <2>1, RoomyContents, PutForwardContents
  <2>3. deque' = PutForward(Roomy(deque), j) \/ deque' = deque
    BY <1>4 DEF EnqueueForward
  <2> QED
    BY <2>1, <2>2, <2>3, WellFormedAlive
<1>5. ASSUME NEW j \in Elements, NEW allocated \in BOOLEAN, EnqueueBack(j, allocated)
      PROVE  Alive /\ deque' # NoDeque /\ NoAllocation
  <2>1. Alive /\ WellFormed(deque) /\ NoAllocation
    BY <1>5 DEF EnqueueBack, DequeInv
  <2>2. WellFormed(PutBack(Roomy(deque), j))
    BY <2>1, RoomyContents, PutBackContents
  <2>3. deque' = PutBack(Roomy(deque), j) \/ deque' = deque
    BY <1>5 DEF EnqueueBack
  <2> QED
    BY <2>1, <2>2, <2>3, WellFormedAlive
<1>6. ASSUME DequeueForward PROVE Alive /\ deque' # NoDeque /\ NoAllocation
  <2>1. Alive /\ WellFormed(deque) /\ NoAllocation
    BY <1>6 DEF DequeueForward, DequeInv
  <2>2. ~IsEmpty(deque) => WellFormed(TakeForward(deque))
    BY <2>1, TakeForwardContents
  <2>3. (~IsEmpty(deque) /\ deque' = TakeForward(deque)) \/ deque' = deque
    BY <1>6 DEF DequeueForward
  <2> QED
    BY <2>1, <2>2, <2>3, WellFormedAlive
<1>7. ASSUME DequeueBack PROVE Alive /\ deque' # NoDeque /\ NoAllocation
  <2>1. Alive /\ WellFormed(deque) /\ NoAllocation
    BY <1>7 DEF DequeueBack, DequeInv
  <2>2. ~IsEmpty(deque) => WellFormed(TakeBack(deque))
    BY <2>1, TakeBackContents
  <2>3. (~IsEmpty(deque) /\ deque' = TakeBack(deque)) \/ deque' = deque
    BY <1>7 DEF DequeueBack
  <2> QED
    BY <2>1, <2>2, <2>3, WellFormedAlive
<1> QED
  BY <1>1, <1>2, <1>3, <1>4, <1>5, <1>6, <1>7 DEF DequeNext

\* A table in use owns its two blocks and its nodes.
LEMMA SoundBlocks ==
    ASSUME NEW t, Sound(t)
    PROVE  t.num_entries \in Nat /\ (table' = t => TableBlocks' = 2 + t.num_entries)
  BY EntriesCount, SoundAlive DEF TableBlocks, TableAlive

\* A step of the table takes and gives back what the table owns.
LEMMA TableOwns ==
    ASSUME TableInv, TableNext, blocks \in Int
    PROVE  blocks' = blocks + TableBlocks' - TableBlocks
<1> DEFINE Owned == blocks' = blocks + TableBlocks' - TableBlocks
           spacious == Spacious(table)
<1>1. TableAlive => Sound(table) /\ TableBlocks = 2 + table.num_entries /\ table.num_entries \in Nat
  BY EntriesCount DEF TableInv, TableBlocks
<1>2. TableAlive => Sound(spacious) /\ spacious.num_entries = table.num_entries
  BY <1>1, SoundSpacious
\* The four ways in which an operation ends that needs a table.
<1>3. ASSUME TableAlive, NEW t, Sound(t), t.num_entries = table.num_entries,
             table' = t, NoAllocation
      PROVE  Owned
  <2>1. TableBlocks' = 2 + table.num_entries /\ blocks' = blocks
    BY <1>3, SoundBlocks DEF NoAllocation
  <2> QED
    BY <1>1, <1>3, <2>1
<1>4. ASSUME TableAlive, NEW t, Sound(t), t.num_entries = table.num_entries + 1,
             table' = t, Allocate(1)
      PROVE  Owned
  <2>1. TableBlocks' = 2 + (table.num_entries + 1) /\ blocks' = blocks + 1
    BY <1>4, SoundBlocks DEF Allocate
  <2> QED
    BY <1>1, <1>4, <2>1
<1>5. ASSUME TableAlive, NEW t, Sound(t), t.num_entries = table.num_entries - 1,
             table' = t, Free(1)
      PROVE  Owned
  <2>1. TableBlocks' = 2 + (table.num_entries - 1) /\ blocks' = blocks - 1
    BY <1>5, SoundBlocks DEF Free
  <2> QED
    BY <1>1, <1>5, <2>1
<1>6. ASSUME TableAlive, TableFails(table) \/ TableFails(spacious) PROVE Owned
  BY <1>1, <1>2, <1>3, <1>6 DEF TableFails
<1>7. ASSUME TableAlive, NEW k \in Keys, NEW v \in Values, ~Has(spacious, k),
             table' = WithNode(spacious, k, v), Allocate(1)
      PROVE  Owned
  <2>1. Sound(table') /\ table'.num_entries = table.num_entries + 1
    <3> HIDE DEF spacious
    <3> QED
      BY <1>2, <1>7, WithNodePuts
  <2> QED
    BY <1>4, <1>7, <2>1
<1>8. ASSUME TableAlive, NEW k \in Keys, NEW v \in Values, NEW t, Sound(t),
             t.num_entries = table.num_entries, Has(t, k),
             table' = WithValue(t, k, v), NoAllocation
      PROVE  Owned
  <2>1. Sound(table') /\ table'.num_entries = table.num_entries
    BY <1>8, WithValuePuts
  <2> QED
    BY <1>3, <1>8, <2>1
<1>9. ASSUME NEW allocated \in BOOLEAN, CreateTable(allocated) PROVE Owned
  <2>1. ~TableAlive /\ TableBlocks = 0
    BY <1>9 DEF CreateTable, TableBlocks
  <2>2. CASE allocated
    <3>1. table' = NewTable /\ blocks' = blocks + 2
      BY <1>9, <2>2 DEF CreateTable, Allocate
    <3>2. NewTable.num_entries = 0
      BY DEF NewTable
    <3>3. TableBlocks' = 2 + 0
      BY <3>1, <3>2, SoundNew, SoundBlocks
    <3> QED
      BY <2>1, <3>1, <3>3
  <2>3. CASE ~allocated
    <3>1. table' = table /\ blocks' = blocks
      BY <1>9, <2>3 DEF CreateTable, TableFails, NoAllocation
    <3>2. TableBlocks' = 0
      BY <2>1, <3>1 DEF TableBlocks, TableAlive
    <3> QED
      BY <2>1, <3>1, <3>2
  <2> QED
    BY <2>2, <2>3
<1>10. ASSUME DestroyTable PROVE Owned
  <2> DEFINE left == Len(NodesInOrder(table))
  <2>1. TableAlive /\ table' = NoTable /\ blocks' = blocks - (left + 2)
    BY <1>10 DEF DestroyTable, Free
  <2>2. left = table.num_entries
    BY <1>1, <2>1, InOrder, OrderLength DEF Sound
  <2>3. TableBlocks' = 0
    BY <2>1 DEF TableBlocks, TableAlive, NoTable
  <2> HIDE DEF left
  <2> QED
    BY <1>1, <2>1, <2>2, <2>3
<1> HIDE DEF Owned, spacious
<1>11. ASSUME NEW k \in Keys, NEW v \in Values, NEW room \in BOOLEAN, NEW allocated \in BOOLEAN,
              Insert(k, v, room, allocated)
       PROVE  Owned
  <2>1. TableAlive
    BY <1>11 DEF Insert
  <2>2. \/ TableFails(table) \/ TableFails(spacious)
        \/ ~Has(spacious, k) /\ table' = WithNode(spacious, k, v) /\ Allocate(1)
    BY <1>11 DEF Insert, spacious
  <2> QED
    BY <1>6, <1>7, <2>1, <2>2
<1>12. ASSUME NEW k \in Keys, NEW v \in Values, NEW room \in BOOLEAN, NEW allocated \in BOOLEAN,
              Upsert(k, v, room, allocated)
       PROVE  Owned
  <2>1. TableAlive
    BY <1>12 DEF Upsert
  <2>2. \/ TableFails(table) \/ TableFails(spacious)
        \/ Has(spacious, k) /\ table' = WithValue(spacious, k, v) /\ NoAllocation
        \/ ~Has(spacious, k) /\ table' = WithNode(spacious, k, v) /\ Allocate(1)
    BY <1>12 DEF Upsert, spacious
  <2> QED
    BY <1>2, <1>6, <1>7, <1>8, <2>1, <2>2
<1>13. ASSUME NEW k \in Keys, NEW v \in Values, Update(k, v) PROVE Owned
  <2>1. TableAlive /\ NoAllocation
    BY <1>13 DEF Update
  <2>2. \/ Has(table, k) /\ table' = WithValue(table, k, v)
        \/ table' = table
    BY <1>13 DEF Update
  <2> QED
    BY <1>1, <1>3, <1>8, <2>1, <2>2
<1>14. ASSUME NEW k \in Keys, RemoveKey(k) PROVE Owned
  <2>1. TableAlive
    BY <1>14 DEF RemoveKey
  <2>2. CASE Has(table, k)
    <3>1. table' = WithoutNode(table, k) /\ Free(1)
      BY <1>14, <2>2 DEF RemoveKey
    <3>2. Sound(table') /\ table'.num_entries = table.num_entries - 1
      BY <1>1, <2>1, <2>2, <3>1, WithoutNodeDrops
    <3> QED
      BY <1>5, <2>1, <3>1, <3>2
  <2>3. CASE ~Has(table, k)
    <3>1. TableFails(table)
      BY <1>14, <2>3 DEF RemoveKey
    <3> QED
      BY <1>6, <2>1, <3>1
  <2> QED
    BY <2>2, <2>3
<1>15. ASSUME NEW k \in Keys, Get(k) \/ Exists(k) PROVE Owned
  <2>1. TableAlive /\ table' = table /\ NoAllocation
    BY <1>15 DEF Get, Exists
  <2> QED
    BY <1>1, <1>3, <2>1
<1>16. ASSUME IsEmptyTable \/ CountEntries PROVE Owned
  <2>1. TableAlive /\ table' = table /\ NoAllocation
    BY <1>16 DEF IsEmptyTable, CountEntries
  <2> QED
    BY <1>1, <1>3, <2>1
<1>17. Owned
  BY <1>9, <1>10, <1>11, <1>12, <1>13, <1>14, <1>15, <1>16 DEF TableNext
<1> QED
  BY <1>17 DEF Owned

-----------------------------------------------------------------------------
(* Both containers *)

Inv ==
    /\ DequeInv
    /\ TableInv
    /\ BlocksOwned

LEMMA InvInit == ASSUME Init PROVE Inv
<1>1. DequeInv /\ TableInv
  BY DequeInitRefines, TableInitRefines DEF Init
<1>2. ~Alive /\ ~TableAlive /\ blocks = 0
  BY DEF Init, DequeInit, TableInit, Alive, TableAlive, NoTable
<1> QED
  BY <1>1, <1>2 DEF Inv, BlocksOwned, DequeBlocks, TableBlocks

LEMMA InvStep == ASSUME Inv, [Next]_vars PROVE Inv'
<1> USE DEF Inv
<1>1. DequeBlocks \in Int /\ TableBlocks \in Int /\ blocks \in Int
  BY EntriesCount DEF BlocksOwned, DequeBlocks, TableBlocks, TableInv
<1>2. CASE DequeNext /\ UNCHANGED tableVars
  <2>1. DequeInv'
    BY <1>2, DequeStepRefines DEF DequeRefines
  <2>2. TableInv' /\ TableBlocks' = TableBlocks
    BY <1>2 DEF tableVars, TableInv, TableAlive, TableBlocks
  <2>3. blocks' = blocks + DequeBlocks' - DequeBlocks
    BY <1>1, <1>2, DequeOwns
  <2>4. DequeBlocks' \in Int
    BY DEF DequeBlocks
  <2> QED
    BY <1>1, <2>1, <2>2, <2>3, <2>4 DEF BlocksOwned
<1>3. CASE TableNext /\ UNCHANGED dequeVars
  <2>1. TableInv'
    BY <1>3, TableStepRefines DEF TableRefines
  <2>2. DequeInv' /\ DequeBlocks' = DequeBlocks
    BY <1>3 DEF dequeVars, DequeInv, Alive, DequeBlocks
  <2>3. blocks' = blocks + TableBlocks' - TableBlocks
    BY <1>1, <1>3, TableOwns
  <2>4. TableBlocks' \in Int
    BY <2>1, EntriesCount DEF TableBlocks, TableInv
  <2> QED
    BY <1>1, <2>1, <2>2, <2>3, <2>4 DEF BlocksOwned
<1>4. CASE UNCHANGED vars
  BY <1>4 DEF vars, DequeInv, TableInv, Alive, TableAlive, BlocksOwned, DequeBlocks, TableBlocks
<1> QED
  BY <1>2, <1>3, <1>4 DEF Next

\* Neither container disturbs the other.
LEMMA StepOfBoth ==
    ASSUME [Next]_vars
    PROVE  [DequeNext]_dequeVars /\ [TableNext]_tableVars
  BY DEF Next, vars, dequeVars, tableVars

(***************************************************************************)
(* The indices stay inside the buffer, every slot between them holds a     *)
(* job, and what is returned is a job or NULL: no slot is handed out that  *)
(* was cleared or that nobody wrote (deque.c:66-197).                      *)
(***************************************************************************)
THEOREM IndicesStayInside == DequeSpec => []DequeTypeOK
<1>1. DequeInv => DequeTypeOK
  BY DEF DequeInv, DequeAnswers, WellFormed, DequeTypeOK, Alive
<1>2. DequeInv /\ [DequeNext]_dequeVars => DequeInv'
  BY DequeStepRefines DEF DequeRefines
<1> QED BY <1>1, <1>2, DequeInitRefines, PTL DEF DequeSpec

(***************************************************************************)
(* The ring buffer of deque.c is a sequence of jobs: whatever its size,    *)
(* however often it has wrapped round and grown, and whichever allocations *)
(* fail, every call does and returns what JobQueue says.                   *)
(***************************************************************************)
THEOREM RingBufferIsQueue == DequeSpec => ImplementsJobQueue
<1>1. DequeInv /\ [DequeNext]_dequeVars => DequeInv' /\ [Q!Next]_(Q!vars)
  BY DequeStepRefines DEF DequeRefines
<1> QED BY <1>1, DequeInitRefines, PTL DEF DequeSpec, ImplementsJobQueue, Q!Spec

(***************************************************************************)
(* The table of hash_table.c is a partial map: whatever keys collide,      *)
(* however often the nodes have been relinked into a larger table, and     *)
(* whichever allocations fail, every call does and returns what            *)
(* PromiseTable says, and destruction reports the entries that were left.  *)
(***************************************************************************)
THEOREM TableIsMap == TableSpec => ImplementsPromiseTable
<1>1. TableInv /\ [TableNext]_tableVars => TableInv' /\ [T!Next]_(T!vars)
  BY TableStepRefines DEF TableRefines
<1> QED BY <1>1, TableInitRefines, PTL DEF TableSpec, ImplementsPromiseTable, T!Spec

(***************************************************************************)
(* Side by side in one region each container keeps its promise             *)
(* (context.c:72, executor.c:355).                                         *)
(***************************************************************************)
THEOREM ContainersKeepPromises == Spec => ImplementsJobQueue /\ ImplementsPromiseTable
<1>1. Spec => DequeSpec /\ TableSpec
  <2>1. Init => DequeInit /\ TableInit
    BY DEF Init
  <2> QED BY <2>1, StepOfBoth, PTL DEF Spec, DequeSpec, TableSpec
<1> QED BY <1>1, RingBufferIsQueue, TableIsMap

(***************************************************************************)
(* No block of the region is leaked or freed twice: what is in use is what *)
(* the deque and the table own, after every growth, every rehashing, every *)
(* failed allocation, and after a destruction that finds entries           *)
(* (deque.c:45, hash_table.c:90-129, :229).                                *)
(***************************************************************************)
THEOREM BlocksStayOwned == Spec => []BlocksOwned
<1>1. Inv => BlocksOwned
  BY DEF Inv
<1> QED BY <1>1, InvInit, InvStep, PTL DEF Spec
==============================================================================
