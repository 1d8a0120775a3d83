--------------------------- MODULE AlarmHistory_proofs ---------------------------
(* Proofs about AlarmHistory, for every size of the ring, every width of the *)
(* counters and every timing of the connector.                               *)
EXTENDS AlarmHistory, SequenceTheorems, TLAPS

------------------------------------------------------------------------------
(* Arithmetic of the wrapping counters.                                      *)


LEMMA SmallMod ==
  ASSUME NEW m \in Nat \ {0}, NEW a \in Int, -m <= a, a < m
  PROVE  a % m = IF a >= 0 THEN a ELSE a + m
OBVIOUS

LEMMA DivMod ==
  ASSUME NEW m \in Nat \ {0}, NEW a \in Nat
  PROVE  a \div m \in Nat /\ a % m \in 0..m-1 /\ a = (m * (a \div m)) + (a % m)
OBVIOUS

LEMMA DivModUnique ==
  ASSUME NEW m \in Nat \ {0}, NEW q \in Nat, NEW r \in 0..m-1
  PROVE  ((m * q) + r) \div m = q /\ ((m * q) + r) % m = r
OBVIOUS

LEMMA Carry ==
  ASSUME NEW m \in Nat \ {0}, NEW q \in Nat, NEW r \in 0..m-1, NEW a, a = (m * q) + r
  PROVE  /\ r + 1 < m => a + 1 = (m * q) + (r + 1) /\ r + 1 \in 0..m-1
         /\ ~(r + 1 < m) => a + 1 = (m * (q + 1)) + 0 /\ 0 \in 0..m-1 /\ q + 1 \in Nat
OBVIOUS

LEMMA DivStep ==
  ASSUME NEW m \in Nat \ {0}, NEW a \in Nat
  PROVE  /\ (a % m) + 1 < m => (a + 1) \div m = a \div m /\ (a + 1) % m = (a % m) + 1
         /\ ~((a % m) + 1 < m) => (a + 1) \div m = (a \div m) + 1 /\ (a + 1) % m = 0
<1> DEFINE q == a \div m
           r == a % m
<1>1. q \in Nat /\ r \in 0..m-1 /\ a = (m * q) + r
  BY DivMod
<1> SUFFICES /\ r + 1 < m => (a + 1) \div m = q /\ (a + 1) % m = r + 1
             /\ ~(r + 1 < m) => (a + 1) \div m = q + 1 /\ (a + 1) % m = 0
  OBVIOUS
<1> HIDE DEF q, r
<1>2. ASSUME r + 1 < m
      PROVE  (a + 1) \div m = q /\ (a + 1) % m = r + 1
  <2>1. a + 1 = (m * q) + (r + 1) /\ r + 1 \in 0..m-1
    BY <1>1, <1>2, Carry
  <2>2. ((m * q) + (r + 1)) \div m = q /\ ((m * q) + (r + 1)) % m = r + 1
    BY <1>1, <2>1, DivModUnique
  <2> QED BY <2>1, <2>2, Zenon
<1>3. ASSUME ~(r + 1 < m)
      PROVE  (a + 1) \div m = q + 1 /\ (a + 1) % m = 0
  <2>1. a + 1 = (m * (q + 1)) + 0 /\ 0 \in 0..m-1 /\ q + 1 \in Nat
    BY <1>1, <1>3, Carry
  <2>2. ((m * (q + 1)) + 0) \div m = q + 1 /\ ((m * (q + 1)) + 0) % m = 0
    BY <2>1, DivModUnique
  <2> QED BY <2>1, <2>2, Zenon
<1> QED BY <1>2, <1>3

LEMMA WrapMod ==
  ASSUME NEW m \in Nat \ {0}, NEW r \in 0..m-1
  PROVE  (r + 1) % m = IF r + 1 < m THEN r + 1 ELSE 0
OBVIOUS

LEMMA NextMod ==
  ASSUME NEW m \in Nat \ {0}, NEW a \in Nat
  PROVE  ((a % m) + 1) % m = (a + 1) % m
<1>1. a % m \in 0..m-1
  BY DivMod
<1>2. ((a % m) + 1) % m = IF (a % m) + 1 < m THEN (a % m) + 1 ELSE 0
  BY <1>1, WrapMod
<1>3. (a + 1) % m = IF (a % m) + 1 < m THEN (a % m) + 1 ELSE 0
  BY DivStep, Zenon
<1> QED BY <1>2, <1>3, Zenon

------------------------------------------------------------------------------
(* The ring buffer: an append is an append to the abstract log.              *)

Stored == Events \cup {"NO_EVENT"}

Short(events) == events = <<>> \/ \E e \in Events : events = <<e>>

LEMMA AppendType ==
  ASSUME NEW t \in Timeline, NEW e \in Events
  PROVE  AppendEvent(t, e) \in Timeline
<1> DEFINE number == IF t.udiNextSequence = 0 THEN 1 ELSE t.udiNextSequence
           record == [event |-> e, udiSequence |-> number]
<1>1. number \in 1..SequenceModulus - 1
  BY TimelineAssumption DEF Timeline
<1>2. record \in Record
  BY <1>1 DEF Record
<1>3. (record.udiSequence + 1) % SequenceModulus \in 0..SequenceModulus - 1
  <2>1. record.udiSequence + 1 \in Nat /\ SequenceModulus \in Nat \ {0}
    BY <1>1, TimelineAssumption
  <2> QED BY <2>1, DivMod, Zenon
<1>4. t.iWriteIndex \in 1..Capacity /\ t.iCount \in 0..Capacity
  BY DEF Timeline
<1>5. (IF t.iWriteIndex >= Capacity THEN 1 ELSE t.iWriteIndex + 1) \in 1..Capacity
  BY <1>4, TimelineAssumption
<1>6. (IF t.iCount < Capacity THEN t.iCount + 1 ELSE t.iCount) \in 0..Capacity
  BY <1>4, TimelineAssumption
<1>7. [t.arrEvents EXCEPT ![t.iWriteIndex] = record] \in [1..Capacity -> Record]
  BY <1>2 DEF Timeline
<1> QED BY <1>2, <1>3, <1>5, <1>6, <1>7, Zenon DEF AppendEvent, Timeline

\* The slot that holds the i-th of n events when w is the next to be written.
Slot(w, n, i) == ((w - 1 - n + i - 1) % Capacity) + 1

LEMMA SlotValue ==
  ASSUME NEW w \in 1..Capacity, NEW n \in 0..Capacity, NEW i \in 1..n
  PROVE  Slot(w, n, i) = IF w - 1 - n + i - 1 >= 0 THEN w - 1 - n + i
                         ELSE w - 1 - n + i + Capacity
<1>1. w - 1 - n + i - 1 \in Int /\ -Capacity <= w - 1 - n + i - 1 /\ w - 1 - n + i - 1 < Capacity
  BY TimelineAssumption
<1> DEFINE d == w - 1 - n + i - 1
<1>2. d % Capacity = IF d >= 0 THEN d ELSE d + Capacity
  BY <1>1, SmallMod, TimelineAssumption
<1>3. d \in Int /\ d + 1 = w - 1 - n + i
  BY TimelineAssumption
<1>4. Slot(w, n, i) = (d % Capacity) + 1
  BY DEF Slot
<1> HIDE DEF d
<1>5. Slot(w, n, i) = IF d >= 0 THEN d + 1 ELSE d + 1 + Capacity
  BY <1>2, <1>3, <1>4, TimelineAssumption
<1> QED BY <1>3, <1>5 DEF d

LEMMA ContentsType ==
  ASSUME NEW t \in Timeline
  PROVE  /\ Contents(t) \in Seq(Stored)
         /\ Len(Contents(t)) = t.iCount
         /\ \A i \in 1..t.iCount :
              Contents(t)[i] = t.arrEvents[Slot(t.iWriteIndex, t.iCount, i)].event
<1>1. t.iWriteIndex \in 1..Capacity /\ t.iCount \in 0..Capacity
  BY DEF Timeline
<1>2. ASSUME NEW i \in 1..t.iCount
      PROVE  t.arrEvents[Slot(t.iWriteIndex, t.iCount, i)].event \in Stored
  <2>1. Slot(t.iWriteIndex, t.iCount, i) \in 1..Capacity
    <3>1. Slot(t.iWriteIndex, t.iCount, i)
            = IF t.iWriteIndex - 1 - t.iCount + i - 1 >= 0
              THEN t.iWriteIndex - 1 - t.iCount + i
              ELSE t.iWriteIndex - 1 - t.iCount + i + Capacity
      BY <1>1, SlotValue
    <3> QED BY <1>1, <3>1, TimelineAssumption
  <2>2. t.arrEvents[Slot(t.iWriteIndex, t.iCount, i)] \in Record
    BY <2>1 DEF Timeline
  <2> QED BY <2>2 DEF Record, NoEvent, Stored
<1>3. Contents(t) = [i \in 1..t.iCount |->
                       t.arrEvents[Slot(t.iWriteIndex, t.iCount, i)].event]
  BY DEF Contents, Slot
<1>4. t.iCount \in Nat
  BY <1>1, TimelineAssumption
<1>5. Contents(t) \in [1..t.iCount -> Stored]
  BY <1>2, <1>3
<1>6. Contents(t) \in Seq(Stored)
  BY <1>4, <1>5
<1>7. Len(Contents(t)) = t.iCount
  BY <1>4, <1>5, <1>6, LenProperties
<1> QED BY <1>3, <1>6, <1>7

LEMMA LatestProperties ==
  ASSUME NEW S, NEW s \in Seq(S)
  PROVE  /\ Log!Latest(s) \in Seq(S)
         /\ Len(Log!Latest(s)) = IF Len(s) <= Capacity THEN Len(s) ELSE Capacity
         /\ \A i \in 1..Len(Log!Latest(s)) :
              Log!Latest(s)[i] = IF Len(s) <= Capacity THEN s[i]
                                 ELSE s[Len(s) - Capacity + i]
<1>1. Len(s) \in Nat /\ \A i \in 1..Len(s) : s[i] \in S
  BY ElementOfSeq, LenProperties
<1>2. CASE Len(s) <= Capacity
  BY <1>1, <1>2 DEF Log!Latest
<1>3. CASE ~(Len(s) <= Capacity)
  <2>1. Log!Latest(s) = SubSeq(s, Len(s) - Capacity + 1, Len(s))
    BY <1>3 DEF Log!Latest
  <2>2. \A i \in (Len(s) - Capacity + 1)..Len(s) : s[i] \in S
    BY <1>1, <1>3, TimelineAssumption
  <2>3. /\ Log!Latest(s) \in Seq(S)
        /\ Len(Log!Latest(s)) = IF Len(s) - Capacity + 1 <= Len(s)
                                THEN Len(s) - (Len(s) - Capacity + 1) + 1 ELSE 0
        /\ \A i \in 1..Len(s) - (Len(s) - Capacity + 1) + 1 :
             Log!Latest(s)[i] = s[(Len(s) - Capacity + 1) + i - 1]
    BY <1>1, <2>1, <2>2, SubSeqProperties, TimelineAssumption
  <2>4. Len(Log!Latest(s)) = Capacity
    BY <1>1, <1>3, <2>3, TimelineAssumption
  <2>5. \A i \in 1..Capacity : Log!Latest(s)[i] = s[Len(s) - Capacity + i]
    <3> SUFFICES ASSUME NEW i \in 1..Capacity
                 PROVE  Log!Latest(s)[i] = s[Len(s) - Capacity + i]
      OBVIOUS
    <3>1. i \in 1..Len(s) - (Len(s) - Capacity + 1) + 1
      BY <1>1, TimelineAssumption
    <3>2. (Len(s) - Capacity + 1) + i - 1 = Len(s) - Capacity + i
      BY <1>1, TimelineAssumption
    <3> QED BY <2>3, <3>1, <3>2
  <2> QED BY <1>3, <2>3, <2>4, <2>5
<1> QED BY <1>2, <1>3

LEMMA LatestOfLatest ==
  ASSUME NEW S, NEW s \in Seq(S), NEW u \in Seq(S)
  PROVE  Log!Latest(Log!Latest(s) \o u) = Log!Latest(s \o u)
<1> DEFINE l == Log!Latest(s)
<1>1. /\ l \in Seq(S)
      /\ Len(l) = IF Len(s) <= Capacity THEN Len(s) ELSE Capacity
      /\ \A i \in 1..Len(l) :
           l[i] = IF Len(s) <= Capacity THEN s[i] ELSE s[Len(s) - Capacity + i]
  BY LatestProperties
<1> HIDE DEF l
<1>2. Len(s) \in Nat /\ Len(u) \in Nat /\ Len(l) \in Nat
  BY <1>1, LenProperties
<1>3. /\ s \o u \in Seq(S) /\ Len(s \o u) = Len(s) + Len(u)
      /\ \A i \in 1..Len(s) + Len(u) :
           (s \o u)[i] = IF i <= Len(s) THEN s[i] ELSE u[i - Len(s)]
  BY ConcatProperties
<1>4. /\ l \o u \in Seq(S) /\ Len(l \o u) = Len(l) + Len(u)
      /\ \A i \in 1..Len(l) + Len(u) :
           (l \o u)[i] = IF i <= Len(l) THEN l[i] ELSE u[i - Len(l)]
  BY <1>1, ConcatProperties
<1> DEFINE a == Log!Latest(l \o u)
           b == Log!Latest(s \o u)
<1>5. /\ a \in Seq(S)
      /\ Len(a) = IF Len(l \o u) <= Capacity THEN Len(l \o u) ELSE Capacity
      /\ \A i \in 1..Len(a) :
           a[i] = IF Len(l \o u) <= Capacity THEN (l \o u)[i]
                  ELSE (l \o u)[Len(l \o u) - Capacity + i]
  BY <1>4, LatestProperties
<1>6. /\ b \in Seq(S)
      /\ Len(b) = IF Len(s \o u) <= Capacity THEN Len(s \o u) ELSE Capacity
      /\ \A i \in 1..Len(b) :
           b[i] = IF Len(s \o u) <= Capacity THEN (s \o u)[i]
                  ELSE (s \o u)[Len(s \o u) - Capacity + i]
  BY <1>3, LatestProperties
<1> HIDE DEF a, b
<1>7. Len(a) = Len(b)
  BY <1>1, <1>2, <1>3, <1>4, <1>5, <1>6, TimelineAssumption
<1>8. \A i \in 1..Len(a) : a[i] = b[i]
  <2> SUFFICES ASSUME NEW i \in 1..Len(a) PROVE a[i] = b[i]
    OBVIOUS
  <2>1. CASE Len(s) <= Capacity
    <3>1. Len(l) = Len(s) /\ \A j \in 1..Len(s) : l[j] = s[j]
      BY <1>1, <2>1
    <3>2. l = s
      BY <1>1, <3>1, SeqEqual
    <3> QED BY <3>2 DEF a, b
  <2>2. CASE ~(Len(s) <= Capacity) /\ Len(u) = 0
    BY <1>1, <1>2, <1>3, <1>4, <1>5, <1>6, <1>7, <2>2, TimelineAssumption
  <2>3. CASE ~(Len(s) <= Capacity) /\ Len(u) > 0
    <3>1. Len(l) = Capacity
      BY <1>1, <2>3
    <3>2. a[i] = (l \o u)[Len(u) + i] /\ b[i] = (s \o u)[Len(s) + Len(u) - Capacity + i]
          /\ i \in 1..Capacity
      BY <1>2, <1>3, <1>4, <1>5, <1>6, <1>7, <2>3, <3>1, TimelineAssumption
    <3>3. CASE Len(u) + i <= Capacity
      <4>1. (l \o u)[Len(u) + i] = l[Len(u) + i]
        BY <1>2, <1>4, <3>1, <3>2, <3>3, TimelineAssumption
      <4>2. l[Len(u) + i] = s[Len(s) - Capacity + (Len(u) + i)]
        BY <1>1, <1>2, <2>3, <3>1, <3>2, <3>3, TimelineAssumption
      <4>3. (s \o u)[Len(s) + Len(u) - Capacity + i] = s[Len(s) + Len(u) - Capacity + i]
        BY <1>2, <1>3, <2>3, <3>2, <3>3, TimelineAssumption
      <4>4. Len(s) - Capacity + (Len(u) + i) = Len(s) + Len(u) - Capacity + i
        BY <1>2, <3>2, TimelineAssumption
      <4> QED BY <3>2, <4>1, <4>2, <4>3, <4>4
    <3>4. CASE ~(Len(u) + i <= Capacity)
      <4>1. (l \o u)[Len(u) + i] = u[Len(u) + i - Capacity]
        BY <1>2, <1>4, <3>1, <3>2, <3>4, TimelineAssumption
      <4>2. (s \o u)[Len(s) + Len(u) - Capacity + i]
              = u[Len(s) + Len(u) - Capacity + i - Len(s)]
        BY <1>2, <1>3, <2>3, <3>2, <3>4, TimelineAssumption
      <4>3. Len(s) + Len(u) - Capacity + i - Len(s) = Len(u) + i - Capacity
        BY <1>2, <3>2, TimelineAssumption
      <4> QED BY <3>2, <4>1, <4>2, <4>3
    <3> QED BY <3>3, <3>4
  <2> QED BY <1>2, <2>1, <2>2, <2>3
<1>9. a = b
  BY <1>5, <1>6, <1>7, <1>8, SeqEqual
<1> QED BY <1>9 DEF a, b, l

LEMMA AppendContents ==
  ASSUME NEW t \in Timeline, NEW e \in Events
  PROVE  Contents(AppendEvent(t, e)) = Log!Latest(Contents(t) \o <<e>>)
<1> DEFINE u == AppendEvent(t, e)
           w == t.iWriteIndex
           n == t.iCount
           c == Contents(t)
           d == Log!Latest(c \o <<e>>)
<1>1. w \in 1..Capacity /\ n \in 0..Capacity /\ n \in Nat /\ w \in Nat
  BY TimelineAssumption DEF Timeline
<1>2. /\ u \in Timeline
      /\ u.iWriteIndex = IF w >= Capacity THEN 1 ELSE w + 1
      /\ u.iCount = IF n < Capacity THEN n + 1 ELSE n
      /\ u.arrEvents[w].event = e
      /\ \A j \in 1..Capacity : j # w => u.arrEvents[j] = t.arrEvents[j]
  BY AppendType DEF AppendEvent, Timeline
<1>3. /\ c \in Seq(Stored) /\ Len(c) = n
      /\ \A i \in 1..n : c[i] = t.arrEvents[Slot(w, n, i)].event
  BY ContentsType
<1>4. /\ Contents(u) \in Seq(Stored) /\ Len(Contents(u)) = u.iCount
      /\ \A i \in 1..u.iCount :
           Contents(u)[i] = u.arrEvents[Slot(u.iWriteIndex, u.iCount, i)].event
  BY <1>2, ContentsType
<1>5. <<e>> \in Seq(Stored) /\ Len(<<e>>) = 1 /\ <<e>>[1] = e
  BY DEF Stored
<1> HIDE DEF u, w, n, c
<1>6. /\ c \o <<e>> \in Seq(Stored) /\ Len(c \o <<e>>) = n + 1
      /\ \A i \in 1..n + 1 :
           (c \o <<e>>)[i] = IF i <= n THEN c[i] ELSE <<e>>[i - n]
  BY <1>3, <1>5, ConcatProperties
<1>7. /\ d \in Seq(Stored)
      /\ Len(d) = IF Len(c \o <<e>>) <= Capacity THEN Len(c \o <<e>>) ELSE Capacity
      /\ \A i \in 1..Len(d) :
           d[i] = IF Len(c \o <<e>>) <= Capacity THEN (c \o <<e>>)[i]
                  ELSE (c \o <<e>>)[Len(c \o <<e>>) - Capacity + i]
  BY <1>6, LatestProperties
<1> HIDE DEF d
<1>8. Len(d) = u.iCount
  BY <1>1, <1>2, <1>6, <1>7, TimelineAssumption
<1>9. \A i \in 1..Len(d) : Contents(u)[i] = d[i]
  <2> SUFFICES ASSUME NEW i \in 1..u.iCount PROVE Contents(u)[i] = d[i]
    BY <1>8
  <2> DEFINE k == Slot(u.iWriteIndex, u.iCount, i)
  <2>1. Contents(u)[i] = u.arrEvents[k].event
    BY <1>4
  <2>2. u.iWriteIndex \in 1..Capacity /\ u.iCount \in 0..Capacity
    BY <1>2 DEF Timeline
  <2>3. k = IF u.iWriteIndex - 1 - u.iCount + i - 1 >= 0
            THEN u.iWriteIndex - 1 - u.iCount + i
            ELSE u.iWriteIndex - 1 - u.iCount + i + Capacity
    BY <2>2, SlotValue
  <2> HIDE DEF k
  <2>4. CASE i = u.iCount
    <3>1. k = w
      BY <1>1, <1>2, <2>2, <2>3, <2>4, TimelineAssumption
    <3>2. Contents(u)[i] = e
      BY <1>2, <2>1, <3>1
    <3>3. d[i] = (c \o <<e>>)[n + 1]
      <4>1. i \in 1..Len(d) /\ i = Len(d)
        BY <1>8, <2>4
      <4>2. CASE Len(c \o <<e>>) <= Capacity
        BY <1>6, <1>7, <4>1, <4>2
      <4>3. CASE ~(Len(c \o <<e>>) <= Capacity)
        <5>1. d[i] = (c \o <<e>>)[Len(c \o <<e>>) - Capacity + i]
          BY <1>7, <4>1, <4>3
        <5>2. Len(c \o <<e>>) - Capacity + i = n + 1
          <6>1. Len(d) = Capacity
            BY <1>7, <4>3
          <6> QED BY <1>1, <1>6, <4>1, <6>1, TimelineAssumption
        <5> QED BY <5>1, <5>2
      <4> QED BY <4>2, <4>3
    <3>4. (c \o <<e>>)[n + 1] = e
      BY <1>1, <1>5, <1>6
    <3> QED BY <3>2, <3>3, <3>4
  <2>5. CASE i # u.iCount
    <3> DEFINE j == IF n < Capacity THEN i ELSE i + 1
    <3>1. j \in 1..n
      BY <1>1, <1>2, <2>5, TimelineAssumption
    <3>2. Slot(w, n, j) = IF w - 1 - n + j - 1 >= 0 THEN w - 1 - n + j
                          ELSE w - 1 - n + j + Capacity
      BY <1>1, <3>1, SlotValue
    <3>3. k = Slot(w, n, j) /\ k # w /\ k \in 1..Capacity
      BY <1>1, <1>2, <2>2, <2>3, <2>5, <3>1, <3>2, TimelineAssumption
    <3>4. Contents(u)[i] = c[j]
      BY <1>2, <1>3, <2>1, <3>1, <3>3
    <3>5. d[i] = (c \o <<e>>)[j]
      <4>1. i \in 1..Len(d)
        BY <1>8
      <4>2. CASE n < Capacity
        <5>1. Len(c \o <<e>>) <= Capacity
          BY <1>1, <1>6, <4>2, TimelineAssumption
        <5> QED BY <1>7, <4>1, <4>2, <5>1
      <4>3. CASE ~(n < Capacity)
        <5>1. ~(Len(c \o <<e>>) <= Capacity)
          BY <1>1, <1>6, <4>3, TimelineAssumption
        <5>2. d[i] = (c \o <<e>>)[Len(c \o <<e>>) - Capacity + i]
          BY <1>7, <4>1, <5>1
        <5>3. Len(c \o <<e>>) - Capacity + i = j
          BY <1>1, <1>6, <4>3, TimelineAssumption
        <5> QED BY <5>2, <5>3
      <4> QED BY <4>2, <4>3
    <3>6. (c \o <<e>>)[j] = c[j]
      BY <1>1, <1>6, <3>1
    <3> QED BY <3>4, <3>5, <3>6
  <2> QED BY <2>4, <2>5
<1>10. Contents(u) = d
  BY <1>4, <1>7, <1>8, <1>9, SeqEqual
<1> QED BY <1>10 DEF u, d, c

------------------------------------------------------------------------------
(* What a scan appends.                                                      *)

LEMMA AppendAnyContents ==
  ASSUME NEW t \in Timeline, NEW events, Short(events)
  PROVE  /\ AppendAny(t, events) \in Timeline
         /\ events \in Seq(Stored)
         /\ Contents(AppendAny(t, events)) = Log!Latest(Contents(t) \o events)
<1>1. Contents(t) \in Seq(Stored) /\ Len(Contents(t)) = t.iCount /\ t.iCount \in 0..Capacity
  BY ContentsType DEF Timeline
<1>2. CASE events = <<>>
  <2>1. Contents(t) \o events = Contents(t)
    BY <1>1, <1>2, ConcatEmptySeq
  <2>2. Log!Latest(Contents(t)) = Contents(t)
    BY <1>1 DEF Log!Latest
  <2> QED BY <1>2, <2>1, <2>2 DEF AppendAny
<1>3. CASE \E e \in Events : events = <<e>>
  <2>1. PICK e \in Events : events = <<e>>
    BY <1>3
  <2>2. AppendAny(t, events) = AppendEvent(t, e)
    BY <2>1 DEF AppendAny
  <2>3. events \in Seq(Stored)
    BY <2>1 DEF Stored
  <2> QED BY <2>1, <2>2, <2>3, AppendType, AppendContents
<1> QED BY <1>2, <1>3 DEF Short

\* The sequence number that an event has when n events have followed number u.
Advance(u, n) ==
  IF u + n < SequenceModulus THEN u + n ELSE u + n - (SequenceModulus - 1)

\* The timeline goes on where number u stopped, and n events have come since.
Tracks(t, u, n) ==
  /\ t \in Timeline
  /\ t.udiNextSequence = IF t.stLastEvent.udiSequence = SequenceModulus - 1 THEN 0
                         ELSE t.stLastEvent.udiSequence + 1
  /\ n < SequenceModulus => t.stLastEvent.udiSequence = Advance(u, n)

LEMMA AppendTracks ==
  ASSUME NEW t, NEW u \in 0..SequenceModulus - 1, NEW n \in Nat, Tracks(t, u, n),
         NEW events, Short(events)
  PROVE  Tracks(AppendAny(t, events), u, n + Len(events))
<1>1. CASE events = <<>>
  <2>1. AppendAny(t, events) = t /\ Len(events) = 0 /\ n + 0 = n
    BY <1>1 DEF AppendAny
  <2> QED BY <2>1
<1>2. CASE \E e \in Events : events = <<e>>
  <2>1. PICK e \in Events : events = <<e>>
    BY <1>2
  <2> DEFINE last == t.stLastEvent.udiSequence
             next == t.udiNextSequence
             number == IF next = 0 THEN 1 ELSE next
             after == AppendEvent(t, e)
  <2>2. AppendAny(t, events) = after /\ Len(events) = 1
    BY <2>1 DEF AppendAny
  <2>3. t \in Timeline /\ last \in 0..SequenceModulus - 1 /\ next \in 0..SequenceModulus - 1
    BY TimelineAssumption DEF Tracks, Timeline, Record, NoEvent
  <2>4. next = IF last = SequenceModulus - 1 THEN 0 ELSE last + 1
    BY DEF Tracks
  <2>5. n < SequenceModulus => last = Advance(u, n)
    BY DEF Tracks
  <2>6. /\ after \in Timeline
        /\ after.stLastEvent.udiSequence = number
        /\ after.udiNextSequence = (number + 1) % SequenceModulus
    BY <2>3, AppendType DEF AppendEvent
  <2>7. number = IF last = SequenceModulus - 1 THEN 1 ELSE last + 1
    BY <2>3, <2>4, TimelineAssumption
  <2>8. number \in 1..SequenceModulus - 1
    BY <2>3, <2>7, TimelineAssumption
  <2> HIDE DEF number, last, next, after
  <2>9. (number + 1) % SequenceModulus
          = IF number = SequenceModulus - 1 THEN 0 ELSE number + 1
    <3>1. number \in 0..SequenceModulus - 1 /\ SequenceModulus \in Nat \ {0}
      BY <2>8, TimelineAssumption
    <3>2. (number + 1) % SequenceModulus
            = IF number + 1 < SequenceModulus THEN number + 1 ELSE 0
      BY <3>1, WrapMod
    <3>3. number + 1 < SequenceModulus <=> number # SequenceModulus - 1
      BY <2>8, TimelineAssumption
    <3> QED BY <3>2, <3>3
  <2>10. n + 1 < SequenceModulus => number = Advance(u, n + 1)
    BY <2>3, <2>5, <2>7, TimelineAssumption DEF Advance
  <2> QED BY <2>2, <2>6, <2>9, <2>10 DEF Tracks
<1> QED BY <1>1, <1>2 DEF Short

LEMMA ScanEvents ==
  ASSUME NEW in \in AlarmInput, eActiveAlarmCode' \in AlarmCodes \cup {"NONE"},
         xAnyAlarmActive' <=> eActiveAlarmCode' # "NONE"
  PROVE  /\ Short(StateEvents) /\ Short(AcknowledgeEvents(in)) /\ Short(ResetEvents(in))
         /\ {Len(StateEvents), Len(AcknowledgeEvents(in)), Len(ResetEvents(in))} \subseteq 0..1
<1>1. AlarmCodes \subseteq Events
  BY DEF AlarmCodes, Priority, Events
<1>2. Short(StateEvents) /\ Len(StateEvents) \in 0..1
  <2>1. CASE RaisedOrChanged
    <3>1. StateEvents = <<eActiveAlarmCode'>> /\ eActiveAlarmCode' \in Events
      BY <1>1, <2>1 DEF StateEvents, RaisedOrChanged
    <3> QED BY <3>1 DEF Short
  <2>2. CASE ~RaisedOrChanged
    BY <2>2 DEF StateEvents, Short, Events
  <2> QED BY <2>1, <2>2
<1>3. Short(AcknowledgeEvents(in)) /\ Len(AcknowledgeEvents(in)) \in 0..1
  BY DEF AcknowledgeEvents, Short, Events
<1>4. Short(ResetEvents(in)) /\ Len(ResetEvents(in)) \in 0..1
  BY DEF ResetEvents, Short, Events
<1> QED BY <1>2, <1>3, <1>4

LEMMA Quieted ==
  ASSUME NEW t \in Timeline, NEW u, NEW n, Tracks(t, u, n)
  PROVE  /\ [t EXCEPT !.xNewEvent = FALSE] \in Timeline
         /\ Contents([t EXCEPT !.xNewEvent = FALSE]) = Contents(t)
         /\ Tracks([t EXCEPT !.xNewEvent = FALSE], u, n)
<1> DEFINE q == [t EXCEPT !.xNewEvent = FALSE]
<1>1. /\ q.arrEvents = t.arrEvents /\ q.iWriteIndex = t.iWriteIndex
      /\ q.iCount = t.iCount /\ q.udiNextSequence = t.udiNextSequence
      /\ q.stLastEvent = t.stLastEvent
      /\ q \in Timeline
  BY DEF Timeline
<1> HIDE DEF q
<1> QED BY <1>1 DEF Contents, Tracks, q

LEMMA LoggedContents ==
  ASSUME NEW in \in AlarmInput, NEW u \in 0..SequenceModulus - 1, NEW n \in Nat,
         Tracks(stTimeline, u, n), LogEvents(in),
         eActiveAlarmCode' \in AlarmCodes \cup {"NONE"},
         xAnyAlarmActive' <=> eActiveAlarmCode' # "NONE"
  PROVE  /\ Tracks(stTimeline', u, n + (Len(StateEvents) + Len(AcknowledgeEvents(in))
                                          + Len(ResetEvents(in))))
         /\ Contents(stTimeline')
              = Log!Latest(((Contents(stTimeline) \o StateEvents)
                              \o AcknowledgeEvents(in)) \o ResetEvents(in))
<1> DEFINE a == StateEvents
           b == AcknowledgeEvents(in)
           c == ResetEvents(in)
           t0 == [stTimeline EXCEPT !.xNewEvent = FALSE]
           t1 == AppendAny(t0, a)
           t2 == AppendAny(t1, b)
           t3 == AppendAny(t2, c)
           c0 == Contents(stTimeline)
<1>1. /\ Short(a) /\ Short(b) /\ Short(c)
      /\ {Len(a), Len(b), Len(c)} \subseteq 0..1
  BY ScanEvents
<1>2. stTimeline' = t3
  BY DEF LogEvents
<1>3. stTimeline \in Timeline
  BY DEF Tracks
<1>4. t0 \in Timeline /\ Contents(t0) = c0 /\ Tracks(t0, u, n) /\ c0 \in Seq(Stored)
  BY <1>3, Quieted, ContentsType
<1> HIDE DEF a, b, c, t0, c0
<1>5. /\ t1 \in Timeline /\ a \in Seq(Stored)
      /\ Contents(t1) = Log!Latest(c0 \o a)
  BY <1>1, <1>4, AppendAnyContents
<1>6. Tracks(t1, u, n + Len(a)) /\ n + Len(a) \in Nat
  BY <1>1, <1>4, AppendTracks
<1> HIDE DEF t1
<1>7. /\ t2 \in Timeline /\ b \in Seq(Stored)
      /\ Contents(t2) = Log!Latest(Log!Latest(c0 \o a) \o b)
  BY <1>1, <1>5, AppendAnyContents
<1>8. Tracks(t2, u, n + Len(a) + Len(b)) /\ n + Len(a) + Len(b) \in Nat
  <2> DEFINE m == n + Len(a)
  <2>1. m \in Nat /\ Tracks(t1, u, m)
    BY <1>6
  <2> HIDE DEF m
  <2>2. Tracks(t2, u, m + Len(b)) /\ m + Len(b) \in Nat
    BY <1>1, <2>1, AppendTracks
  <2> QED BY <2>2 DEF m
<1> HIDE DEF t2
<1>9. /\ c \in Seq(Stored)
      /\ Contents(t3) = Log!Latest(Contents(t2) \o c)
  BY <1>1, <1>7, AppendAnyContents
<1>10. Tracks(t3, u, n + Len(a) + Len(b) + Len(c))
  BY <1>1, <1>8, AppendTracks
<1> HIDE DEF t3
<1>11. c0 \o a \in Seq(Stored) /\ (c0 \o a) \o b \in Seq(Stored)
  BY <1>4, <1>5, <1>7, ConcatProperties
<1>12. Contents(t2) = Log!Latest((c0 \o a) \o b)
  BY <1>5, <1>7, <1>11, LatestOfLatest
<1>13. Contents(t3) = Log!Latest(((c0 \o a) \o b) \o c)
  BY <1>9, <1>11, <1>12, LatestOfLatest
<1>14. n + Len(a) + Len(b) + Len(c) = n + (Len(a) + Len(b) + Len(c))
  BY <1>1
<1> QED BY <1>2, <1>10, <1>13, <1>14 DEF a, b, c, c0

------------------------------------------------------------------------------
(* The inductive invariant.                                                  *)

\* The alarms that sound.
Loud == {"ESTOP", "DIVERTER_1", "DIVERTER_2", "ROUTE_FAULT", "GENERAL_JAM"}

\* What is shown is a function of the shown alarm and the acknowledgement latch.
ShownInv ==
  /\ xAnyAlarmActive <=> eActiveAlarmCode # "NONE"
  /\ xAnyUnacked <=> xAnyAlarmActive /\ ~xAckLatched
  /\ "SOUNDER" \in stackLights <=> xAnyUnacked /\ eActiveAlarmCode \in Loud

\* The connector's cursor is pending events behind the timeline.
CursorInv ==
  /\ udiLastEventSequence \in 0..SequenceModulus - 1
  /\ Tracks(stTimeline, udiLastEventSequence, pending)

\* The watch measures the silence, up to the width of its counter.
WatchInv ==
  /\ rHeartbeatElapsed = silence % HeartbeatScans
  /\ uiMissedHeartbeats = (silence \div HeartbeatScans) % UintModulus
  /\ histState \notin {"DISABLED", "CONNECTING"} =>
       (histState = "BACKOFF" <=> uiMissedHeartbeats >= MaxMissedHeartbeats)

IInv ==
  AlarmHistoryTypeOK /\ ShownInv /\ CursorInv /\ WatchInv /\ NothingWaitsWhenHealthy

LEMMA InitInv == AlarmHistoryInit => IInv
<1> SUFFICES ASSUME AlarmHistoryInit PROVE IInv
  OBVIOUS
<1> USE DEF AlarmHistoryInit, AlarmInit, HistorianInit
<1>1. ClearTimeline \in Timeline
  BY TimelineAssumption DEF ClearTimeline, Timeline, Record, NoEvent
<1>2. AlarmHistoryTypeOK
  <2>1. AlarmTypeOK
    <3>1. 0 \in 0..FlashScans - 1
      BY AlarmAssumption
    <3> QED BY <1>1, <3>1 DEF AlarmTypeOK
  <2>2. HistTypeOK
    <3>1. 0 \in 0..SampleScans - 1 /\ 0 \in 0..HeartbeatScans - 1 /\ 0 \in 0..UintModulus - 1
      BY HistorianAssumption
    <3> QED BY <3>1 DEF HistTypeOK
  <2> QED BY <2>1, <2>2, AlarmHistoryAssumption DEF AlarmHistoryTypeOK
<1>3. ShownInv
  BY DEF ShownInv
<1>4. CursorInv
  <2>1. Advance(0, 0) = 0
    BY TimelineAssumption DEF Advance
  <2>2. ClearTimeline.stLastEvent.udiSequence = 0 /\ ClearTimeline.udiNextSequence = 1
    BY DEF ClearTimeline, NoEvent
  <2> QED BY <1>1, <2>1, <2>2, TimelineAssumption DEF CursorInv, Tracks
<1>5. WatchInv
  <2>1. 0 % HeartbeatScans = 0 /\ 0 \div HeartbeatScans = 0
    BY HistorianAssumption
  <2>2. 0 % UintModulus = 0
    BY HistorianAssumption
  <2> QED BY <2>1, <2>2 DEF WatchInv
<1>6. NothingWaitsWhenHealthy
  BY DEF NothingWaitsWhenHealthy, Connected
<1> QED BY <1>2, <1>3, <1>4, <1>5, <1>6 DEF IInv

LEMMA HighestRaised ==
  ASSUME NEW in \in AlarmInput, in.alarms # {}
  PROVE  /\ Highest(in) \in 1..7 /\ Priority[Highest(in)] \in in.alarms
         /\ Severity(in) >= 800 <=> Priority[Highest(in)] \in Loud
<1>1. DOMAIN Priority = 1..7 /\ AlarmCodes = {Priority[i] : i \in 1..7}
  BY DEF Priority, AlarmCodes
<1>2. PICK k \in 1..7 : Priority[k] \in in.alarms
  BY <1>1 DEF AlarmInput
<1>3. Raised(in) \subseteq 1..7 /\ k \in Raised(in)
  BY <1>1, <1>2 DEF Raised
<1>4. \E i \in Raised(in) : \A j \in Raised(in) : i <= j
  BY <1>3
<1>5. Highest(in) \in Raised(in)
  BY <1>4 DEF Highest
<1>6. Highest(in) \in 1..7 /\ Priority[Highest(in)] \in in.alarms
  BY <1>1, <1>5 DEF Raised
<1>7. Severity(in) = Severities[Highest(in)]
  BY DEF Severity
<1>8. \A i \in 1..7 : Severities[i] >= 800 <=> Priority[i] \in Loud
  BY DEF Severities, Priority, Loud
<1> QED BY <1>6, <1>7, <1>8

LEMMA SceneTypes ==
  ASSUME NEW scene \in Scenes
  PROVE  /\ AlarmIn(scene) \in AlarmInput
         /\ scene \in Scene
BY AlarmHistoryAssumption DEF AlarmIn, AlarmInput, Scene

LEMMA ShownStep ==
  ASSUME NEW in \in AlarmInput, AlarmTypeOK, AlarmScan(in)
  PROVE  /\ alarmState' \in {"NORMAL", "WARNING", "FAULT", "ABORT"}
         /\ eActiveAlarmCode' \in AlarmCodes \cup {"NONE"}
         /\ {xAnyAlarmActive', xAckLatched', xAckLast', xAlarmResetLast', xFlashState',
             xAnyUnacked'} \subseteq BOOLEAN
         /\ rFlashElapsed' \in 0..FlashScans - 1
         /\ stackLights' \subseteq {"GREEN", "YELLOW", "RED", "SOUNDER"}
         /\ ShownInv'
<1>1. Flash /\ Categorise(in) /\ Acknowledge(in) /\ Indicate(in)
      /\ xAckLast' = in.xAcknowledge /\ xAlarmResetLast' = in.xReset
  BY DEF AlarmScan
<1>2. xFlashState' \in BOOLEAN /\ rFlashElapsed' \in 0..FlashScans - 1
  <2>1. xFlashState \in BOOLEAN /\ rFlashElapsed \in 0..FlashScans - 1
    BY DEF AlarmTypeOK
  <2>2. CASE rFlashElapsed + 1 >= FlashScans
    BY <1>1, <2>1, <2>2, AlarmAssumption DEF Flash
  <2>3. CASE ~(rFlashElapsed + 1 >= FlashScans)
    BY <1>1, <2>1, <2>3, AlarmAssumption DEF Flash
  <2> QED BY <2>2, <2>3
<1>3. in.alarms \subseteq AlarmCodes /\ in.xAcknowledge \in BOOLEAN /\ in.xReset \in BOOLEAN
  BY DEF AlarmInput
<1>4. "NONE" \notin AlarmCodes
  BY DEF AlarmCodes, Priority
<1>5. /\ xAnyAlarmActive' = (in.alarms # {})
      /\ in.alarms = {} => eActiveAlarmCode' = "NONE"
      /\ in.alarms # {} => eActiveAlarmCode' = Priority[Highest(in)]
      /\ alarmState' \in {"NORMAL", "WARNING", "FAULT", "ABORT"}
  BY <1>1 DEF Categorise
<1>6. /\ eActiveAlarmCode' \in AlarmCodes \cup {"NONE"}
      /\ xAnyAlarmActive' <=> eActiveAlarmCode' # "NONE"
  BY <1>3, <1>4, <1>5, HighestRaised
<1>7. xAckLatched' \in BOOLEAN
  BY <1>1 DEF Acknowledge, AlarmTypeOK
<1>8. /\ xAnyUnacked' = (xAnyAlarmActive' /\ ~xAckLatched')
      /\ stackLights' \subseteq {"GREEN", "YELLOW", "RED", "SOUNDER"}
      /\ "SOUNDER" \in stackLights' <=> xAnyUnacked' /\ Severity(in) >= 800
  BY <1>1 DEF Indicate
<1>9. xAnyUnacked' => (Severity(in) >= 800 <=> eActiveAlarmCode' \in Loud)
  BY <1>5, <1>8, HighestRaised
<1>10. ShownInv'
  BY <1>6, <1>8, <1>9 DEF ShownInv
<1> QED BY <1>1, <1>2, <1>3, <1>5, <1>6, <1>7, <1>8, <1>10

LEMMA TracksStep ==
  ASSUME NEW scene \in Scenes, IInv, AlarmScan(AlarmIn(scene))
  PROVE  /\ Logged(scene) \in Nat
         /\ Tracks(stTimeline', udiLastEventSequence, pending + Logged(scene))
         /\ stTimeline' \in Timeline
<1> DEFINE in == AlarmIn(scene)
<1>1. in \in AlarmInput
  BY SceneTypes
<1>2. /\ eActiveAlarmCode' \in AlarmCodes \cup {"NONE"}
      /\ xAnyAlarmActive' <=> eActiveAlarmCode' # "NONE"
  BY <1>1, ShownStep DEF IInv, AlarmHistoryTypeOK, ShownInv
<1>3. LogEvents(in)
  BY DEF AlarmScan
<1>4. pending \in Nat
  BY AlarmHistoryAssumption DEF IInv, AlarmHistoryTypeOK
<1>5. Logged(scene) = Len(StateEvents) + Len(AcknowledgeEvents(in)) + Len(ResetEvents(in))
  BY DEF Logged
<1>6. {Len(StateEvents), Len(AcknowledgeEvents(in)), Len(ResetEvents(in))} \subseteq 0..1
  BY <1>1, <1>2, ScanEvents
<1> HIDE DEF in
<1>7. Tracks(stTimeline', udiLastEventSequence, pending + Logged(scene))
  BY <1>1, <1>2, <1>3, <1>4, <1>5, LoggedContents DEF IInv, CursorInv
<1> QED BY <1>5, <1>6, <1>7 DEF Tracks

LEMMA WatchStep ==
  ASSUME NEW scene \in Scenes, IInv, Scan(scene), silence' <= MaxSilence
  PROVE  /\ silence' \in 0..MaxSilence
         /\ HistTypeOK'
         /\ WatchInv'
<1> DEFINE in == HistorianIn(scene)
<1>1. HistorianScan(in) /\ Remember(scene)
  BY DEF Scan
<1>2. /\ Subscribed(in) = Subscribed(scene) /\ HeartbeatEdge(in) = HeartbeatEdge(scene)
      /\ in.xCollectorHeartbeat = scene.xCollectorHeartbeat
  BY DEF HistorianIn, Subscribed, HeartbeatEdge
<1>3. silence \in Nat /\ MaxSilence \in Nat
  BY AlarmHistoryAssumption DEF IInv, AlarmHistoryTypeOK
<1>4. HeartbeatScans \in Nat \ {0} /\ UintModulus \in Nat \ {0} /\ SampleScans \in Nat \ {0}
      /\ MaxMissedHeartbeats \in Nat \ {0}
  BY HistorianAssumption
<1>5. in.lastSequence \in Nat
  <2>1. in.lastSequence = stTimeline'.stLastEvent.udiSequence
    BY DEF HistorianIn
  <2>2. stTimeline' \in Timeline
    BY TracksStep DEF Scan
  <2> QED BY <2>1, <2>2, TimelineAssumption DEF Timeline, Record, NoEvent
<1> HIDE DEF in
<1>6. /\ silence' \in 0..MaxSilence
      /\ rHeartbeatElapsed' = silence' % HeartbeatScans
      /\ uiMissedHeartbeats' = (silence' \div HeartbeatScans) % UintModulus
  <2>1. CASE ~Subscribed(in) \/ HeartbeatEdge(in)
    <3>1. silence' = 0 /\ rHeartbeatElapsed' = 0 /\ uiMissedHeartbeats' = 0
      BY <1>1, <1>2, <2>1 DEF Remember, HistorianScan, WatchHeartbeat
    <3>2. 0 % HeartbeatScans = 0 /\ 0 \div HeartbeatScans = 0 /\ 0 % UintModulus = 0
      BY <1>4
    <3>3. 0 \in 0..MaxSilence
      BY <1>3
    <3> QED BY <3>1, <3>2, <3>3
  <2>2. CASE ~(~Subscribed(in) \/ HeartbeatEdge(in))
    <3>1. silence' = silence + 1
      BY <1>1, <1>2, <2>2 DEF Remember
    <3>2. silence' \in 0..MaxSilence
      BY <1>3, <3>1
    <3>3. rHeartbeatElapsed = silence % HeartbeatScans
          /\ uiMissedHeartbeats = (silence \div HeartbeatScans) % UintModulus
      BY DEF IInv, WatchInv
    <3>4. silence \div HeartbeatScans \in Nat /\ silence % HeartbeatScans \in Int
      <4>1. silence \div HeartbeatScans \in Nat /\ silence % HeartbeatScans \in 0..HeartbeatScans - 1
        BY <1>3, <1>4, DivMod, Zenon
      <4> QED BY <1>4, <4>1
    <3>5. CASE rHeartbeatElapsed + 1 >= HeartbeatScans
      <4>1. rHeartbeatElapsed' = 0
            /\ uiMissedHeartbeats' = (uiMissedHeartbeats + 1) % UintModulus
        BY <1>1, <2>2, <3>5 DEF HistorianScan, WatchHeartbeat
      <4>2. ~((silence % HeartbeatScans) + 1 < HeartbeatScans)
        <5>1. rHeartbeatElapsed \in Int
          BY <3>3, <3>4
        <5>2. ~(rHeartbeatElapsed + 1 < HeartbeatScans)
          BY <1>4, <3>5, <5>1
        <5> QED BY <3>3, <5>2
      <4>3. /\ (silence + 1) \div HeartbeatScans = (silence \div HeartbeatScans) + 1
            /\ (silence + 1) % HeartbeatScans = 0
        BY <1>3, <1>4, <4>2, DivStep, Zenon
      <4>4. (((silence \div HeartbeatScans) % UintModulus) + 1) % UintModulus
              = ((silence \div HeartbeatScans) + 1) % UintModulus
        BY <1>4, <3>4, NextMod, Zenon
      <4> QED BY <3>1, <3>2, <3>3, <4>1, <4>3, <4>4, Zenon
    <3>6. CASE ~(rHeartbeatElapsed + 1 >= HeartbeatScans)
      <4>1. rHeartbeatElapsed' = rHeartbeatElapsed + 1
            /\ uiMissedHeartbeats' = uiMissedHeartbeats
        BY <1>1, <2>2, <3>6 DEF HistorianScan, WatchHeartbeat
      <4>2. (silence % HeartbeatScans) + 1 < HeartbeatScans
        <5>1. rHeartbeatElapsed \in Int
          BY <3>3, <3>4
        <5>2. rHeartbeatElapsed + 1 < HeartbeatScans
          BY <1>4, <3>6, <5>1
        <5> QED BY <3>3, <5>2
      <4>3. /\ (silence + 1) \div HeartbeatScans = silence \div HeartbeatScans
            /\ (silence + 1) % HeartbeatScans = (silence % HeartbeatScans) + 1
        BY <1>3, <1>4, <4>2, DivStep, Zenon
      <4> QED BY <3>1, <3>2, <3>3, <4>1, <4>3, Zenon
    <3> QED BY <3>5, <3>6
  <2> QED BY <2>1, <2>2
<1>7. silence' \in Nat
  BY <1>3, <1>6
<1>8. silence' \div HeartbeatScans \in Nat /\ silence' % HeartbeatScans \in 0..HeartbeatScans - 1
  BY <1>4, <1>7, DivMod, Zenon
<1>9. (silence' \div HeartbeatScans) % UintModulus \in 0..UintModulus - 1
  BY <1>4, <1>8, DivMod, Zenon
<1>10. rHeartbeatElapsed' \in 0..HeartbeatScans - 1 /\ uiMissedHeartbeats' \in 0..UintModulus - 1
  BY <1>6, <1>8, <1>9, Zenon
<1>11. rSampleElapsed' \in 0..SampleScans - 1
  <2>1. rSampleElapsed \in 0..SampleScans - 1
    BY DEF IInv, AlarmHistoryTypeOK, HistTypeOK
  <2>2. CASE ~Healthy(in) \/ SampleDue(in)
    BY <1>1, <1>4, <2>2 DEF HistorianScan, Publish
  <2>3. CASE ~(~Healthy(in) \/ SampleDue(in))
    <3>1. rSampleElapsed' = rSampleElapsed + 1 /\ ~(rSampleElapsed + 1 >= SampleScans)
      BY <1>1, <2>3 DEF HistorianScan, Publish, SampleDue
    <3> QED BY <1>4, <2>1, <3>1
  <2> QED BY <2>2, <2>3
<1>12. udiLastEventSequence' \in Nat /\ published' \subseteq Channels /\ xHeartbeatLast' \in BOOLEAN
  <2>1. udiLastEventSequence' \in {in.lastSequence, udiLastEventSequence}
        /\ published' \subseteq Channels
    BY <1>1 DEF HistorianScan, Publish
  <2>2. xHeartbeatLast' = scene.xCollectorHeartbeat
    BY <1>1, <1>2 DEF HistorianScan
  <2>3. scene.xCollectorHeartbeat \in BOOLEAN
    BY SceneTypes DEF Scene
  <2> QED BY <1>5, <2>1, <2>2, <2>3 DEF IInv, AlarmHistoryTypeOK, HistTypeOK
<1>13. /\ histState' \in {"DISABLED", "CONNECTING", "BACKOFF", "FAULTED", "CONNECTED",
                         "PUBLISHING"}
       /\ histState' \notin {"DISABLED", "CONNECTING"} =>
            (histState' = "BACKOFF" <=> uiMissedHeartbeats' >= MaxMissedHeartbeats)
  BY <1>1 DEF HistorianScan, Report
<1>14. HistTypeOK'
  BY <1>10, <1>11, <1>12, <1>13 DEF HistTypeOK
<1>15. WatchInv'
  BY <1>6, <1>13 DEF WatchInv
<1> QED BY <1>6, <1>14, <1>15

LEMMA AdvanceStill ==
  ASSUME NEW u \in 0..SequenceModulus - 1, NEW n \in Nat, n < SequenceModulus - 1,
         NEW v, v = Advance(u, n), v = 0 \/ v = u
  PROVE  n = 0
BY TimelineAssumption DEF Advance

LEMMA CursorStep ==
  ASSUME NEW scene \in Scenes, IInv, Scan(scene), pending' <= MaxPending, HistTypeOK'
  PROVE  CursorInv' /\ pending' \in 0..MaxPending /\ NothingWaitsWhenHealthy'
<1> DEFINE in == HistorianIn(scene)
           last == stTimeline.stLastEvent.udiSequence
<1>1. AlarmScan(AlarmIn(scene)) /\ HistorianScan(in) /\ Remember(scene)
  BY DEF Scan
<1>2. /\ Logged(scene) \in Nat
      /\ Tracks(stTimeline', udiLastEventSequence, pending + Logged(scene))
      /\ stTimeline' \in Timeline
  BY <1>1, TracksStep
<1>3. in.lastSequence = last'
  BY DEF HistorianIn
<1>4. last' \in 0..SequenceModulus - 1
  BY <1>2, TimelineAssumption DEF Timeline, Record, NoEvent
<1>5. /\ pending \in Nat /\ MaxPending < SequenceModulus - 1 /\ MaxPending \in Nat
      /\ udiLastEventSequence \in 0..SequenceModulus - 1
  BY AlarmHistoryAssumption DEF IInv, AlarmHistoryTypeOK, CursorInv
<1>6. /\ "event" \in published' <=> Healthy(in) /\ NewEvent(in)
      /\ udiLastEventSequence' = IF Healthy(in) /\ NewEvent(in) THEN in.lastSequence
                                 ELSE udiLastEventSequence
  BY <1>1 DEF HistorianScan, Publish, Channels
<1>7. pending' = IF "event" \in published' THEN 0 ELSE pending + Logged(scene)
  BY <1>1 DEF Remember
<1>8. NewEvent(in) <=> last' # 0 /\ last' # udiLastEventSequence
  BY <1>3 DEF NewEvent
<1> HIDE DEF in
<1>9. CASE Healthy(in) /\ NewEvent(in)
  <2>1. pending' = 0 /\ udiLastEventSequence' = last'
    BY <1>3, <1>6, <1>7, <1>9
  <2>2. Advance(last', 0) = last'
    BY <1>4, TimelineAssumption DEF Advance
  <2>3. CursorInv'
    BY <1>2, <1>4, <2>1, <2>2 DEF CursorInv, Tracks
  <2> QED BY <1>5, <2>1, <2>3 DEF NothingWaitsWhenHealthy
<1>10. CASE ~(Healthy(in) /\ NewEvent(in))
  <2>1. pending' = pending + Logged(scene) /\ udiLastEventSequence' = udiLastEventSequence
    BY <1>6, <1>7, <1>10
  <2>2. pending' \in 0..MaxPending
    BY <1>2, <1>5, <2>1
  <2>3. CursorInv'
    BY <1>2, <1>5, <2>1 DEF CursorInv, Tracks
  <2>4. Connected' => Healthy(in)
    <3>1. uiMissedHeartbeats' \in Nat /\ MaxMissedHeartbeats \in Nat
      BY HistorianAssumption DEF HistTypeOK
    <3>2. ~(uiMissedHeartbeats' >= MaxMissedHeartbeats)
            => uiMissedHeartbeats' < MaxMissedHeartbeats
      BY <3>1
    <3> QED BY <1>1, <3>2 DEF HistorianScan, Report, Connected, Healthy, Subscribed
  <2>5. Healthy(in) => pending' = 0
    <3> SUFFICES ASSUME Healthy(in) PROVE pending' = 0
      OBVIOUS
    <3>1. last' = 0 \/ last' = udiLastEventSequence
      BY <1>8, <1>10
    <3>2. last' = Advance(udiLastEventSequence, pending')
      BY <1>2, <1>5, <2>1, <2>2, TimelineAssumption DEF Tracks
    <3>3. pending' \in Nat /\ pending' < SequenceModulus - 1
      BY <1>5, <2>2, TimelineAssumption
    <3> QED BY <1>5, <3>1, <3>2, <3>3, AdvanceStill
  <2> QED BY <2>2, <2>3, <2>4, <2>5 DEF NothingWaitsWhenHealthy
<1> QED BY <1>9, <1>10

LEMMA StepInv == IInv /\ [AlarmHistoryNext]_alarmHistoryVars => IInv'
<1> SUFFICES ASSUME IInv, [AlarmHistoryNext]_alarmHistoryVars PROVE IInv'
  OBVIOUS
<1>1. ASSUME NEW scene \in Scenes, Scan(scene),
             silence' <= MaxSilence, pending' <= MaxPending
      PROVE  IInv'
  <2>1. AlarmIn(scene) \in AlarmInput /\ AlarmScan(AlarmIn(scene)) /\ AlarmTypeOK
    BY <1>1, SceneTypes DEF Scan, IInv, AlarmHistoryTypeOK
  <2>2. stTimeline' \in Timeline
    BY <2>1, TracksStep
  <2>3. AlarmTypeOK' /\ ShownInv'
    BY <2>1, <2>2, ShownStep DEF AlarmTypeOK
  <2>4. HistTypeOK' /\ silence' \in 0..MaxSilence /\ WatchInv'
    BY <1>1, WatchStep
  <2>5. CursorInv' /\ pending' \in 0..MaxPending /\ NothingWaitsWhenHealthy'
    BY <1>1, <2>4, CursorStep
  <2> QED BY <2>3, <2>4, <2>5 DEF IInv, AlarmHistoryTypeOK
<1>2. CASE UNCHANGED alarmHistoryVars
  BY <1>2 DEF alarmHistoryVars, alarmVars, histVars, historyVars, IInv,
     AlarmHistoryTypeOK, AlarmTypeOK, HistTypeOK, ShownInv, CursorInv, WatchInv,
     NothingWaitsWhenHealthy, Connected
<1> QED BY <1>1, <1>2 DEF AlarmHistoryNext

\* The typing, the shown alarm, the event cursor and the heartbeat watch hold
\* together in every scan; each of the results below reads off a part of them.
THEOREM Invariance == AlarmHistorySpec => []IInv
<1> QED BY InitInv, StepInv, PTL DEF AlarmHistorySpec

------------------------------------------------------------------------------
(* The results.                                                              *)

\* Every variable of the alarm manager and of the connector keeps its type, the
\* slots and numbers of the ring included.
THEOREM TypeCorrect == AlarmHistorySpec => []AlarmHistoryTypeOK
<1>1. IInv => AlarmHistoryTypeOK
  BY DEF IInv
<1> QED BY <1>1, Invariance, PTL

\* The channel backs off exactly on MaxMissedHeartbeats timeouts of silence, up
\* to the wrap of the counter, for every timing of heartbeats and samples.
THEOREM BackoffIsExact == AlarmHistorySpec => []BacksOffWhenSilent
<1>1. IInv => BacksOffWhenSilent
  BY DEF IInv, WatchInv, BacksOffWhenSilent
<1> QED BY <1>1, Invariance, PTL

\* No event waits behind a healthy channel, whatever the sequence numbers wrap to.
THEOREM CatchesUp == AlarmHistorySpec => []NothingWaitsWhenHealthy
<1>1. IInv => NothingWaitsWhenHealthy
  BY DEF IInv
<1> QED BY <1>1, Invariance, PTL

\* A held acknowledge button acknowledges no alarm that comes later.
THEOREM AcknowledgementIsFresh == AlarmHistorySpec => AckIsFresh
<1> DEFINE Fresh == xAnyAlarmActive' /\ ~xAnyUnacked'
                      => \/ xAckLast' /\ ~xAckLast
                         \/ /\ xAnyAlarmActive /\ eActiveAlarmCode' = eActiveAlarmCode
                            /\ ~xAnyUnacked
<1>1. IInv /\ IInv' /\ [AlarmHistoryNext]_alarmHistoryVars => [Fresh]_alarmHistoryVars
  <2> SUFFICES ASSUME IInv, IInv', NEW scene \in Scenes, Scan(scene) PROVE Fresh
    BY DEF AlarmHistoryNext
  <2> DEFINE in == AlarmIn(scene)
  <2>1. Acknowledge(in) /\ xAckLast' = in.xAcknowledge
    BY DEF Scan, AlarmScan
  <2>2. /\ xAnyUnacked <=> xAnyAlarmActive /\ ~xAckLatched
        /\ (xAnyUnacked <=> xAnyAlarmActive /\ ~xAckLatched)'
        /\ {xAnyAlarmActive, xAckLatched} \subseteq BOOLEAN
        /\ {xAnyAlarmActive', xAckLatched'} \subseteq BOOLEAN
    BY DEF IInv, ShownInv, AlarmHistoryTypeOK, AlarmTypeOK
  <2> HIDE DEF in
  <2> QED BY <2>1, <2>2 DEF Acknowledge, AckRise, RaisedOrChanged
<1> QED BY <1>1, Invariance, PTL DEF AlarmHistorySpec, AckIsFresh

\* The sounder stops only for the operator or with the alarm that it announces.
THEOREM SounderStaysOn == AlarmHistorySpec => SounderNotForgotten
<1> DEFINE Announced == "SOUNDER" \in stackLights /\ "SOUNDER" \notin stackLights'
                          => \/ xAckLast' /\ ~xAckLast
                             \/ eActiveAlarmCode' # eActiveAlarmCode
<1>1. IInv /\ IInv' /\ [AlarmHistoryNext]_alarmHistoryVars => [Announced]_alarmHistoryVars
  <2> SUFFICES ASSUME IInv, IInv', NEW scene \in Scenes, Scan(scene) PROVE Announced
    BY DEF AlarmHistoryNext
  <2> DEFINE in == AlarmIn(scene)
  <2>1. Acknowledge(in) /\ xAckLast' = in.xAcknowledge
    BY DEF Scan, AlarmScan
  <2>2. /\ ShownInv /\ ShownInv'
        /\ {xAnyAlarmActive, xAckLatched} \subseteq BOOLEAN
        /\ {xAnyAlarmActive', xAckLatched'} \subseteq BOOLEAN
    BY DEF IInv, AlarmHistoryTypeOK, AlarmTypeOK
  <2> HIDE DEF in
  <2> QED BY <2>1, <2>2 DEF Acknowledge, AckRise, RaisedOrChanged, ShownInv
<1> QED BY <1>1, Invariance, PTL DEF AlarmHistorySpec, SounderNotForgotten

\* A scan is a step of the abstract log: what it appends to the ring is what the
\* log reports of the change of the shown alarm and of the two buttons.
LEMMA StepObserves ==
  ASSUME IInv, NEW scene \in Scenes, Scan(scene), IInv'
  PROVE  Log!Next
<1> DEFINE in == AlarmIn(scene)
           log0 == Contents(stTimeline)
           acknowledged == AckRise(in) /\ xAnyAlarmActive'
           reset == ResetRise(in)
<1>1. in \in AlarmInput /\ AlarmScan(in)
  BY SceneTypes DEF Scan
<1>2. /\ xAnyAlarmActive <=> eActiveAlarmCode # "NONE"
      /\ xAnyAlarmActive' <=> eActiveAlarmCode' # "NONE"
      /\ eActiveAlarmCode' \in AlarmCodes \cup {"NONE"}
      /\ xAnyAlarmActive' \in BOOLEAN
  BY DEF IInv, ShownInv, AlarmHistoryTypeOK, AlarmTypeOK
<1>3. Contents(stTimeline')
        = Log!Latest(((log0 \o StateEvents) \o AcknowledgeEvents(in)) \o ResetEvents(in))
  <2>1. /\ pending \in Nat /\ udiLastEventSequence \in 0..SequenceModulus - 1
        /\ Tracks(stTimeline, udiLastEventSequence, pending)
    BY AlarmHistoryAssumption DEF IInv, CursorInv, AlarmHistoryTypeOK
  <2>2. LogEvents(in)
    BY <1>1 DEF AlarmScan
  <2> QED BY <1>1, <1>2, <2>1, <2>2, LoggedContents
<1>4. StateEvents = Log!Report(eActiveAlarmCode')
  BY <1>2 DEF StateEvents, RaisedOrChanged, Log!Report
<1>5. /\ AcknowledgeEvents(in) = IF acknowledged THEN <<"ACKNOWLEDGED">> ELSE <<>>
      /\ ResetEvents(in) = IF reset THEN <<"RESET">> ELSE <<>>
  BY DEF AcknowledgeEvents, ResetEvents
<1>6. acknowledged \in BOOLEAN /\ reset \in BOOLEAN
  BY DEF AckRise, ResetRise
<1>7. acknowledged => eActiveAlarmCode' # "NONE"
  BY <1>2
<1> HIDE DEF acknowledged, reset, in, log0
<1>8. Contents(stTimeline')
        = Log!Latest(log0 \o Log!Report(eActiveAlarmCode')
                          \o (IF acknowledged THEN <<"ACKNOWLEDGED">> ELSE <<>>)
                          \o (IF reset THEN <<"RESET">> ELSE <<>>))
  BY <1>3, <1>4, <1>5, Zenon
<1>9. Log!Observe(eActiveAlarmCode', acknowledged, reset)
  BY <1>7, <1>8, Zenon DEF Log!Observe, log0
<1> QED BY <1>2, <1>6, <1>9 DEF Log!Next

\* The ring buffer, the manager and the connector implement the abstract log.
THEOREM RingImplementsLog == AlarmHistorySpec => ImplementsLog
<1>1. AlarmHistoryInit => Log!Init
  BY DEF AlarmHistoryInit, AlarmInit, Log!Init, ClearTimeline, Contents
<1>2. IInv /\ IInv' /\ [AlarmHistoryNext]_alarmHistoryVars => [Log!Next]_(Log!vars)
  <2>1. CASE UNCHANGED alarmHistoryVars
    BY <2>1 DEF alarmHistoryVars, alarmVars, Log!vars, Contents
  <2>2. ASSUME IInv, IInv', NEW scene \in Scenes, Scan(scene)
        PROVE  Log!Next
    BY <2>2, StepObserves
  <2> QED BY <2>1, <2>2 DEF AlarmHistoryNext
<1> QED BY <1>1, <1>2, Invariance, PTL DEF AlarmHistorySpec, ImplementsLog, Log!Spec
==============================================================================
