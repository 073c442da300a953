------------------------ MODULE GpuDescriptorHeapProofs ------------------------
(***************************************************************************)
(* Proof that the descriptor heap keeps every handle intact, for every     *)
(* size, every set of tables and every number of sync points.              *)
(***************************************************************************)
EXTENDS GpuDescriptorHeap, TLAPS

Mark == [point : 0..MaxSync, index : Slots]
MarkSeqs == Seq(Mark) \ {<<>>}
Handle == [at : Slots, table : Seq(Descriptors) \ {<<>>}, until : Nat]

(* What the types of a sequence of marks and of a table say.               *)
LEMMA MarkFacts ==
  ASSUME NEW ms \in MarkSeqs
  PROVE  /\ ms \in Seq(Mark) /\ Len(ms) \in Nat \ {0} /\ DOMAIN ms = 1..Len(ms)
         /\ \A k \in 1..Len(ms) : ms[k] \in Mark /\ ms[k].index \in Slots /\ ms[k].point \in 0..MaxSync
         /\ ms[1].index \in Slots
<1>1. ms \in Seq(Mark) /\ ms # <<>>
  BY DEF MarkSeqs
<1>2. Len(ms) \in Nat /\ DOMAIN ms = 1..Len(ms)
  BY <1>1
<1>3. Len(ms) # 0
  BY <1>1
<1>4. \A k \in 1..Len(ms) : ms[k] \in Mark
  BY <1>1
<1>5. \A k \in 1..Len(ms) : ms[k].index \in Slots /\ ms[k].point \in 0..MaxSync
  BY <1>4 DEF Mark
<1>6. 1 \in 1..Len(ms)
  BY <1>2, <1>3
<1>7. ms[1].index \in Slots
  BY <1>5, <1>6
<1> QED  BY <1>1, <1>2, <1>3, <1>4, <1>5, <1>7

LEMMA TableFacts ==
  ASSUME NEW table \in Seq(Descriptors) \ {<<>>}
  PROVE  /\ table \in Seq(Descriptors) /\ Len(table) \in Nat \ {0}
         /\ \A i \in 1..Len(table) : table[i] \in Descriptors
<1>1. table \in Seq(Descriptors) /\ table # <<>>
  OBVIOUS
<1>2. Len(table) \in Nat /\ Len(table) # 0
  BY <1>1
<1> QED  BY <1>1, <1>2

LEMMA HandleFacts ==
  ASSUME NEW h \in Handle
  PROVE  h.at \in Slots /\ h.at \in Int /\ h.until \in Nat /\ Len(h.table) \in Nat \ {0}
<1>1. h.table \in Seq(Descriptors) \ {<<>>}
  BY DEF Handle
<1> QED  BY <1>1, TableFacts DEF Handle, Slots

-----------------------------------------------------------------------------
(* Arithmetic of the ring *)

(* A distance is less than the size, and 0 from a slot to itself.          *)
LEMMA DistType ==
  ASSUME NEW f \in Slots, NEW i \in Slots
  PROVE  Dist(f, i) \in Int /\ 0 <= Dist(f, i) /\ Dist(f, i) <= Size - 1 /\ Dist(f, f) = 0
BY SizeAssumption DEF Dist, Wrap, Slots

(* Moving the origin from f to g takes the distance of g off every slot    *)
(* that is no nearer than g.                                               *)
LEMMA DistShift ==
  ASSUME NEW f \in Slots, NEW g \in Slots, NEW i \in Slots, Dist(f, g) <= Dist(f, i)
  PROVE  Dist(g, i) = Dist(f, i) - Dist(f, g)
BY SizeAssumption DEF Dist, Wrap, Slots

(* A table that ends within the heap and before the head lies in one piece *)
(* seen from the origin.                                                   *)
LEMMA DistRun ==
  ASSUME NEW f \in Slots, NEW at \in Slots, NEW n \in Nat, NEW j \in 0..(n - 1),
         at + n <= Size, Dist(f, at) + n <= Size - 1
  PROVE  at + j \in Slots /\ Dist(f, at + j) = Dist(f, at) + j
BY SizeAssumption DEF Dist, Wrap, Slots

(* Where EnsureCapacity finds room, the table fits between the head and    *)
(* the oldest mark, and the head stays behind the oldest mark.             *)
LEMMA RoomIsFree ==
  ASSUME NEW ms \in MarkSeqs, head \in Slots, NEW n \in Nat \ {0}, HasRoom(ms, n)
  PROVE  /\ Start(n) \in Slots
         /\ Wrap(Start(n) + n) \in Slots
         /\ Start(n) + n <= Size
         /\ Dist(ms[1].index, head) <= Dist(ms[1].index, Start(n))
         /\ Dist(ms[1].index, Start(n)) + n <= Dist(ms[1].index, Wrap(Start(n) + n))
<1>1. ms[1].index \in Slots
  BY MarkFacts
<1> DEFINE f == ms[1].index
           tail == TailSlot(ms)
<1>2. /\ tail \in Int /\ tail = (IF f = 0 THEN Size - 1 ELSE f - 1)
      /\ f \in Int /\ 0 <= f /\ f < Size /\ head \in Int /\ 0 <= head /\ head < Size
  BY <1>1, SizeAssumption DEF TailSlot, Wrap, Slots
<1>3. \A i \in Int : 0 <= i /\ i < Size =>
        /\ Free(ms, i) = (IF tail < i THEN tail - i + Size ELSE tail - i)
        /\ Dist(f, i) = (IF i < f THEN i - f + Size ELSE i - f)
  BY <1>2, SizeAssumption DEF Free, Dist, Wrap
<1> HIDE DEF f, tail
<1>4. Start(n) \in Int /\ 0 <= Start(n) /\ Start(n) < Size /\ Start(n) + n <= Size
  <2>1. CASE MustRoll(n)
    <3>1. Start(n) = 0 /\ Free(ms, 0) >= n
      BY <2>1 DEF Start, HasRoom
    <3> QED  BY <3>1, <1>2, <1>3, SizeAssumption
  <2>2. CASE ~MustRoll(n)
    <3>1. Start(n) = head /\ ~(Size - head < n)
      BY <2>2 DEF Start, MustRoll
    <3> QED  BY <3>1, <1>2, SizeAssumption
  <2> QED  BY <2>1, <2>2
<1>5. Free(ms, Start(n)) >= n /\ Dist(f, head) <= Dist(f, Start(n))
  <2>1. CASE MustRoll(n)
    <3>1. Start(n) = 0 /\ Free(ms, head) >= Size - head /\ Free(ms, Start(n)) >= n
      BY <2>1 DEF Start, HasRoom, MayRoll
    <3> QED  BY <3>1, <1>2, <1>3, SizeAssumption
  <2>2. CASE ~MustRoll(n)
    <3>1. Start(n) = head /\ Free(ms, Start(n)) >= n
      BY <2>2 DEF Start, HasRoom
    <3>2. Dist(f, head) \in Int
      BY <1>2, <1>3, SizeAssumption
    <3>3. Dist(f, Start(n)) = Dist(f, head)
      BY <3>1
    <3> QED  BY <3>1, <3>2, <3>3
  <2> QED  BY <2>1, <2>2
<1>6. Wrap(Start(n) + n) = (IF Start(n) + n = Size THEN 0 ELSE Start(n) + n)
  BY <1>4, SizeAssumption DEF Wrap
<1>7. Dist(f, Start(n)) + n <= Dist(f, Wrap(Start(n) + n))
  BY <1>2, <1>3, <1>4, <1>5, <1>6, SizeAssumption
<1> QED  BY <1>4, <1>5, <1>6, <1>7, SizeAssumption DEF f, Slots

(* The head that a refused table leaves is not before the old one.         *)
LEMMA RollIsSafe ==
  ASSUME NEW ms \in MarkSeqs, head \in Slots, NEW n \in Nat \ {0}, MayRoll(ms)
  PROVE  Start(n) \in Slots /\ Dist(ms[1].index, head) <= Dist(ms[1].index, Start(n))
<1>1. ms[1].index \in Slots
  BY MarkFacts
<1> DEFINE f == ms[1].index
           tail == TailSlot(ms)
<1>2. /\ tail \in Int /\ tail = (IF f = 0 THEN Size - 1 ELSE f - 1)
      /\ f \in Int /\ 0 <= f /\ f < Size /\ head \in Int /\ 0 <= head /\ head < Size
  BY <1>1, SizeAssumption DEF TailSlot, Wrap, Slots
<1>3. \A i \in Int : 0 <= i /\ i < Size =>
        /\ Free(ms, i) = (IF tail < i THEN tail - i + Size ELSE tail - i)
        /\ Dist(f, i) = (IF i < f THEN i - f + Size ELSE i - f)
  BY <1>2, SizeAssumption DEF Free, Dist, Wrap
<1> HIDE DEF f, tail
<1>4. Free(ms, head) >= Size - head
  BY DEF MayRoll
<1>5. Dist(f, head) <= Dist(f, 0) /\ Dist(f, head) \in Int
  BY <1>2, <1>3, <1>4, SizeAssumption
<1>6. Start(n) = 0 \/ Start(n) = head
  BY DEF Start
<1>7. Dist(f, head) <= Dist(f, Start(n))
  BY <1>5, <1>6
<1> QED  BY <1>2, <1>6, <1>7, SizeAssumption DEF f, Slots

-----------------------------------------------------------------------------
(* What moves the origin or the head *)

(* A purge keeps the order of the marks, and every handle in use behind    *)
(* the marks of earlier batches.                                           *)
LEMMA PurgeKeepsOrder ==
  ASSUME NEW ms \in MarkSeqs, NEW hd \in Slots, NEW ms2 \in Purged(ms), completed \in Nat,
         MarksInOrder(ms, hd)
  PROVE  /\ ms2 \in MarkSeqs
         /\ MarksInOrder(ms2, hd)
         /\ \A k \in DOMAIN ms2 : \E i \in DOMAIN ms : ms2[k] = ms[i]
         /\ \A h \in Handle : h.until > completed /\ Behind(ms, hd, h) => Behind(ms2, hd, h)
<1>1. PICK n \in 0..(Len(ms) - 1) :
        /\ \A i \in 1..n : ms[i + 1].point <= completed
        /\ ms2 = SubSeq(ms, n + 1, Len(ms))
  BY DEF Purged
<1>2. /\ ms \in Seq(Mark) /\ Len(ms) \in Nat \ {0} /\ DOMAIN ms = 1..Len(ms)
      /\ \A k \in 1..Len(ms) : ms[k] \in Mark /\ ms[k].index \in Slots /\ ms[k].point \in 0..MaxSync
  BY MarkFacts
<1>3. /\ ms2 \in Seq(Mark) /\ Len(ms2) = Len(ms) - n /\ DOMAIN ms2 = 1..(Len(ms) - n)
      /\ \A k \in 1..(Len(ms) - n) : ms2[k] = ms[k + n]
  BY <1>1, <1>2
<1>4. ms2 \in MarkSeqs
  BY <1>2, <1>3 DEF MarkSeqs
<1>5. \A k \in DOMAIN ms2 : \E i \in DOMAIN ms : ms2[k] = ms[i]
  <2> SUFFICES ASSUME NEW k \in DOMAIN ms2 PROVE \E i \in DOMAIN ms : ms2[k] = ms[i]
    OBVIOUS
  <2>1. k + n \in DOMAIN ms /\ ms2[k] = ms[k + n]
    BY <1>2, <1>3
  <2> QED  BY <2>1
<1> DEFINE f == ms[1].index
           g == ms[n + 1].index
<1>6. f \in Slots /\ g \in Slots /\ ms2[1].index = g
  BY <1>2, <1>3
<1>7. \A i, k \in 1..Len(ms) : i <= k => Dist(f, ms[i].index) <= Dist(f, ms[k].index)
  BY <1>2 DEF MarksInOrder
<1>8. \A k \in 1..Len(ms) : Dist(f, ms[k].index) <= Dist(f, hd)
  BY <1>2 DEF MarksInOrder
<1>9. /\ Dist(f, hd) \in Int /\ Dist(f, g) \in Int
      /\ \A k \in 1..Len(ms) : Dist(f, ms[k].index) \in Int
  BY <1>2, <1>6, DistType
<1>10. \A k \in (n + 1)..Len(ms) : Dist(g, ms[k].index) = Dist(f, ms[k].index) - Dist(f, g)
  BY <1>2, <1>6, <1>7, DistShift
<1>11. Dist(g, hd) = Dist(f, hd) - Dist(f, g)
  BY <1>2, <1>6, <1>8, DistShift
<1> HIDE DEF f, g
<1>12. MarksInOrder(ms2, hd)
  <2> SUFFICES ASSUME NEW k \in DOMAIN ms2
               PROVE  /\ Dist(g, ms2[k].index) <= Dist(g, hd)
                      /\ \A i \in 1..k : Dist(g, ms2[i].index) <= Dist(g, ms2[k].index)
    BY <1>6 DEF MarksInOrder
  <2>1. k + n \in (n + 1)..Len(ms) /\ ms2[k] = ms[k + n] /\ k + n \in 1..Len(ms)
    BY <1>2, <1>3
  <2>2. Dist(g, ms2[k].index) <= Dist(g, hd)
    BY <2>1, <1>8, <1>9, <1>10, <1>11
  <2>3. ASSUME NEW i \in 1..k PROVE Dist(g, ms2[i].index) <= Dist(g, ms2[k].index)
    <3>1. i + n \in (n + 1)..Len(ms) /\ ms2[i] = ms[i + n] /\ i + n \in 1..Len(ms) /\ i + n <= k + n
      BY <1>2, <1>3, <2>1
    <3>2. Dist(f, ms[i + n].index) <= Dist(f, ms[k + n].index)
      BY <3>1, <2>1, <1>7
    <3> QED  BY <3>1, <3>2, <2>1, <1>9, <1>10
  <2> QED  BY <2>2, <2>3
<1>13. ASSUME NEW h \in Handle, h.until > completed, Behind(ms, hd, h)
       PROVE  Behind(ms2, hd, h)
  <2>1. /\ h.at \in Slots /\ h.until \in Nat /\ Len(h.table) \in Nat
        /\ h.at + Len(h.table) <= Size
        /\ Dist(f, h.at) + Len(h.table) <= Dist(f, hd)
        /\ \A k \in 1..Len(ms) : ms[k].point < h.until => Dist(f, ms[k].index) <= Dist(f, h.at)
    BY <1>2, <1>13, HandleFacts DEF Behind, f
  <2>2. Dist(f, g) <= Dist(f, h.at)
    <3>1. CASE n = 0
      BY <3>1, <1>6, <2>1, DistType DEF f, g
    <3>2. CASE n # 0
      <4>1. n \in 1..n /\ n + 1 \in 1..Len(ms)
        BY <3>2, <1>1, <1>2
      <4>2. ms[n + 1].point < h.until
        BY <4>1, <1>1, <1>2, <1>13, <2>1
      <4> QED  BY <4>1, <4>2, <2>1 DEF g
    <3> QED  BY <3>1, <3>2
  <2>3. Dist(g, h.at) = Dist(f, h.at) - Dist(f, g) /\ Dist(f, h.at) \in Int
    BY <2>1, <2>2, <1>6, DistShift, DistType
  <2>4. Dist(g, h.at) + Len(h.table) <= Dist(g, hd)
    BY <2>1, <2>3, <1>9, <1>11
  <2>5. ASSUME NEW k \in DOMAIN ms2, ms2[k].point < h.until
        PROVE  Dist(g, ms2[k].index) <= Dist(g, h.at)
    <3>1. k + n \in (n + 1)..Len(ms) /\ ms2[k] = ms[k + n] /\ k + n \in 1..Len(ms)
      BY <1>2, <1>3
    <3>2. Dist(f, ms[k + n].index) <= Dist(f, h.at)
      BY <3>1, <2>1, <2>5
    <3> QED  BY <3>1, <3>2, <2>3, <1>9, <1>10
  <2> QED  BY <2>1, <2>4, <2>5, <1>6 DEF Behind
<1> QED  BY <1>4, <1>5, <1>12, <1>13

(* A mark set at the head keeps the order.                                 *)
LEMMA MarkKeepsOrder ==
  ASSUME NEW ms \in MarkSeqs, NEW hd \in Slots, NEW p \in 0..MaxSync, MarksInOrder(ms, hd)
  PROVE  LET ms2 == Append(ms, [point |-> p, index |-> hd]) IN
         /\ ms2 \in MarkSeqs
         /\ MarksInOrder(ms2, hd)
         /\ \A k \in DOMAIN ms2 : (\E i \in DOMAIN ms : ms2[k] = ms[i]) \/ ms2[k].point = p
         /\ \A h \in Handle : h.until <= p /\ Behind(ms, hd, h) => Behind(ms2, hd, h)
<1> DEFINE ms2 == Append(ms, [point |-> p, index |-> hd])
<1>1. /\ ms \in Seq(Mark) /\ Len(ms) \in Nat \ {0} /\ DOMAIN ms = 1..Len(ms)
      /\ \A k \in 1..Len(ms) : ms[k] \in Mark /\ ms[k].index \in Slots /\ ms[k].point \in 0..MaxSync
  BY MarkFacts
<1>2. [point |-> p, index |-> hd] \in Mark
  BY DEF Mark
<1>3. /\ ms2 \in Seq(Mark) /\ Len(ms2) = Len(ms) + 1 /\ DOMAIN ms2 = 1..(Len(ms) + 1)
      /\ \A k \in 1..Len(ms) : ms2[k] = ms[k]
      /\ ms2[Len(ms) + 1] = [point |-> p, index |-> hd]
  BY <1>1, <1>2
<1> HIDE DEF ms2
<1>4. ms2 \in MarkSeqs
  BY <1>1, <1>3 DEF MarkSeqs
<1>5. ms2[1] = ms[1] /\ ms[1].index \in Slots
  BY <1>1, <1>3
<1>6. \A k \in 1..(Len(ms) + 1) : k \in 1..Len(ms) \/ k = Len(ms) + 1
  BY <1>1
<1>7. \A k \in DOMAIN ms2 : (\E i \in DOMAIN ms : ms2[k] = ms[i]) \/ ms2[k].point = p
  BY <1>1, <1>3, <1>6
<1>8. MarksInOrder(ms2, hd)
  <2> SUFFICES ASSUME NEW k \in DOMAIN ms2
               PROVE  /\ Dist(ms[1].index, ms2[k].index) <= Dist(ms[1].index, hd)
                      /\ \A i \in 1..k : Dist(ms[1].index, ms2[i].index) <= Dist(ms[1].index, ms2[k].index)
    BY <1>5 DEF MarksInOrder
  <2>1. Dist(ms[1].index, hd) \in Int
    BY <1>5, DistType DEF Slots
  <2>2. \A j \in 1..(Len(ms) + 1) : Dist(ms[1].index, ms2[j].index) <= Dist(ms[1].index, hd)
    BY <1>1, <1>3, <1>6, <2>1 DEF MarksInOrder
  <2>3. CASE k \in 1..Len(ms)
    <3>1. \A i \in 1..k : i \in 1..Len(ms)
      BY <2>3, <1>1
    <3> QED  BY <3>1, <2>2, <2>3, <1>1, <1>3 DEF MarksInOrder
  <2>4. CASE k = Len(ms) + 1
    BY <2>2, <2>4, <1>1, <1>3
  <2> QED  BY <2>3, <2>4, <1>3, <1>6
<1>9. ASSUME NEW h \in Handle, h.until <= p, Behind(ms, hd, h)
      PROVE  Behind(ms2, hd, h)
  <2>1. h.until \in Nat
    BY DEF Handle
  <2>2. ASSUME NEW k \in DOMAIN ms2, ms2[k].point < h.until
        PROVE  Dist(ms[1].index, ms2[k].index) <= Dist(ms[1].index, h.at)
    <3>1. k \in 1..Len(ms)
      BY <1>3, <1>6, <1>9, <2>1, <2>2
    <3> QED  BY <3>1, <2>2, <1>1, <1>3, <1>9 DEF Behind
  <2> QED  BY <2>2, <1>5, <1>9 DEF Behind
<1> QED  BY <1>4, <1>7, <1>8, <1>9 DEF ms2

(* A head moved away from the origin keeps the order.                      *)
LEMMA HeadKeepsOrder ==
  ASSUME NEW ms \in MarkSeqs, NEW hd \in Slots, NEW hd2 \in Slots, MarksInOrder(ms, hd),
         Dist(ms[1].index, hd) <= Dist(ms[1].index, hd2)
  PROVE  /\ MarksInOrder(ms, hd2)
         /\ \A h \in Handle : Behind(ms, hd, h) => Behind(ms, hd2, h)
<1>1. /\ DOMAIN ms = 1..Len(ms) /\ Len(ms) \in Nat \ {0}
      /\ ms[1].index \in Slots
      /\ \A k \in 1..Len(ms) : ms[k].index \in Slots
  BY MarkFacts
<1>2. /\ Dist(ms[1].index, hd) \in Int /\ Dist(ms[1].index, hd2) \in Int
      /\ \A k \in 1..Len(ms) : Dist(ms[1].index, ms[k].index) \in Int
  BY <1>1, DistType
<1>3. MarksInOrder(ms, hd2)
  BY <1>1, <1>2 DEF MarksInOrder
<1>4. ASSUME NEW h \in Handle, Behind(ms, hd, h) PROVE Behind(ms, hd2, h)
  <2>1. h.at \in Slots /\ Len(h.table) \in Nat /\ Dist(ms[1].index, h.at) \in Int
    BY <1>1, DistType, HandleFacts
  <2> QED  BY <1>2, <1>4, <2>1 DEF Behind
<1> QED  BY <1>3, <1>4

(* What is written behind the head overwrites no handle before it.         *)
LEMMA WriteIsClear ==
  ASSUME NEW ms \in MarkSeqs, head \in Slots, NEW table \in Seq(Descriptors) \ {<<>>},
         HasRoom(ms, Len(table)), Write(Start(Len(table)), table),
         NEW h \in Handle, Behind(ms, head, h), Holds(heap, h)
  PROVE  Holds(heap', h)
<1> DEFINE n == Len(table)
           at == Start(n)
           f == ms[1].index
<1>1. n \in Nat \ {0} /\ f \in Slots
  BY MarkFacts, TableFacts
<1>2. at \in Slots /\ at + n <= Size /\ Dist(f, head) <= Dist(f, at) /\ Dist(f, at) + n <= Dist(f, Wrap(at + n)) /\ Wrap(at + n) \in Slots
  BY <1>1, RoomIsFree
<1>3. heap' = [j \in Slots |-> IF j \in at..(at + n - 1) THEN table[j - at + 1] ELSE heap[j]]
  BY DEF Write
<1> SUFFICES ASSUME NEW i \in 1..Len(h.table) PROVE heap'[h.at + i - 1] = h.table[i]
  BY DEF Holds
<1> DEFINE j == h.at + i - 1
<1> HIDE DEF n, at, f, j
<1>4. /\ h.at \in Slots /\ Len(h.table) \in Nat /\ h.at + Len(h.table) <= Size
      /\ Dist(f, h.at) + Len(h.table) <= Dist(f, head)
  BY HandleFacts DEF Behind, f
<1>5. /\ Dist(f, head) \in Int /\ Dist(f, head) <= Size - 1
      /\ Dist(f, Wrap(at + n)) \in Int /\ Dist(f, Wrap(at + n)) <= Size - 1
      /\ Dist(f, at) \in Int /\ Dist(f, h.at) \in Int
  BY <1>1, <1>2, <1>4, DistType
<1>6. j \in Slots /\ Dist(f, j) = Dist(f, h.at) + (i - 1)
  <2>1. i - 1 \in 0..(Len(h.table) - 1) /\ j = h.at + (i - 1) /\ Dist(f, h.at) + Len(h.table) <= Size - 1
    BY <1>4, <1>5, SizeAssumption DEF j, Slots
  <2> QED  BY <2>1, <1>1, <1>4, DistRun
<1>7. j \notin at..(at + n - 1)
  <2> SUFFICES ASSUME j \in at..(at + n - 1) PROVE FALSE
    OBVIOUS
  <2>1. j - at \in 0..(n - 1) /\ j = at + (j - at) /\ Dist(f, at) + n <= Size - 1
    BY <1>1, <1>2, <1>5, <1>6, SizeAssumption DEF Slots
  <2>2. Dist(f, j) = Dist(f, at) + (j - at)
    BY <2>1, <1>1, <1>2, DistRun
  <2> QED  BY <2>1, <2>2, <1>2, <1>4, <1>5, <1>6
<1>8. heap'[j] = heap[j]
  BY <1>3, <1>6, <1>7
<1>9. heap[j] = h.table[i]
  BY DEF Holds, j
<1> QED  BY <1>8, <1>9 DEF j

-----------------------------------------------------------------------------
(* The invariant *)

LEMMA InvFacts ==
  ASSUME TypeOK
  PROVE  /\ sync \in Int /\ completed \in Nat /\ completed <= sync
         /\ head \in Slots /\ marks \in MarkSeqs
         /\ inUse \subseteq Handle /\ Found \subseteq Handle /\ Handles \subseteq Handle
         /\ \A h \in Handles : h.until > completed /\ h.until <= sync + 1
<1>1. /\ sync \in 0..MaxSync /\ completed \in 0..sync /\ head \in Slots
      /\ sync \in Int /\ completed \in Nat /\ completed <= sync
  BY MaxSyncAssumption DEF TypeOK
<1>2. [point : 0..sync, index : Slots] \subseteq Mark
  BY <1>1, MaxSyncAssumption DEF Mark
<1>3. marks \in MarkSeqs
  <2> DEFINE M == [point : 0..sync, index : Slots]
  <2>1. marks \in Seq(M) /\ marks # <<>>
    BY DEF TypeOK
  <2>2. M \subseteq Mark
    BY <1>2
  <2> HIDE DEF M
  <2>3. Len(marks) \in Nat /\ marks \in [1..Len(marks) -> Mark]
    BY <2>1, <2>2
  <2> QED  BY <2>1, <2>3 DEF MarkSeqs
<1>4. \A h \in inUse : h \in Handle /\ h.until > completed /\ h.until <= sync + 1
  BY <1>1 DEF TypeOK, Handle
<1>5. \A h \in Found : h \in Handle /\ h.until > completed /\ h.until <= sync + 1
  <2> SUFFICES ASSUME NEW t \in Tables, lookup[t] # Unknown
               PROVE  /\ [at |-> lookup[t], table |-> t, until |-> sync + 1] \in Handle
                      /\ sync + 1 > completed /\ sync + 1 <= sync + 1
    BY DEF Found
  <2>1. lookup[t] \in Slots /\ t \in Seq(Descriptors) \ {<<>>}
    BY TablesAssumption DEF TypeOK
  <2> QED  BY <2>1, <1>1 DEF Handle
<1> QED  BY <1>1, <1>3, <1>4, <1>5 DEF Handles

LEMMA InitInv == Init => IInv
<1> SUFFICES ASSUME Init PROVE IInv
  OBVIOUS
<1> USE DEF Init
<1>1. 0 \in Slots
  BY SizeAssumption DEF Slots
<1>2. TypeOK
  <2>1. marks \in Seq([point : 0..sync, index : Slots]) \ {<<>>}
    BY <1>1
  <2>2. sync \in 0..MaxSync /\ completed \in 0..sync
    BY MaxSyncAssumption
  <2> QED  BY <1>1, <2>1, <2>2 DEF TypeOK
<1>3. Handles = {}
  BY DEF Handles, Found
<1>4. MarksInOrder(marks, head) /\ \A k \in DOMAIN marks : marks[k].point <= sync
  <2>1. DOMAIN marks = {1} /\ marks[1].index = 0 /\ marks[1].point = 0
    OBVIOUS
  <2>2. Dist(0, 0) <= Dist(0, 0)
    BY <1>1, DistType
  <2> QED  BY <2>1, <2>2 DEF MarksInOrder
<1> QED  BY <1>2, <1>3, <1>4 DEF IInv

(* Placing a table, with the purge before it.                              *)
LEMMA PlaceKeepsOrder ==
  ASSUME IInv, NEW table \in Seq(Descriptors) \ {<<>>}, Place(table), UNCHANGED sync
  PROVE  LET new == [at |-> Start(Len(table)), table |-> table, until |-> sync + 1] IN
         /\ Start(Len(table)) \in Slots
         /\ inUse' = inUse \cup {new}
         /\ heap' \in [Slots -> Descriptors] /\ head' \in Slots /\ marks' \in MarkSeqs
         /\ \A k \in DOMAIN marks' : \E i \in DOMAIN marks : marks'[k] = marks[i]
         /\ MarksInOrder(marks', head')
         /\ \A h \in Handles \cup {new} : Behind(marks', head', h) /\ Holds(heap', h)
<1> DEFINE n == Len(table)
           new == [at |-> Start(n), table |-> table, until |-> sync + 1]
<1>1. PICK ms \in Purged(marks) : HasRoom(ms, n) /\ marks' = ms
  BY DEF Place
<1>2. Write(Start(n), table) /\ inUse' = inUse \cup {new} /\ head' = Wrap(Start(n) + n)
  BY DEF Place, Uses
<1>3. n \in Nat \ {0} /\ table \in Seq(Descriptors)
  BY TableFacts
<1>4. /\ head \in Slots /\ marks \in MarkSeqs /\ Handles \subseteq Handle /\ completed \in Nat
      /\ sync \in Int /\ completed <= sync
      /\ \A h \in Handles : h.until > completed
  BY InvFacts DEF IInv
<1>5. /\ MarksInOrder(marks, head)
      /\ \A k \in DOMAIN marks : marks[k].point <= sync
      /\ \A h \in Handles : Behind(marks, head, h) /\ Holds(heap, h)
  BY DEF IInv
<1>6. /\ ms \in MarkSeqs /\ MarksInOrder(ms, head)
      /\ \A k \in DOMAIN ms : \E i \in DOMAIN marks : ms[k] = marks[i]
      /\ \A h \in Handles : Behind(ms, head, h)
  BY <1>4, <1>5, PurgeKeepsOrder
<1>7. /\ Start(n) \in Slots /\ Wrap(Start(n) + n) \in Slots /\ Start(n) + n <= Size
      /\ Dist(ms[1].index, head) <= Dist(ms[1].index, Start(n))
      /\ Dist(ms[1].index, Start(n)) + n <= Dist(ms[1].index, head')
  BY <1>1, <1>2, <1>3, <1>4, <1>6, RoomIsFree
<1>8. ms[1].index \in Slots /\ DOMAIN ms = 1..Len(ms) /\ \A k \in 1..Len(ms) : ms[k].index \in Slots
  BY <1>6, MarkFacts
<1>9. /\ Dist(ms[1].index, head) \in Int /\ Dist(ms[1].index, Start(n)) \in Int /\ Dist(ms[1].index, head') \in Int
      /\ \A k \in 1..Len(ms) : Dist(ms[1].index, ms[k].index) \in Int
  BY <1>2, <1>4, <1>7, <1>8, DistType
<1>10. Dist(ms[1].index, head) <= Dist(ms[1].index, head')
  BY <1>3, <1>7, <1>9
<1>11. MarksInOrder(ms, head') /\ \A h \in Handles : Behind(ms, head', h)
  BY <1>2, <1>4, <1>6, <1>7, <1>10, HeadKeepsOrder
<1>12. \A h \in Handles : Holds(heap', h)
  BY <1>1, <1>2, <1>4, <1>5, <1>6, WriteIsClear
<1>13. Behind(ms, head', new)
  <2>1. \A k \in 1..Len(ms) : Dist(ms[1].index, ms[k].index) <= Dist(ms[1].index, Start(n))
    BY <1>6, <1>7, <1>8, <1>9 DEF MarksInOrder
  <2> QED  BY <2>1, <1>7, <1>8 DEF Behind
<1>14. heap' = [j \in Slots |-> IF j \in Start(n)..(Start(n) + n - 1) THEN table[j - Start(n) + 1] ELSE heap[j]]
  BY <1>2 DEF Write
<1>15. Holds(heap', new)
  <2> SUFFICES ASSUME NEW i \in 1..n PROVE heap'[Start(n) + i - 1] = table[i]
    BY DEF Holds
  <2> DEFINE j == Start(n) + i - 1
  <2>1. j \in Slots /\ j \in Start(n)..(Start(n) + n - 1) /\ j - Start(n) + 1 = i
    BY <1>3, <1>7, SizeAssumption DEF Slots
  <2> HIDE DEF j
  <2>2. heap'[j] = table[j - Start(n) + 1]
    BY <1>14, <2>1
  <2> QED  BY <2>1, <2>2 DEF j
<1>16. heap' \in [Slots -> Descriptors]
  <2>1. heap \in [Slots -> Descriptors]
    BY DEF IInv, TypeOK
  <2> SUFFICES ASSUME NEW j \in Slots, j \in Start(n)..(Start(n) + n - 1)
               PROVE  table[j - Start(n) + 1] \in Descriptors
    BY <1>14, <2>1
  <2>2. j - Start(n) + 1 \in 1..n
    BY <1>3, <1>7, SizeAssumption DEF Slots
  <2> QED  BY <2>2, TableFacts
<1> HIDE DEF n, new
<1>17. /\ inUse' = inUse \cup {new} /\ head' \in Slots /\ marks' \in MarkSeqs
       /\ \A h \in Handles \cup {new} : Behind(marks', head', h) /\ Holds(heap', h)
  BY <1>1, <1>2, <1>6, <1>7, <1>11, <1>12, <1>13, <1>15
<1> QED  BY <1>1, <1>6, <1>7, <1>11, <1>16, <1>17 DEF n, new

(* Every step keeps the invariant.                                         *)
LEMMA MarksType ==
  ASSUME NEW ms \in MarkSeqs, NEW s \in Nat, \A k \in DOMAIN ms : ms[k].point <= s
  PROVE  ms \in Seq([point : 0..s, index : Slots]) \ {<<>>}
<1>1. /\ ms \in Seq(Mark) /\ Len(ms) \in Nat \ {0} /\ DOMAIN ms = 1..Len(ms)
      /\ \A k \in 1..Len(ms) : ms[k] \in Mark /\ ms[k].index \in Slots /\ ms[k].point \in 0..MaxSync
  BY MarkFacts
<1>2. \A k \in 1..Len(ms) : ms[k] \in [point : 0..s, index : Slots]
  BY <1>1, MaxSyncAssumption DEF Mark
<1> DEFINE M == [point : 0..s, index : Slots]
<1> HIDE DEF M
<1>3. ms \in [1..Len(ms) -> M]
  BY <1>1, <1>2 DEF M
<1>4. ms \in Seq(M) /\ ms # <<>>
  BY <1>1, <1>3
<1> QED  BY <1>4 DEF M

LEMMA GpuAdvanceInv == IInv /\ GpuAdvance => IInv'
<1> SUFFICES ASSUME IInv, GpuAdvance PROVE IInv'
  OBVIOUS
<1>1. /\ completed' = completed + 1 /\ completed < sync
      /\ inUse' = {h \in inUse : h.until > completed'}
      /\ heap' = heap /\ head' = head /\ marks' = marks /\ lookup' = lookup /\ sync' = sync
  BY DEF GpuAdvance
<1>2. /\ sync \in Int /\ completed \in Nat /\ sync \in 0..MaxSync
  BY InvFacts DEF IInv, TypeOK
<1>3. inUse' \subseteq [at : Slots, table : Seq(Descriptors) \ {<<>>}, until : (completed' + 1)..(sync' + 1)]
  BY <1>1, <1>2 DEF IInv, TypeOK
<1>4. TypeOK'
  <2>1. completed' \in 0..sync'
    BY <1>1, <1>2
  <2> QED  BY <1>1, <1>3, <2>1 DEF IInv, TypeOK
<1>5. Handles' \subseteq Handles
  BY <1>1 DEF Handles, Found
<1> QED  BY <1>1, <1>4, <1>5 DEF IInv, MarksInOrder, Behind, Holds

LEMMA AddSyncPointInv == IInv /\ AddSyncPoint => IInv'
<1> SUFFICES ASSUME IInv, AddSyncPoint PROVE IInv'
  OBVIOUS
<1> DEFINE m == [point |-> sync + 1, index |-> head]
           ms == Append(marks, m)
<1>1. /\ sync < MaxSync /\ sync' = sync + 1 /\ marks' \in Purged(ms)
      /\ lookup' = [t \in Tables |-> Unknown]
      /\ heap' = heap /\ head' = head /\ completed' = completed /\ inUse' = inUse
  BY DEF AddSyncPoint
<1>2. /\ head \in Slots /\ marks \in MarkSeqs /\ inUse \subseteq Handle /\ completed \in Nat
      /\ sync \in Int /\ completed <= sync /\ sync \in Nat /\ sync + 1 \in 0..MaxSync
      /\ \A h \in inUse : h.until > completed /\ h.until <= sync + 1
  BY <1>1, InvFacts, MaxSyncAssumption DEF IInv, Handles, TypeOK
<1>3. /\ MarksInOrder(marks, head)
      /\ \A k \in DOMAIN marks : marks[k].point <= sync
      /\ \A h \in inUse : Behind(marks, head, h) /\ Holds(heap, h)
  BY DEF IInv, Handles
<1>4. /\ ms \in MarkSeqs /\ MarksInOrder(ms, head)
      /\ \A k \in DOMAIN ms : (\E i \in DOMAIN marks : ms[k] = marks[i]) \/ ms[k].point = sync + 1
      /\ \A h \in inUse : Behind(ms, head, h)
  BY <1>2, <1>3, MarkKeepsOrder
<1> HIDE DEF ms
<1>5. /\ marks' \in MarkSeqs /\ MarksInOrder(marks', head)
      /\ \A k \in DOMAIN marks' : \E i \in DOMAIN ms : marks'[k] = ms[i]
      /\ \A h \in inUse : Behind(marks', head, h)
  BY <1>1, <1>2, <1>4, PurgeKeepsOrder
<1>6. \A k \in DOMAIN marks' : marks'[k].point <= sync'
  <2>1. \A k \in DOMAIN ms : ms[k].point <= sync + 1
    <3> SUFFICES ASSUME NEW k \in DOMAIN ms PROVE ms[k].point <= sync + 1
      OBVIOUS
    <3>1. ASSUME NEW i \in DOMAIN marks, ms[k] = marks[i] PROVE ms[k].point <= sync + 1
      <4>1. marks[i].point \in Int /\ marks[i].point <= sync
        BY <1>2, <1>3, MarkFacts, MaxSyncAssumption
      <4> QED  BY <3>1, <4>1, <1>2
    <3>2. ms[k].point = sync + 1 => ms[k].point <= sync + 1
      BY <1>2
    <3> QED  BY <1>4, <3>1, <3>2
  <2> QED  BY <2>1, <1>1, <1>5
<1>7. Found' = {}
  BY <1>1 DEF Found
<1>8. TypeOK'
  <2>1. marks' \in Seq([point : 0..sync', index : Slots]) \ {<<>>}
    BY <1>1, <1>2, <1>5, <1>6, MarksType
  <2>2. sync' \in 0..MaxSync /\ completed' \in 0..sync'
    BY <1>1, <1>2
  <2>3. lookup' \in [Tables -> Slots \cup {Unknown}]
    BY <1>1
  <2>4. inUse' \subseteq [at : Slots, table : Seq(Descriptors) \ {<<>>}, until : (completed' + 1)..(sync' + 1)]
    BY <1>1, <1>2 DEF IInv, TypeOK
  <2> QED  BY <1>1, <2>1, <2>2, <2>3, <2>4 DEF IInv, TypeOK
<1>9. \A h \in Handles' : Behind(marks', head', h) /\ Holds(heap', h)
  BY <1>1, <1>3, <1>5, <1>7 DEF Handles
<1> QED  BY <1>1, <1>5, <1>6, <1>8, <1>9 DEF IInv

(* Placing a table keeps the invariant, whether or not it is remembered.   *)
LEMMA PlaceInv ==
  ASSUME IInv, NEW table \in Seq(Descriptors) \ {<<>>}, Place(table), UNCHANGED <<sync, completed>>,
         \/ lookup' = lookup
         \/ table \in Tables /\ lookup' = [lookup EXCEPT ![table] = Start(Len(table))]
  PROVE  IInv'
<1> DEFINE at == Start(Len(table))
           new == [at |-> at, table |-> table, until |-> sync + 1]
<1>1. /\ at \in Slots /\ inUse' = inUse \cup {new}
      /\ heap' \in [Slots -> Descriptors] /\ head' \in Slots /\ marks' \in MarkSeqs
      /\ \A k \in DOMAIN marks' : \E i \in DOMAIN marks : marks'[k] = marks[i]
      /\ MarksInOrder(marks', head')
      /\ \A h \in Handles \cup {new} : Behind(marks', head', h) /\ Holds(heap', h)
  BY PlaceKeepsOrder
<1>2. /\ sync \in Nat /\ completed \in Nat /\ completed <= sync /\ sync \in 0..MaxSync
      /\ lookup \in [Tables -> Slots \cup {Unknown}]
  BY InvFacts, MaxSyncAssumption DEF IInv, TypeOK
<1> HIDE DEF at
<1>3. \A k \in DOMAIN marks' : marks'[k].point <= sync'
  BY <1>1 DEF IInv
<1>4. Handles' \subseteq Handles \cup {new}
  <2>1. ASSUME NEW t \in Tables, lookup'[t] # Unknown
        PROVE  [at |-> lookup'[t], table |-> t, until |-> sync' + 1] \in Found \cup {new}
    <3>1. CASE lookup' = lookup
      BY <2>1, <3>1 DEF Found
    <3>2. CASE table \in Tables /\ lookup' = [lookup EXCEPT ![table] = at]
      <4>1. CASE t = table
        BY <3>2, <4>1, <1>2
      <4>2. CASE t # table
        BY <2>1, <3>2, <4>2, <1>2 DEF Found
      <4> QED  BY <4>1, <4>2
    <3> QED  BY <3>1, <3>2 DEF at
  <2>2. Found' \subseteq Found \cup {new}
    BY <2>1 DEF Found
  <2> QED  BY <1>1, <2>2 DEF Handles
<1>5. TypeOK'
  <2>1. marks' \in Seq([point : 0..sync', index : Slots]) \ {<<>>}
    BY <1>1, <1>2, <1>3, MarksType
  <2>2. lookup' \in [Tables -> Slots \cup {Unknown}]
    BY <1>1, <1>2 DEF at
  <2>3. new \in [at : Slots, table : Seq(Descriptors) \ {<<>>}, until : (completed + 1)..(sync + 1)]
    BY <1>1, <1>2
  <2>4. inUse' \subseteq [at : Slots, table : Seq(Descriptors) \ {<<>>}, until : (completed' + 1)..(sync' + 1)]
    BY <1>1, <2>3 DEF IInv, TypeOK
  <2> QED  BY <1>1, <1>2, <2>1, <2>2, <2>4 DEF TypeOK
<1>6. \A h \in Handles' : Behind(marks', head', h) /\ Holds(heap', h)
  BY <1>1, <1>4
<1> QED  BY <1>1, <1>3, <1>5, <1>6 DEF IInv

LEMMA AddTableInv == ASSUME NEW table \in Tables PROVE IInv /\ AddTable(table) => IInv'
<1>1. table \in Seq(Descriptors) \ {<<>>}
  BY TablesAssumption
<1> QED  BY <1>1, PlaceInv DEF AddTable

LEMMA AddViewInv == ASSUME NEW des \in Descriptors PROVE IInv /\ AddView(des) => IInv'
<1>1. <<des>> \in Seq(Descriptors) \ {<<>>}
  OBVIOUS
<1> QED  BY <1>1, PlaceInv DEF AddView

LEMMA FindTableInv == ASSUME NEW table \in Tables PROVE IInv /\ FindTable(table) => IInv'
<1> SUFFICES ASSUME IInv, FindTable(table) PROVE IInv'
  OBVIOUS
<1> DEFINE new == [at |-> lookup[table], table |-> table, until |-> sync + 1]
<1>1. /\ lookup[table] # Unknown /\ inUse' = inUse \cup {new}
      /\ heap' = heap /\ head' = head /\ marks' = marks /\ lookup' = lookup
      /\ sync' = sync /\ completed' = completed
  BY DEF FindTable, Uses
<1>2. new \in Found
  BY <1>1 DEF Found
<1>3. Handles' = Handles
  BY <1>1, <1>2 DEF Handles, Found
<1>4. TypeOK'
  <2>1. sync \in Nat /\ completed \in Nat /\ completed <= sync
    BY InvFacts, MaxSyncAssumption DEF IInv, TypeOK
  <2>2. new \in [at : Slots, table : Seq(Descriptors) \ {<<>>}, until : (completed + 1)..(sync + 1)]
    BY <1>1, <2>1, TablesAssumption DEF IInv, TypeOK
  <2> QED  BY <1>1, <2>2 DEF IInv, TypeOK
<1> QED  BY <1>1, <1>3, <1>4 DEF IInv, MarksInOrder, Behind, Holds

LEMMA OverflowInv ==
  ASSUME IInv, NEW n \in Nat \ {0}, Overflow(n)
  PROVE  IInv'
<1>1. PICK ms \in Purged(marks) :
        /\ marks' = ms
        /\ head' = IF MayRoll(ms) THEN Start(n) ELSE head
        /\ heap' = heap /\ lookup' = lookup /\ sync' = sync /\ completed' = completed /\ inUse' = inUse
  BY DEF Overflow
<1>2. /\ head \in Slots /\ marks \in MarkSeqs /\ Handles \subseteq Handle /\ completed \in Nat
      /\ \A h \in Handles : h.until > completed
      /\ sync \in Nat
  BY InvFacts, MaxSyncAssumption DEF IInv, TypeOK
<1>3. /\ MarksInOrder(marks, head)
      /\ \A k \in DOMAIN marks : marks[k].point <= sync
      /\ \A h \in Handles : Behind(marks, head, h) /\ Holds(heap, h)
  BY DEF IInv
<1>4. /\ ms \in MarkSeqs /\ MarksInOrder(ms, head)
      /\ \A k \in DOMAIN ms : \E i \in DOMAIN marks : ms[k] = marks[i]
      /\ \A h \in Handles : Behind(ms, head, h)
  BY <1>2, <1>3, PurgeKeepsOrder
<1>5. head' \in Slots /\ Dist(ms[1].index, head) <= Dist(ms[1].index, head')
  <2>1. CASE MayRoll(ms)
    BY <1>1, <1>2, <1>4, <2>1, RollIsSafe
  <2>2. CASE ~MayRoll(ms)
    <3>1. head' = head /\ ms[1].index \in Slots
      BY <1>1, <1>4, <2>2, MarkFacts
    <3> QED  BY <3>1, <1>2, DistType
  <2> QED  BY <2>1, <2>2
<1>6. MarksInOrder(ms, head') /\ \A h \in Handles : Behind(ms, head', h)
  BY <1>2, <1>4, <1>5, HeadKeepsOrder
<1>7. \A k \in DOMAIN marks' : marks'[k].point <= sync'
  BY <1>1, <1>3, <1>4
<1>8. Handles' = Handles
  BY <1>1 DEF Handles, Found
<1>9. TypeOK'
  <2>1. marks' \in Seq([point : 0..sync', index : Slots]) \ {<<>>}
    BY <1>1, <1>2, <1>4, <1>7, MarksType
  <2> QED  BY <1>1, <1>5, <2>1 DEF IInv, TypeOK
<1>10. \A h \in Handles' : Behind(marks', head', h) /\ Holds(heap', h)
  BY <1>1, <1>3, <1>6, <1>8
<1> QED  BY <1>1, <1>6, <1>7, <1>9, <1>10 DEF IInv

LEMMA NextInv == IInv /\ [Next]_vars => IInv'
<1> SUFFICES ASSUME IInv, [Next]_vars PROVE IInv'
  OBVIOUS
<1>1. CASE GpuAdvance
  BY <1>1, GpuAdvanceInv
<1>2. CASE AddSyncPoint
  BY <1>2, AddSyncPointInv
<1>3. CASE \E table \in Tables : AddTable(table)
  BY <1>3, AddTableInv
<1>4. CASE \E table \in Tables : FindTable(table)
  BY <1>4, FindTableInv
<1>5. CASE \E table \in Tables : AddTableThrows(table)
  <2> PICK table \in Tables : AddTableThrows(table)
    BY <1>5
  <2>1. Len(table) \in Nat \ {0} /\ Overflow(Len(table))
    BY TablesAssumption, TableFacts DEF AddTableThrows
  <2> QED  BY <2>1, OverflowInv
<1>6. CASE \E des \in Descriptors : AddView(des)
  BY <1>6, AddViewInv
<1>7. CASE AddViewThrows
  BY <1>7, OverflowInv DEF AddViewThrows
<1>8. CASE UNCHANGED vars
  <2>1. /\ heap' = heap /\ head' = head /\ marks' = marks /\ lookup' = lookup
        /\ sync' = sync /\ completed' = completed /\ inUse' = inUse
    BY <1>8 DEF vars
  <2>2. Handles' = Handles
    BY <2>1 DEF Handles, Found
  <2> QED  BY <2>1, <2>2 DEF IInv, TypeOK, MarksInOrder, Behind, Holds
<1> QED  BY <1>1, <1>2, <1>3, <1>4, <1>5, <1>6, <1>7, <1>8 DEF Next

-----------------------------------------------------------------------------
(* The invariant holds in every reachable state.                           *)
THEOREM Invariance == Spec => []IInv
<1>1. Init => IInv
  BY InitInv
<1>2. IInv /\ [Next]_vars => IInv'
  BY NextInv
<1> QED  BY <1>1, <1>2, PTL DEF Spec

(* The ring's variables keep their types: the head and the positions of    *)
(* the marks are slots, the handles in use are those of unfinished         *)
(* batches.                                                                *)
THEOREM TypeCorrect == Spec => []TypeOK
<1>1. IInv => TypeOK
  BY DEF IInv
<1> QED  BY <1>1, Invariance, PTL

(* No descriptor the GPU may still read is overwritten, whatever the size  *)
(* of the heap and wherever the ring rolls over.                           *)
THEOREM HandlesIntact == Spec => []Intact
<1>1. IInv => Intact
  <2> SUFFICES ASSUME IInv, NEW h \in inUse, NEW i \in 1..Len(h.table)
               PROVE  h.at + i - 1 \in Slots /\ heap[h.at + i - 1] = h.table[i]
    BY DEF Intact
  <2>1. h \in Handles /\ Behind(marks, head, h) /\ Holds(heap, h) /\ h \in Handle
    BY InvFacts DEF IInv, Handles
  <2>2. h.at \in Slots /\ Len(h.table) \in Nat \ {0} /\ h.at + Len(h.table) <= Size
    BY <2>1, HandleFacts DEF Behind
  <2>3. h.at + i - 1 \in Slots
    BY <2>2, SizeAssumption DEF Slots
  <2> QED  BY <2>1, <2>3 DEF Holds
<1> QED  BY <1>1, Invariance, PTL

(* With the head at the oldest mark, a table of up to half the size of the *)
(* heap is taken, whatever slot that is.                                   *)
THEOREM IdleFits == Spec => []IdleHasRoom
<1>1. TypeOK => IdleHasRoom
  <2> SUFFICES ASSUME TypeOK, head = marks[1].index, NEW n \in 1..(Size \div 2)
               PROVE  HasRoom(marks, n)
    BY DEF IdleHasRoom
  <2>1. /\ head \in Int /\ 0 <= head /\ head < Size
        /\ n \in Int /\ 1 <= n /\ 2 * n <= Size
    BY SizeAssumption DEF TypeOK, Slots
  <2>2. TailSlot(marks) = (IF head = 0 THEN Size - 1 ELSE head - 1)
    BY <2>1, SizeAssumption DEF TailSlot, Wrap
  <2>3. Free(marks, head) = Size - 1
    BY <2>1, <2>2, SizeAssumption DEF Free, Wrap
  <2>4. CASE MustRoll(n)
    <3>1. Start(n) = 0 /\ head > 0 /\ head > Size - n
      BY <2>1, <2>4, SizeAssumption DEF Start, MustRoll
    <3>2. Free(marks, 0) = head - 1
      BY <2>1, <2>2, <3>1, SizeAssumption DEF Free, Wrap
    <3> QED  BY <2>1, <2>3, <3>1, <3>2, SizeAssumption DEF HasRoom, MayRoll
  <2>5. CASE ~MustRoll(n)
    <3>1. Start(n) = head
      BY <2>5 DEF Start
    <3> QED  BY <2>1, <2>3, <2>5, <3>1, SizeAssumption DEF HasRoom
  <2> QED  BY <2>4, <2>5
<1> QED  BY <1>1, TypeCorrect, PTL

=============================================================================
