------------------------ MODULE GpuTransferBufferProofs ------------------------
(***************************************************************************)
(* Proof that the stamps of the blocks ascend, that the lookup holds only  *)
(* current addresses, that the destructor waits for the GPU, that no block *)
(* is lost and that nobody's memory is recycled, for every size and        *)
(* alignment of the allocations and any number of sync points.             *)
(***************************************************************************)
EXTENDS GpuTransferBuffer, FiniteSetTheorems, TLAPS

(* A block with an id among the first n and a stamp up to s.               *)
BlockOf(n, s) == [id : 1..n, cap : Nat, size : Nat, stamp : 0..s]

-----------------------------------------------------------------------------
(* What the types say *)

LEMMA SeqElement ==
  ASSUME NEW S, NEW s \in Seq(S)
  PROVE  Len(s) \in Nat /\ DOMAIN s = 1..Len(s) /\ \A i \in 1..Len(s) : s[i] \in S
OBVIOUS

LEMMA SeqOfFunction ==
  ASSUME NEW S, NEW n \in Nat, NEW f \in [1..n -> S]
  PROVE  f \in Seq(S) /\ Len(f) = n
OBVIOUS

LEMMA EmptyLength == ASSUME NEW t, t = <<>> PROVE Len(t) = 0
OBVIOUS

LEMMA SeqTail ==
  ASSUME NEW S, NEW s \in Seq(S), s # <<>>
  PROVE  /\ Tail(s) \in Seq(S) /\ Len(Tail(s)) = Len(s) - 1 /\ DOMAIN Tail(s) = 1..(Len(s) - 1)
         /\ \A i \in 1..(Len(s) - 1) : Tail(s)[i] = s[i + 1]
         /\ (Tail(s) = <<>> => Len(s) = 1)
<1>1. Len(s) \in Nat \ {0}
  OBVIOUS
<1>2. /\ Tail(s) \in Seq(S) /\ Len(Tail(s)) = Len(s) - 1
      /\ \A i \in 1..(Len(s) - 1) : Tail(s)[i] = s[i + 1]
  BY <1>1
<1>3. DOMAIN Tail(s) = 1..(Len(s) - 1)
  BY <1>2, SeqElement
<1>4. Tail(s) = <<>> => Len(s) = 1
  <2>1. Tail(s) = <<>> => Len(Tail(s)) = 0
    BY EmptyLength
  <2>2. Len(s) \in Int
    BY <1>1
  <2> QED  BY <2>1, <2>2, <1>2
<1> QED  BY <1>2, <1>3, <1>4

LEMMA SeqSuffix ==
  ASSUME NEW S, NEW s \in Seq(S), s # <<>>, NEW n \in 0..(Len(s) - 1)
  PROVE  /\ SubSeq(s, n + 1, Len(s)) \in Seq(S)
         /\ Len(SubSeq(s, n + 1, Len(s))) = Len(s) - n /\ Len(s) - n \in Nat \ {0}
         /\ \A i \in 1..(Len(s) - n) : SubSeq(s, n + 1, Len(s))[i] = s[n + i]
<1>1. Len(s) \in Nat \ {0} /\ Len(s) - n \in Nat \ {0}
  OBVIOUS
<1>2. SubSeq(s, n + 1, Len(s)) \in Seq(S)
  BY <1>1
<1>3. Len(SubSeq(s, n + 1, Len(s))) = Len(s) - n
  BY <1>1
<1>4. \A i \in 1..(Len(s) - n) : SubSeq(s, n + 1, Len(s))[i] = s[n + i]
  BY <1>1
<1> QED  BY <1>1, <1>2, <1>3, <1>4

LEMMA SeqAppend ==
  ASSUME NEW S, NEW s \in Seq(S), NEW e
  PROVE  /\ Len(Append(s, e)) = Len(s) + 1 /\ DOMAIN Append(s, e) = 1..(Len(s) + 1)
         /\ Append(s, e)[Len(s) + 1] = e
         /\ \A i \in 1..Len(s) : Append(s, e)[i] = s[i]
<1>1. s \in Seq(S \cup {e}) /\ e \in S \cup {e}
  OBVIOUS
<1> QED  BY <1>1

LEMMA BlockFacts ==
  ASSUME NEW n \in Nat, NEW s \in Nat, NEW u \in Seq(BlockOf(n, s))
  PROVE  /\ Len(u) \in Nat /\ DOMAIN u = 1..Len(u) /\ (u # <<>> => Len(u) # 0)
         /\ \A i \in 1..Len(u) : /\ u[i] \in BlockOf(n, s) /\ u[i].id \in 1..n
                                 /\ u[i].cap \in Nat /\ u[i].size \in Nat
                                 /\ u[i].stamp \in Int /\ 0 <= u[i].stamp /\ u[i].stamp <= s
<1>1. Len(u) \in Nat /\ DOMAIN u = 1..Len(u) /\ (u # <<>> => Len(u) # 0)
  OBVIOUS
<1>2. \A i \in 1..Len(u) : u[i] \in BlockOf(n, s)
  OBVIOUS
<1> QED  BY <1>1, <1>2 DEF BlockOf

LEMMA RecycledType ==
  ASSUME NEW n \in Nat, NEW s \in Nat, NEW t \in Nat, completed \in 0..t, NEW b \in BlockOf(n, s)
  PROVE  Recycled(b) \in BlockOf(n, t)
BY DEF Recycled, BlockOf

LEMMA StampType ==
  ASSUME NEW n \in Nat, NEW s \in Nat, NEW t \in Nat, NEW b \in BlockOf(n, s)
  PROVE  [b EXCEPT !.stamp = t] \in BlockOf(n, t) /\ [b EXCEPT !.stamp = t].stamp = t
BY DEF BlockOf

LEMMA PadToType ==
  ASSUME NEW n \in Nat, NEW a \in Nat \ {0}
  PROVE  PadTo(n, a) \in Nat
<1>1. (n + a - 1) \div a \in Nat
  OBVIOUS
<1>2. \A p, q \in Nat : p * q \in Nat
  OBVIOUS
<1> QED  BY <1>1, <1>2 DEF PadTo

LEMMA TypeFacts ==
  ASSUME TypeOK
  PROVE  /\ sync \in Nat /\ completed \in Nat /\ completed <= sync /\ sync <= MaxSync /\ MaxSync \in Nat
         /\ Len(lastUse) \in Nat /\ DOMAIN lastUse = 1..Len(lastUse)
         /\ Block = BlockOf(Len(lastUse), sync)
         /\ used \in Seq(BlockOf(Len(lastUse), sync))
         /\ free \subseteq BlockOf(Len(lastUse), sync)
         /\ \A id \in 1..Len(lastUse) : lastUse[id] \in 1..(MaxSync + 1)
<1>1. lastUse \in Seq(1..(MaxSync + 1))
  BY DEF TypeOK
<1>2. Len(lastUse) \in Nat /\ DOMAIN lastUse = 1..Len(lastUse)
  BY <1>1
<1>3. \A id \in 1..Len(lastUse) : lastUse[id] \in 1..(MaxSync + 1)
  BY <1>1, SeqElement
<1>4. Block = BlockOf(Len(lastUse), sync)
  BY <1>2 DEF Block, BlockOf
<1> QED  BY <1>2, <1>3, <1>4, SizesAssumption DEF TypeOK

LEMMA InitInv == Init => IInv
<1> SUFFICES ASSUME Init PROVE IInv
  OBVIOUS
<1>1. TypeOK
  BY SizesAssumption DEF Init, TypeOK
<1> QED
  BY <1>1 DEF Init, IInv, StampsAscend, LookupIsCurrent, BackIsStamped, EmptyMeansDone

-----------------------------------------------------------------------------
(* Consuming space *)

(* Whichever way room is found, the blocks in use stay where they are, and *)
(* the block at the back has the stamp of the last sync point.             *)
LEMMA RoomFacts ==
  ASSUME IInv, NEW size \in Nat \ {0}, NEW alignment \in Nat \ {0}, NEW r \in Room(size, alignment)
  PROVE  /\ r.created \in {0, 1}
         /\ r.used \in Seq(BlockOf(Len(lastUse) + r.created, sync))
         /\ r.used # <<>> /\ r.used[Len(r.used)].stamp = sync
         /\ r.created = 1 => r.used[Len(r.used)].id = Len(lastUse) + 1
         /\ \A i, k \in DOMAIN r.used : i < k => r.used[i].stamp <= r.used[k].stamp
         /\ \A i \in DOMAIN used : i \in DOMAIN r.used /\ r.used[i] = used[i]
         /\ r.free \subseteq free
<1> DEFINE n == Len(lastUse)
<1>1. /\ TypeOK /\ r \in EnsureCapacity(size, alignment)
      /\ sync \in Nat /\ n \in Nat
      /\ used \in Seq(BlockOf(n, sync)) /\ free \subseteq BlockOf(n, sync)
  BY TypeFacts DEF IInv, Room
<1>2. /\ Len(used) \in Nat /\ DOMAIN used = 1..Len(used) /\ (used # <<>> => Len(used) # 0)
      /\ \A i \in 1..Len(used) : used[i].stamp \in Int /\ used[i].stamp <= sync
  BY <1>1, BlockFacts
<1>3. BlockOf(n, sync) \subseteq BlockOf(n + 1, sync)
  BY <1>1 DEF BlockOf
<1>4. \A i, k \in 1..Len(used) : i < k => used[i].stamp <= used[k].stamp
  BY <1>2 DEF IInv, StampsAscend
<1>5. ASSUME NEW b \in BlockOf(n + 1, sync), b.stamp = sync, r.used = Append(used, b)
      PROVE  /\ r.used # <<>> /\ r.used[Len(r.used)] = b
             /\ \A i, k \in DOMAIN r.used : i < k => r.used[i].stamp <= r.used[k].stamp
             /\ \A i \in DOMAIN used : i \in DOMAIN r.used /\ r.used[i] = used[i]
             /\ r.used \in Seq(BlockOf(n + 1, sync))
             /\ b \in BlockOf(n, sync) => r.used \in Seq(BlockOf(n, sync))
  <2>1. /\ Len(r.used) = Len(used) + 1 /\ DOMAIN r.used = 1..(Len(used) + 1)
        /\ r.used[Len(used) + 1] = b
        /\ \A i \in 1..Len(used) : r.used[i] = used[i]
    BY <1>1, <1>2, <1>5
  <2>2. used \in Seq(BlockOf(n + 1, sync))
    BY <1>1, <1>3
  <2>3. \A i, k \in DOMAIN r.used : i < k => r.used[i].stamp <= r.used[k].stamp
    <3> SUFFICES ASSUME NEW i \in 1..(Len(used) + 1), NEW k \in 1..(Len(used) + 1), i < k
                 PROVE  r.used[i].stamp <= r.used[k].stamp
      BY <2>1
    <3>1. CASE k \in 1..Len(used)
      <4>1. i \in 1..Len(used)
        BY <3>1, <1>2
      <4> QED  BY <3>1, <4>1, <2>1, <1>4
    <3>2. CASE k = Len(used) + 1
      <4>1. i \in 1..Len(used)
        BY <3>2, <1>2
      <4> QED  BY <3>2, <4>1, <2>1, <1>2, <1>5
    <3> QED  BY <3>1, <3>2, <1>2
  <2>4. r.used \in Seq(BlockOf(n + 1, sync))
    BY <1>5, <2>2
  <2>5. b \in BlockOf(n, sync) => r.used \in Seq(BlockOf(n, sync))
    BY <1>5, <1>1
  <2>6. r.used # <<>>
    BY <2>1, <1>2
  <2> QED  BY <2>1, <2>3, <2>4, <2>5, <2>6, <1>2
<1>6. CASE used # <<>> /\ Fits(Back(used), size, alignment)
  <2>1. r.used = used /\ r.free = free /\ r.created = 0
    BY <1>1, <1>6 DEF EnsureCapacity
  <2>2. used[Len(used)].stamp = sync
    BY <1>6 DEF IInv, BackIsStamped, Back
  <2> QED  BY <1>1, <1>2, <1>4, <1>6, <2>1, <2>2
<1>7. CASE ~(used # <<>> /\ Fits(Back(used), size, alignment)) /\ Recyclable(size) # {}
  <2>1. PICK b \in free : r = [used |-> Append(used, Restamp(b)), free |-> free \ {b}, created |-> 0]
    BY <1>1, <1>7 DEF EnsureCapacity, Recyclable
  <2>2. b \in BlockOf(n, sync)
    BY <1>1
  <2>3. Restamp(b) \in BlockOf(n, sync) /\ Restamp(b).stamp = sync
    BY <2>2, <1>1 DEF Restamp, BlockOf
  <2>4. r.used = Append(used, Restamp(b)) /\ r.free = free \ {b} /\ r.created = 0
    BY <2>1
  <2> QED  BY <1>1, <1>3, <1>5, <2>3, <2>4
<1>8. CASE ~(used # <<>> /\ Fits(Back(used), size, alignment)) /\ Recyclable(size) = {}
  <2>1. r.used = Append(used, NewBlock(size)) /\ r.free = free /\ r.created = 1
    BY <1>1, <1>8 DEF EnsureCapacity
  <2>2. NewBlock(size).id = n + 1 /\ NewBlock(size).stamp = sync /\ NewBlock(size) \in BlockOf(n + 1, sync)
    BY <1>1, SizesAssumption DEF NewBlock, BlockOf
  <2> QED  BY <1>1, <1>3, <1>5, <2>1, <2>2
<1> QED  BY <1>6, <1>7, <1>8

(* Consuming space keeps the order of the stamps, and the block consumed   *)
(* from is used until the next sync point.                                 *)
LEMMA TakeFacts ==
  ASSUME IInv, NEW size \in Nat \ {0}, NEW alignment \in Nat \ {0},
         NEW r \in Room(size, alignment), Take(r, size, alignment)
  PROVE  /\ Start(r, alignment) \in Nat
         /\ lastUse' \in Seq(1..(MaxSync + 1)) /\ lastUse' # <<>>
         /\ Len(lastUse') = Len(lastUse) + r.created /\ r.created \in {0, 1}
         /\ used' \in Seq(BlockOf(Len(lastUse) + r.created, sync))
         /\ free' \subseteq BlockOf(Len(lastUse) + r.created, sync)
         /\ used' # <<>> /\ used'[Len(used')].stamp = sync
         /\ \A i, k \in DOMAIN used' : i < k => used'[i].stamp <= used'[k].stamp
         /\ \A i \in DOMAIN used : i \in DOMAIN used' /\ used'[i].id = used[i].id
         /\ \A id \in DOMAIN lastUse : id \in DOMAIN lastUse' /\ lastUse'[id] \in {lastUse[id], sync + 1}
         /\ Back(r.used).id \in DOMAIN lastUse' /\ lastUse'[Back(r.used).id] = sync + 1
         /\ Len(used') \in DOMAIN used' /\ used'[Len(used')].id = Back(r.used).id
<1> DEFINE n == Len(lastUse)
           m == n + r.created
           u == r.used
           c == Start(r, alignment) + size
           uses == IF r.created = 1 THEN Append(lastUse, 0) ELSE lastUse
           id0 == u[Len(u)].id
<1>1. /\ sync \in Nat /\ n \in Nat /\ MaxSync \in Nat /\ sync <= MaxSync
      /\ DOMAIN lastUse = 1..n /\ free \subseteq BlockOf(n, sync)
      /\ used \in Seq(BlockOf(n, sync))
      /\ lastUse \in Seq(1..(MaxSync + 1))
      /\ \A id \in 1..n : lastUse[id] \in 1..(MaxSync + 1)
  BY TypeFacts DEF IInv, TypeOK
<1>2. /\ r.created \in {0, 1} /\ u \in Seq(BlockOf(m, sync)) /\ u # <<>> /\ u[Len(u)].stamp = sync
      /\ r.created = 1 => id0 = n + 1
      /\ \A i, k \in DOMAIN u : i < k => u[i].stamp <= u[k].stamp
      /\ \A i \in DOMAIN used : i \in DOMAIN u /\ u[i] = used[i]
      /\ r.free \subseteq free
  BY RoomFacts
<1>3. m \in Nat /\ n <= m
  BY <1>1, <1>2
<1>4. /\ Len(u) \in Nat \ {0} /\ DOMAIN u = 1..Len(u) /\ Len(u) \in 1..Len(u)
      /\ \A i \in 1..Len(u) : u[i] \in BlockOf(m, sync)
      /\ u[Len(u)].size \in Nat /\ id0 \in 1..m
  <2> HIDE DEF u, m
  <2>1. /\ Len(u) \in Nat /\ DOMAIN u = 1..Len(u) /\ Len(u) # 0
        /\ \A i \in 1..Len(u) : u[i] \in BlockOf(m, sync) /\ u[i].size \in Nat /\ u[i].id \in 1..m
    BY <1>1, <1>2, <1>3, BlockFacts
  <2>2. Len(u) \in 1..Len(u)
    BY <2>1
  <2> QED  BY <2>1, <2>2
<1>5. Start(r, alignment) \in Nat
  BY <1>4, PadToType DEF Start, Back
<1>6. c \in Nat
  BY <1>5
<1>7. /\ used' = [u EXCEPT ![Len(u)].size = c] /\ free' = r.free
      /\ lastUse' = [uses EXCEPT ![id0] = sync + 1]
  BY DEF Take, Consume, Back
<1>8. /\ DOMAIN uses = 1..m /\ Len(uses) = m
      /\ \A id \in 1..n : uses[id] = lastUse[id]
      /\ \A id \in 1..m : id # id0 => uses[id] \in 1..(MaxSync + 1) /\ id \in 1..n
  <2>1. CASE r.created = 1
    <3>1. uses = Append(lastUse, 0) /\ m = n + 1 /\ id0 = n + 1
      BY <2>1, <1>2
    <3> HIDE DEF uses
    <3>2. DOMAIN uses = 1..(n + 1) /\ Len(uses) = n + 1 /\ \A id \in 1..n : uses[id] = lastUse[id]
      BY <3>1, <1>1, SeqAppend
    <3>3. \A id \in 1..(n + 1) : id # n + 1 => id \in 1..n
      <4>1. n \in Nat
        BY <1>1
      <4> HIDE DEF n
      <4> QED  BY <4>1
    <3> QED  BY <3>1, <3>2, <3>3, <1>1
  <2>2. CASE r.created = 0
    <3>1. uses = lastUse /\ m = n
      BY <2>2, <1>1
    <3> HIDE DEF uses, m
    <3> QED  BY <3>1, <1>1
  <2> QED  BY <2>1, <2>2, <1>2
<1> HIDE DEF c, uses, u, id0, m, n
<1>9. /\ DOMAIN lastUse' = 1..m /\ lastUse'[id0] = sync + 1
      /\ \A id \in 1..m : id # id0 => lastUse'[id] = uses[id]
  BY <1>4, <1>7, <1>8
<1>10. lastUse' \in [1..m -> 1..(MaxSync + 1)]
  <2>1. lastUse' = [id \in 1..m |-> lastUse'[id]]
    BY <1>7, <1>9
  <2>2. \A id \in 1..m : lastUse'[id] \in 1..(MaxSync + 1)
    BY <1>1, <1>8, <1>9
  <2> QED  BY <2>1, <2>2
<1>11. lastUse' \in Seq(1..(MaxSync + 1)) /\ Len(lastUse') = m /\ lastUse' # <<>>
  <2>1. lastUse' \in Seq(1..(MaxSync + 1)) /\ Len(lastUse') = m
    BY <1>3, <1>10, SeqOfFunction
  <2>2. m # 0
    BY <1>3, <1>4
  <2> QED  BY <2>1, <2>2
<1>12. /\ DOMAIN used' = 1..Len(u)
       /\ \A i \in 1..Len(u) : used'[i] = [u[i] EXCEPT !.size = IF i = Len(u) THEN c ELSE @]
  <2>1. DOMAIN used' = 1..Len(u) /\ used'[Len(u)] = [u[Len(u)] EXCEPT !.size = c]
    BY <1>4, <1>7
  <2>2. \A i \in 1..Len(u) : i # Len(u) => used'[i] = u[i]
    BY <1>4, <1>7
  <2>3. \A i \in 1..Len(u) : u[i] = [u[i] EXCEPT !.size = u[i].size]
    BY <1>4 DEF BlockOf
  <2> QED  BY <2>1, <2>2, <2>3
<1>13. \A i \in 1..Len(u) : /\ used'[i] \in BlockOf(m, sync) /\ used'[i].id = u[i].id
                            /\ used'[i].stamp = u[i].stamp
  BY <1>4, <1>6, <1>12 DEF BlockOf
<1>14. used' \in Seq(BlockOf(m, sync)) /\ Len(used') = Len(u) /\ used' # <<>>
  <2>1. used' \in [1..Len(u) -> BlockOf(m, sync)]
    <3>1. used' = [i \in 1..Len(u) |-> used'[i]]
      BY <1>4, <1>7
    <3> QED  BY <3>1, <1>13
  <2>2. used' \in Seq(BlockOf(m, sync))
    BY <1>4, <2>1
  <2>3. Len(used') = Len(u) /\ Len(used') # 0
    BY <2>2, <1>4, <1>12
  <2> QED  BY <2>2, <2>3
<1>15. free' \subseteq BlockOf(m, sync)
  <2>1. BlockOf(n, sync) \subseteq BlockOf(m, sync)
    BY <1>1, <1>3 DEF BlockOf
  <2> QED  BY <2>1, <1>1, <1>2, <1>7
<1>16. \A i, k \in DOMAIN used' : i < k => used'[i].stamp <= used'[k].stamp
  BY <1>2, <1>4, <1>12, <1>13
<1>17. \A i \in DOMAIN used : i \in DOMAIN used' /\ used'[i].id = used[i].id
  BY <1>2, <1>4, <1>12, <1>13
<1>18. \A id \in DOMAIN lastUse : id \in DOMAIN lastUse' /\ lastUse'[id] \in {lastUse[id], sync + 1}
  <2>1. 1..n \subseteq 1..m
    BY <1>1, <1>3
  <2> QED  BY <2>1, <1>1, <1>8, <1>9
<1>19. Back(r.used).id = id0
  BY DEF Back, id0, u
<1>20. Len(used') \in DOMAIN used' /\ used'[Len(used')].id = id0 /\ used'[Len(used')].stamp = sync
  BY <1>2, <1>4, <1>12, <1>13, <1>14 DEF id0
<1>21. id0 \in DOMAIN lastUse' /\ lastUse'[id0] = sync + 1
  BY <1>4, <1>9
<1>22. m = Len(lastUse) + r.created
  BY DEF m, n
<1> HIDE DEF m
<1> QED
  BY <1>2, <1>5, <1>11, <1>14, <1>15, <1>16, <1>17, <1>18, <1>19, <1>20, <1>21, <1>22

LEMMA TakeInv ==
  ASSUME IInv, phase = "alive", phase' = "alive", sync' = sync, completed' = completed,
         NEW size \in Nat \ {0}, NEW alignment \in Nat \ {0},
         NEW r \in Room(size, alignment), Take(r, size, alignment),
         held' \subseteq [id : DOMAIN lastUse', lo : Nat, hi : Nat],
         lookup' \in [Items -> [id : DOMAIN lastUse', lo : Nat] \cup {None}],
         \A x \in Items : lookup'[x] = lookup[x] \/ lookup'[x].id = Back(r.used).id
  PROVE  IInv'
<1>1. /\ lastUse' \in Seq(1..(MaxSync + 1)) /\ lastUse' # <<>>
      /\ Len(lastUse') = Len(lastUse) + r.created /\ DOMAIN lastUse' = 1..Len(lastUse')
      /\ used' \in Seq(BlockOf(Len(lastUse) + r.created, sync))
      /\ free' \subseteq BlockOf(Len(lastUse) + r.created, sync)
      /\ used' # <<>> /\ used'[Len(used')].stamp = sync
      /\ \A i, k \in DOMAIN used' : i < k => used'[i].stamp <= used'[k].stamp
      /\ \A i \in DOMAIN used : i \in DOMAIN used' /\ used'[i].id = used[i].id
      /\ \A id \in DOMAIN lastUse : id \in DOMAIN lastUse' /\ lastUse'[id] \in {lastUse[id], sync + 1}
      /\ Back(r.used).id \in DOMAIN lastUse' /\ lastUse'[Back(r.used).id] = sync + 1
      /\ Len(used') \in DOMAIN used' /\ used'[Len(used')].id = Back(r.used).id
  BY TakeFacts, SeqElement
<1>2. TypeOK'
  <2>1. Block' = BlockOf(Len(lastUse) + r.created, sync)
    BY <1>1 DEF Block, BlockOf
  <2> QED  BY <1>1, <2>1 DEF IInv, TypeOK
<1>3. StampsAscend' /\ BackIsStamped' /\ EmptyMeansDone'
  BY <1>1 DEF StampsAscend, BackIsStamped, EmptyMeansDone, Back
<1>4. LookupIsCurrent'
  <2> SUFFICES ASSUME NEW x \in Items, lookup'[x] # None
               PROVE  /\ lastUse'[lookup'[x].id] = sync + 1
                      /\ \E i \in DOMAIN used' : used'[i].id = lookup'[x].id
    BY DEF LookupIsCurrent
  <2>1. CASE lookup'[x] = lookup[x]
    <3>1. /\ lookup[x].id \in DOMAIN lastUse /\ lastUse[lookup[x].id] = sync + 1
          /\ \E i \in DOMAIN used : used[i].id = lookup[x].id
      BY <2>1 DEF IInv, TypeOK, LookupIsCurrent
    <3> QED  BY <1>1, <2>1, <3>1
  <2>2. CASE lookup'[x].id = Back(r.used).id
    BY <1>1, <2>2
  <2> QED  BY <2>1, <2>2
<1> QED  BY <1>2, <1>3, <1>4 DEF IInv

LEMMA AllocInv ==
  ASSUME IInv, NEW size \in Sizes, NEW alignment \in Alignments, Alloc(size, alignment)
  PROVE  IInv'
<1>1. PICK r \in Room(size, alignment) :
        /\ Take(r, size, alignment)
        /\ held' = held \cup {[id |-> Back(r.used).id, lo |-> Start(r, alignment), hi |-> Start(r, alignment) + size]}
  BY DEF Alloc
<1>2. /\ phase = "alive" /\ phase' = "alive" /\ sync' = sync /\ completed' = completed /\ lookup' = lookup
      /\ size \in Nat \ {0} /\ alignment \in Nat \ {0}
  BY SizesAssumption DEF Alloc
<1>3. /\ Start(r, alignment) \in Nat /\ Back(r.used).id \in DOMAIN lastUse'
      /\ DOMAIN lastUse \subseteq DOMAIN lastUse'
  BY <1>1, <1>2, TakeFacts
<1>4. held' \subseteq [id : DOMAIN lastUse', lo : Nat, hi : Nat]
  BY <1>1, <1>2, <1>3 DEF IInv, TypeOK
<1>5. lookup' \in [Items -> [id : DOMAIN lastUse', lo : Nat] \cup {None}]
  BY <1>2, <1>3 DEF IInv, TypeOK
<1> QED  BY <1>1, <1>2, <1>4, <1>5, TakeInv

LEMMA AddOnceInv ==
  ASSUME IInv, NEW size \in Sizes, NEW alignment \in Alignments, AddOnce(size, alignment)
  PROVE  IInv'
<1>1. PICK r \in Room(size, alignment) : Take(r, size, alignment)
  BY DEF AddOnce
<1>2. /\ phase = "alive" /\ phase' = "alive" /\ sync' = sync /\ completed' = completed
      /\ held' = held /\ lookup' = lookup
      /\ size \in Nat \ {0} /\ alignment \in Nat \ {0}
  BY SizesAssumption DEF AddOnce
<1>3. DOMAIN lastUse \subseteq DOMAIN lastUse'
  BY <1>1, <1>2, TakeFacts
<1>4. held' \subseteq [id : DOMAIN lastUse', lo : Nat, hi : Nat]
  BY <1>2, <1>3 DEF IInv, TypeOK
<1>5. lookup' \in [Items -> [id : DOMAIN lastUse', lo : Nat] \cup {None}]
  BY <1>2, <1>3 DEF IInv, TypeOK
<1> QED  BY <1>1, <1>2, <1>4, <1>5, TakeInv

LEMMA AddSharedInv ==
  ASSUME IInv, NEW x \in Items, NEW size \in Sizes, NEW alignment \in Alignments,
         AddShared(x, size, alignment)
  PROVE  IInv'
<1>1. PICK r \in Room(size, alignment) :
        /\ Take(r, size, alignment)
        /\ lookup' = [lookup EXCEPT ![x] = [id |-> Back(r.used).id, lo |-> Start(r, alignment)]]
  BY DEF AddShared
<1>2. /\ phase = "alive" /\ phase' = "alive" /\ sync' = sync /\ completed' = completed /\ held' = held
      /\ size \in Nat \ {0} /\ alignment \in Nat \ {0}
  BY SizesAssumption DEF AddShared
<1>3. /\ Start(r, alignment) \in Nat /\ Back(r.used).id \in DOMAIN lastUse'
      /\ DOMAIN lastUse \subseteq DOMAIN lastUse'
  BY <1>1, <1>2, TakeFacts
<1>4. held' \subseteq [id : DOMAIN lastUse', lo : Nat, hi : Nat]
  BY <1>2, <1>3 DEF IInv, TypeOK
<1>5. lookup \in [Items -> [id : DOMAIN lastUse', lo : Nat] \cup {None}]
  BY <1>3 DEF IInv, TypeOK
<1>6. lookup' \in [Items -> [id : DOMAIN lastUse', lo : Nat] \cup {None}]
  BY <1>1, <1>3, <1>5
<1>7. \A y \in Items : lookup'[y] = lookup[y] \/ lookup'[y].id = Back(r.used).id
  BY <1>1, <1>5
<1> QED  BY <1>1, <1>2, <1>4, <1>6, <1>7, TakeInv

-----------------------------------------------------------------------------
(* The other actions *)

LEMMA AddFoundInv ==
  ASSUME IInv, NEW x \in Items, AddFound(x)
  PROVE  IInv'
<1>1. /\ used' = used /\ free' = free /\ held' = held /\ lookup' = lookup /\ sync' = sync
      /\ completed' = completed /\ phase = "alive" /\ phase' = "alive"
      /\ lastUse' = [lastUse EXCEPT ![lookup[x].id] = sync + 1]
      /\ lookup[x].id \in DOMAIN lastUse /\ lastUse[lookup[x].id] = sync + 1
  BY DEF AddFound, IInv, LookupIsCurrent, TypeOK
<1>2. lastUse \in Seq(1..(MaxSync + 1)) /\ Len(lastUse) \in Nat /\ DOMAIN lastUse = 1..Len(lastUse)
  BY TypeFacts DEF IInv, TypeOK
<1>3. lastUse' = lastUse
  BY <1>1, <1>2
<1> QED
  BY <1>1, <1>3 DEF IInv, TypeOK, Block, StampsAscend, LookupIsCurrent, BackIsStamped, EmptyMeansDone, Back

LEMMA ReleaseInv ==
  ASSUME IInv, NEW a \in held, Release(a)
  PROVE  IInv'
BY DEF Release, IInv, TypeOK, Block, StampsAscend, LookupIsCurrent, BackIsStamped, EmptyMeansDone, Back

LEMMA GpuAdvanceInv == IInv /\ GpuAdvance => IInv'
<1> SUFFICES ASSUME IInv, GpuAdvance PROVE IInv'
  OBVIOUS
<1>1. /\ used' = used /\ free' = free /\ held' = held /\ lookup' = lookup /\ sync' = sync
      /\ lastUse' = lastUse /\ phase' = phase /\ completed' = completed + 1 /\ completed < sync
      /\ sync \in Nat /\ completed \in Nat
  BY TypeFacts DEF GpuAdvance, IInv
<1>2. TypeOK'
  BY <1>1 DEF IInv, TypeOK, Block
<1>3. EmptyMeansDone'
  BY <1>1 DEF IInv, EmptyMeansDone
<1> QED
  BY <1>1, <1>2, <1>3 DEF IInv, StampsAscend, LookupIsCurrent, BackIsStamped, Back

LEMMA CloseInv == IInv /\ Close => IInv'
<1> SUFFICES ASSUME IInv, Close PROVE IInv'
  OBVIOUS
<1> QED
  BY DEF Close, IInv, TypeOK, Block, StampsAscend, LookupIsCurrent, BackIsStamped, EmptyMeansDone, Back

LEMMA DestroyedInv == IInv /\ Destroyed => IInv'
<1> SUFFICES ASSUME IInv, Destroyed PROVE IInv'
  OBVIOUS
<1> QED
  BY DEF Destroyed, IInv, TypeOK, Block, StampsAscend, LookupIsCurrent, BackIsStamped, EmptyMeansDone, Back

(* The last block to leave carries the last sync point, so the GPU is done *)
(* with everything when it does.                                           *)
LEMMA ShutdownPurgeInv == IInv /\ ShutdownPurge => IInv'
<1> SUFFICES ASSUME IInv, ShutdownPurge PROVE IInv'
  OBVIOUS
<1>1. /\ held' = held /\ lookup' = lookup /\ sync' = sync /\ completed' = completed /\ lastUse' = lastUse
      /\ phase = "closing" /\ used # <<>> /\ Front.stamp <= completed
  BY DEF ShutdownPurge
<1>2. CASE Referenced(Front.id)
  <2>1. phase' = "terminated" /\ used' = used /\ free' = free
    BY <1>2 DEF ShutdownPurge
  <2> QED
    BY <1>1, <2>1 DEF IInv, TypeOK, Block, StampsAscend, LookupIsCurrent, BackIsStamped, EmptyMeansDone, Back
<1>3. CASE ~Referenced(Front.id)
  <2> DEFINE B == BlockOf(Len(lastUse), sync)
  <2>1. used' = Tail(used) /\ free' = free \cup {Recycled(Front)} /\ phase' = "closing"
    BY <1>1, <1>3 DEF ShutdownPurge
  <2>2. /\ used \in Seq(B) /\ free \subseteq B /\ sync \in Nat /\ completed \in Nat /\ completed <= sync
        /\ Len(lastUse) \in Nat /\ Block = B /\ Block' = B
    <3>1. Block' = Block
      BY <1>1 DEF Block
    <3> QED  BY <3>1, TypeFacts DEF IInv
  <2>3. /\ Len(used) \in Nat \ {0} /\ DOMAIN used = 1..Len(used) /\ Front = used[1]
        /\ \A i \in 1..Len(used) : used[i] \in B /\ used[i].stamp \in Int
    BY <1>1, <2>2, BlockFacts DEF Front
  <2>4. /\ used' \in Seq(B) /\ Len(used') = Len(used) - 1 /\ DOMAIN used' = 1..(Len(used) - 1)
        /\ \A i \in 1..(Len(used) - 1) : used'[i] = used[i + 1]
        /\ used' = <<>> => Len(used) = 1
    BY <1>1, <2>1, <2>2, SeqTail
  <2>5. free' \subseteq B
    <3>1. Front \in B
      BY <2>3
    <3>2. completed \in 0..sync
      BY <2>2
    <3>3. Recycled(Front) \in B
      BY <3>1, <3>2, <2>2, RecycledType
    <3> QED  BY <3>3, <2>1, <2>2
  <2>6. TypeOK'
    BY <1>1, <2>1, <2>2, <2>4, <2>5 DEF IInv, TypeOK
  <2>7. StampsAscend'
    <3> SUFFICES ASSUME NEW i \in 1..(Len(used) - 1), NEW k \in 1..(Len(used) - 1), i < k
                 PROVE  used'[i].stamp <= used'[k].stamp
      BY <2>4 DEF StampsAscend
    <3>1. i + 1 \in 1..Len(used) /\ k + 1 \in 1..Len(used) /\ i + 1 < k + 1
      BY <2>3
    <3> QED  BY <2>3, <2>4, <3>1 DEF IInv, StampsAscend
  <2>8. used[Len(used)].stamp = sync
    BY <1>1 DEF IInv, BackIsStamped, Back
  <2>9. BackIsStamped'
    <3> SUFFICES ASSUME used' # <<>> PROVE used'[Len(used')].stamp = sync
      BY <1>1 DEF BackIsStamped, Back
    <3>1. Len(used') # 0
      BY <2>4
    <3>2. Len(used) - 1 \in 1..(Len(used) - 1) /\ (Len(used) - 1) + 1 = Len(used)
      BY <2>3, <2>4, <3>1
    <3> QED  BY <2>4, <2>8, <3>2
  <2>10. EmptyMeansDone'
    <3> SUFFICES ASSUME used' = <<>> PROVE sync <= completed
      BY <1>1, <2>1 DEF EmptyMeansDone
    <3>1. Front.stamp = sync
      BY <2>3, <2>4, <2>8
    <3> QED  BY <1>1, <3>1
  <2> QED  BY <2>1, <2>6, <2>7, <2>9, <2>10 DEF IInv, LookupIsCurrent
<1> QED  BY <1>2, <1>3

LEMMA AddSyncPointInv == IInv /\ AddSyncPoint => IInv'
<1> SUFFICES ASSUME IInv, AddSyncPoint PROVE IInv'
  OBVIOUS
<1>1. /\ phase = "alive" /\ phase' = "alive" /\ sync' = sync + 1 /\ sync < MaxSync
      /\ held' = held /\ completed' = completed /\ lastUse' = lastUse
  BY DEF AddSyncPoint, AddSyncPointWith
<1> DEFINE B == BlockOf(Len(lastUse), sync)
           C == BlockOf(Len(lastUse), sync + 1)
<1>2. /\ used \in Seq(B) /\ free \subseteq B /\ sync \in Nat /\ completed \in Nat /\ completed <= sync
      /\ Len(lastUse) \in Nat /\ MaxSync \in Nat /\ Block' = C
  <2>1. Block' = C
    BY <1>1, TypeFacts DEF Block, BlockOf, IInv
  <2> QED  BY <2>1, TypeFacts DEF IInv
<1>3. B \subseteq C
  BY <1>2 DEF BlockOf
<1>4. CASE used = <<>>
  <2>1. used' = used /\ free' = free /\ lookup' = lookup
    BY <1>4 DEF AddSyncPoint, AddSyncPointWith
  <2>2. lastUse = <<>>
    BY <1>1, <1>4 DEF IInv, EmptyMeansDone
  <2>3. used' \in Seq(C) /\ free' \subseteq C
    BY <1>2, <1>3, <1>4, <2>1
  <2>4. TypeOK'
    BY <1>1, <1>2, <2>1, <2>3 DEF IInv, TypeOK
  <2>5. \A x \in Items : lookup[x] = None
    BY <2>2 DEF IInv, TypeOK
  <2> QED
    BY <1>1, <1>4, <2>1, <2>2, <2>4, <2>5 DEF IInv, StampsAscend, LookupIsCurrent, BackIsStamped, EmptyMeansDone
<1>5. CASE used # <<>>
  <2>1. PICK n \in PurgeCounts :
          /\ used' = Stamped(SubSeq(used, n + 1, Len(used)), sync + 1)
          /\ free' = free \cup {Recycled(used[i]) : i \in 1..n}
    BY <1>5 DEF AddSyncPoint, AddSyncPointWith
  <2>2. lookup' = [x \in Items |-> None]
    BY <1>5 DEF AddSyncPoint, AddSyncPointWith, ForgetLookup
  <2>3. n \in 0..(Len(used) - 1)
    BY DEF PurgeCounts
  <2> DEFINE u == SubSeq(used, n + 1, Len(used))
             m == Len(used) - n
  <2>4. /\ Len(used) \in Nat \ {0} /\ DOMAIN used = 1..Len(used)
        /\ \A i \in 1..Len(used) : used[i] \in B /\ used[i].stamp \in Int /\ used[i].stamp <= sync
    BY <1>2, <1>5, BlockFacts
  <2>5. /\ u \in Seq(B) /\ Len(u) = m /\ m \in Nat \ {0}
        /\ \A i \in 1..m : u[i] = used[n + i]
    BY <1>2, <1>5, <2>3, SeqSuffix
  <2>6. \A i \in 1..m : n + i \in 1..Len(used)
    BY <2>3, <2>4
  <2>7. /\ \A i \in 1..m : u[i] \in B /\ u[i].stamp \in Int /\ u[i].stamp <= sync
        /\ \A i, k \in 1..m : i < k => u[i].stamp <= u[k].stamp
    <3>1. \A i \in 1..m : u[i] \in B /\ u[i].stamp \in Int /\ u[i].stamp <= sync
      BY <2>4, <2>5, <2>6
    <3>2. ASSUME NEW i \in 1..m, NEW k \in 1..m, i < k PROVE u[i].stamp <= u[k].stamp
      <4>1. n + i \in DOMAIN used /\ n + k \in DOMAIN used /\ n + i < n + k
        BY <2>3, <2>4, <2>6, <3>2
      <4>2. used[n + i].stamp <= used[n + k].stamp
        BY <4>1 DEF IInv, StampsAscend
      <4> QED  BY <2>5, <4>2
    <3> QED  BY <3>1, <3>2
  <2>8. used' = [u EXCEPT ![m].stamp = sync + 1]
    BY <2>1, <2>5 DEF Stamped
  <2>9. DOMAIN u = 1..m
    BY <2>5, SeqElement
  <2> HIDE DEF u, m, B, C
  <2>10. /\ \A i \in 1..m : i # m => used'[i] = u[i]
         /\ used'[m] = [u[m] EXCEPT !.stamp = sync + 1]
         /\ used' = [i \in 1..m |-> used'[i]]
    <3>1. m \in 1..m
      BY <2>5
    <3>2. DOMAIN used' = 1..m /\ used' = [i \in 1..m |-> used'[i]]
      BY <2>8, <2>9
    <3>3. used'[m] = [u[m] EXCEPT !.stamp = sync + 1]
      BY <3>1, <2>8, <2>9
    <3>4. \A i \in 1..m : i # m => used'[i] = u[i]
      BY <2>8, <2>9
    <3> QED  BY <3>2, <3>3, <3>4
  <2>11. used'[m] \in C /\ used'[m].stamp = sync + 1
    <3>1. u[m] \in B /\ sync + 1 \in Nat
      BY <2>5, <2>7, <1>2
    <3> QED  BY <3>1, <2>10, <1>2, StampType DEF B, C
  <2>12. used' \in Seq(C) /\ Len(used') = m /\ DOMAIN used' = 1..m /\ used' # <<>>
    <3>1. \A i \in 1..m : used'[i] \in C
      BY <1>3, <2>7, <2>10, <2>11
    <3>2. used' \in [1..m -> C]
      BY <3>1, <2>10
    <3>3. used' \in Seq(C) /\ Len(used') = m
      BY <3>2, <2>5, SeqOfFunction
    <3> QED  BY <3>3, <2>5, <2>10
  <2>13. free' \subseteq C
    <3> SUFFICES ASSUME NEW i \in 1..n PROVE Recycled(used[i]) \in C
      BY <1>2, <1>3, <2>1
    <3>1. used[i] \in B
      BY <2>3, <2>4
    <3>2. completed \in 0..(sync + 1) /\ sync + 1 \in Nat
      BY <1>2
    <3> QED  BY <3>1, <3>2, <1>2, RecycledType DEF B, C
  <2>14. TypeOK'
    BY <1>1, <1>2, <2>2, <2>12, <2>13 DEF IInv, TypeOK
  <2>15. StampsAscend'
    <3> SUFFICES ASSUME NEW i \in 1..m, NEW k \in 1..m, i < k
                 PROVE  used'[i].stamp <= used'[k].stamp
      BY <2>12 DEF StampsAscend
    <3>1. used'[i] = u[i] /\ u[i].stamp \in Int /\ u[i].stamp <= sync
      BY <2>5, <2>7, <2>10
    <3>2. CASE k = m
      BY <1>2, <2>11, <3>1, <3>2
    <3>3. CASE k # m
      BY <2>7, <2>10, <3>1, <3>3
    <3> QED  BY <3>2, <3>3
  <2>16. BackIsStamped' /\ EmptyMeansDone' /\ LookupIsCurrent'
    BY <1>1, <2>2, <2>11, <2>12 DEF BackIsStamped, EmptyMeansDone, LookupIsCurrent, Back
  <2> QED  BY <2>14, <2>15, <2>16 DEF IInv
<1> QED  BY <1>4, <1>5

LEMMA NextInv == IInv /\ [Next]_vars => IInv'
<1> SUFFICES ASSUME IInv, [Next]_vars PROVE IInv'
  OBVIOUS
<1>1. CASE GpuAdvance
  BY <1>1, GpuAdvanceInv
<1>2. CASE AddSyncPoint
  BY <1>2, AddSyncPointInv
<1>3. ASSUME NEW size \in Sizes, NEW alignment \in Alignments,
             \/ Alloc(size, alignment) \/ AddOnce(size, alignment)
             \/ \E x \in Items : AddShared(x, size, alignment)
      PROVE  IInv'
  BY <1>3, AllocInv, AddOnceInv, AddSharedInv
<1>4. CASE \E a \in held : Release(a)
  BY <1>4, ReleaseInv
<1>5. CASE \E x \in Items : AddFound(x)
  BY <1>5, AddFoundInv
<1>6. CASE Close
  BY <1>6, CloseInv
<1>7. CASE ShutdownPurge
  BY <1>7, ShutdownPurgeInv
<1>8. CASE Destroyed
  BY <1>8, DestroyedInv
<1>9. CASE UNCHANGED vars
  BY <1>9 DEF vars, IInv, TypeOK, Block, StampsAscend, LookupIsCurrent, BackIsStamped, EmptyMeansDone, Back
<1> QED  BY <1>1, <1>2, <1>3, <1>4, <1>5, <1>6, <1>7, <1>8, <1>9 DEF Next

-----------------------------------------------------------------------------
(* The invariant holds in every reachable state.                           *)
THEOREM Invariance == Spec => []IInv
<1>1. Init => IInv
  BY InitInv
<1>2. IInv /\ [Next]_vars => IInv'
  BY NextInv
<1> QED  BY <1>1, <1>2, PTL DEF Spec

(* The lists, the lookup and the fence keep their types: every block has   *)
(* the id of a block created and no stamp is ahead of the fence.           *)
THEOREM TypeCorrect == Spec => []TypeOK
<1>1. IInv => TypeOK
  BY DEF IInv
<1> QED  BY <1>1, Invariance, PTL

(* No block completes before the ones in front of it, so that purging may  *)
(* stop at the first that is not complete.                                 *)
THEOREM PurgeFromFront == Spec => []StampsAscend
<1>1. IInv => StampsAscend
  BY DEF IInv
<1> QED  BY <1>1, Invariance, PTL

(* Every address the lookup returns is in a block that is in the list and  *)
(* was used since the last sync point.                                     *)
THEOREM LookupCurrent == Spec => []LookupIsCurrent
<1>1. IInv => LookupIsCurrent
  BY DEF IInv
<1> QED  BY <1>1, Invariance, PTL

(* Memory is released when the GPU has finished with all that was          *)
(* submitted.                                                              *)
THEOREM ReleasedWhenIdle == Spec => []DestroyedWhenIdle
<1>1. IInv => DestroyedWhenIdle
  <2> SUFFICES ASSUME IInv, phase = "destroyed", NEW id \in DOMAIN lastUse, lastUse[id] <= sync
               PROVE  lastUse[id] <= completed
    BY DEF DestroyedWhenIdle
  <2>1. lastUse = <<>> \/ sync <= completed
    BY DEF IInv, EmptyMeansDone
  <2>2. /\ sync \in Nat /\ completed \in Nat /\ MaxSync \in Nat /\ DOMAIN lastUse = 1..Len(lastUse)
        /\ lastUse[id] \in 1..(MaxSync + 1)
    BY TypeFacts DEF IInv
  <2>3. lastUse # <<>>
    OBVIOUS
  <2> QED  BY <2>1, <2>2, <2>3
<1> QED  BY <1>1, Invariance, PTL

-----------------------------------------------------------------------------
(* Where blocks and allocations are *)

(* PadTo does not go below its argument.                                   *)
LEMMA PadToBounds ==
  ASSUME NEW n \in Nat, NEW a \in Nat \ {0}
  PROVE  PadTo(n, a) \in Nat /\ PadTo(n, a) >= n /\ PadTo(0, a) = 0
<1> DEFINE q == (n + a - 1) \div a
<1>1. q \in Nat
  OBVIOUS
<1>2. a * q <= n + a - 1 /\ n + a - 1 < a * q + a
  OBVIOUS
<1>3. q * a \in Nat /\ q * a = a * q
  BY <1>1
<1>4. q * a >= n
  BY <1>1, <1>2, <1>3
<1>5. (0 + a - 1) \div a = 0
  OBVIOUS
<1>6. 0 * a = 0
  OBVIOUS
<1> HIDE DEF q
<1>7. PadTo(0, a) = 0
  BY <1>5, <1>6 DEF PadTo
<1>8. PadTo(n, a) = q * a
  BY DEF PadTo, q
<1> QED  BY <1>3, <1>4, <1>7, <1>8

(* The values of a function without repetitions, counted.                  *)
LEMMA CountAll ==
  ASSUME NEW n \in Nat, NEW f, \A i, k \in 1..n : f[i] = f[k] => i = k
  PROVE  IsFiniteSet({f[i] : i \in 1..n}) /\ Cardinality({f[i] : i \in 1..n}) = n
<1> DEFINE T == {f[i] : i \in 1..n}
           g == [i \in 1..n |-> f[i]]
<1>1. g \in Surjection(1..n, T) /\ g \in Injection(1..n, T)
  BY DEF Surjection, Injection, IsInjective
<1>2. IsFiniteSet(1..n) /\ Cardinality(1..n) = n
  BY FS_Interval
<1>3. IsFiniteSet(T) /\ Cardinality(T) = n
  BY <1>1, <1>2, FS_Surjection
<1> QED  BY <1>3

LEMMA CountDisjoint ==
  ASSUME NEW S, IsFiniteSet(S), NEW T, IsFiniteSet(T), S \cap T = {}
  PROVE  IsFiniteSet(S \cup T) /\ Cardinality(S \cup T) = Cardinality(S) + Cardinality(T)
<1>1. Cardinality(S) \in Nat /\ Cardinality(T) \in Nat
  BY FS_CardinalityType
<1> QED  BY <1>1, FS_Union, FS_EmptySet

-----------------------------------------------------------------------------
(* Where each block is.  A block to recycle has lost what it held.         *)
Places ==
  /\ OnePlace /\ HeldStaysAlive
  /\ IsFiniteSet(free) /\ \A b \in free : b.size = 0

(* What the types say of the lists and of the allocations.                 *)
LEMMA UsedFacts ==
  ASSUME IInv
  PROVE  /\ Len(used) \in Nat /\ DOMAIN used = 1..Len(used) /\ Len(lastUse) \in Nat
         /\ \A i \in 1..Len(used) : /\ used[i].id \in 1..Len(lastUse) /\ used[i].cap \in Nat /\ used[i].size \in Nat
                                    /\ Recycled(used[i]).id = used[i].id /\ Recycled(used[i]).size = 0
         /\ \A b \in free : b.id \in 1..Len(lastUse) /\ b.cap \in Nat
         /\ \A a \in held : a.lo \in Nat /\ a.hi \in Nat
<1>1. /\ Len(lastUse) \in Nat /\ sync \in Nat
      /\ used \in Seq(BlockOf(Len(lastUse), sync)) /\ free \subseteq BlockOf(Len(lastUse), sync)
  BY TypeFacts DEF IInv
<1>2. /\ Len(used) \in Nat /\ DOMAIN used = 1..Len(used)
      /\ \A i \in 1..Len(used) : used[i] \in BlockOf(Len(lastUse), sync) /\ used[i].id \in 1..Len(lastUse)
                                 /\ used[i].cap \in Nat /\ used[i].size \in Nat
  BY <1>1, BlockFacts
<1>3. \A b \in BlockOf(Len(lastUse), sync) :
        b.id \in 1..Len(lastUse) /\ b.cap \in Nat /\ Recycled(b).id = b.id /\ Recycled(b).size = 0
  BY DEF BlockOf, Recycled
<1>4. \A a \in held : a.lo \in Nat /\ a.hi \in Nat
  BY DEF IInv, TypeOK
<1> QED  BY <1>1, <1>2, <1>3, <1>4

(* A purge takes blocks from the front that nobody refers to.              *)
LEMMA PurgePlaces ==
  ASSUME IInv, Places, phase # "destroyed",
         NEW n \in Nat, n <= Len(used), \A i \in 1..n : ~Referenced(used[i].id),
         DOMAIN used' = 1..(Len(used) - n), Len(used') = Len(used) - n,
         \A i \in 1..(Len(used) - n) :
           used'[i].id = used[n + i].id /\ used'[i].cap = used[n + i].cap /\ used'[i].size = used[n + i].size,
         free' = free \cup {Recycled(used[i]) : i \in 1..n},
         held' = held, Len(lastUse') = Len(lastUse)
  PROVE  Places'
<1> DEFINE N == Len(used)
           f == [i \in 1..n |-> Recycled(used[i])]
           T == {f[i] : i \in 1..n}
<1>1. /\ N \in Nat /\ DOMAIN used = 1..N /\ n \in Nat /\ n <= N /\ N - n \in Nat
      /\ \A i \in 1..N : used[i].id \in 1..Len(lastUse) /\ used[i].cap \in Nat /\ used[i].size \in Nat
      /\ \A i \in 1..n : i \in 1..N
      /\ \A i \in 1..(N - n) : n + i \in 1..N /\ i \in Nat
  <2>1. /\ N \in Nat /\ DOMAIN used = 1..N
        /\ \A i \in 1..N : used[i].id \in 1..Len(lastUse) /\ used[i].cap \in Nat /\ used[i].size \in Nat
    BY UsedFacts
  <2>2. n \in Nat /\ n <= N
    OBVIOUS
  <2> HIDE DEF N
  <2>3. N - n \in Nat /\ (\A i \in 1..n : i \in 1..N) /\ \A i \in 1..(N - n) : n + i \in 1..N /\ i \in Nat
    BY <2>1, <2>2
  <2> QED  BY <2>1, <2>2, <2>3
<1>2. /\ \A i, k \in 1..N : used[i].id = used[k].id => i = k
      /\ \A i \in 1..N : used[i].size <= used[i].cap /\ \A b \in free : b.id # used[i].id
      /\ \A b, c \in free : b.id = c.id => b = c
      /\ N + Cardinality(free) = Len(lastUse)
      /\ IsFiniteSet(free) /\ \A b \in free : b.size = 0
  BY <1>1 DEF Places, OnePlace
<1>3. \A i \in 1..n : f[i].id = used[i].id /\ f[i].size = 0
  BY <1>1, UsedFacts
<1>4. free' = free \cup T
  OBVIOUS
<1>5. /\ DOMAIN used' = 1..(N - n) /\ Len(used') = N - n
      /\ \A i \in 1..(N - n) :
           used'[i].id = used[n + i].id /\ used'[i].cap = used[n + i].cap /\ used'[i].size = used[n + i].size
  OBVIOUS
<1> HIDE DEF N, f, T
<1>6. \A i, k \in DOMAIN used' : used'[i].id = used'[k].id => i = k
  <2> SUFFICES ASSUME NEW i \in 1..(N - n), NEW k \in 1..(N - n), used'[i].id = used'[k].id PROVE i = k
    BY <1>5
  <2>1. n + i \in 1..N /\ n + k \in 1..N /\ used[n + i].id = used[n + k].id
    BY <1>1, <1>5
  <2>3. n + i = n + k
    BY <1>2, <2>1
  <2> QED  BY <2>3, <1>1
<1>7. \A b \in T : \E j \in 1..n : b = f[j] /\ b.id = used[j].id
  BY <1>3 DEF T
<1>8. \A i \in DOMAIN used' : used'[i].size <= used'[i].cap /\ \A b \in free' : b.id # used'[i].id
  <2> SUFFICES ASSUME NEW i \in 1..(N - n)
               PROVE  used'[i].size <= used'[i].cap /\ \A b \in free' : b.id # used'[i].id
    BY <1>5
  <2>0. /\ n + i \in 1..N /\ used'[i].id = used[n + i].id
        /\ used'[i].cap = used[n + i].cap /\ used'[i].size = used[n + i].size
    BY <1>1, <1>5
  <2>1. used'[i].size <= used'[i].cap /\ \A b \in free : b.id # used'[i].id
    BY <1>2, <2>0
  <2>2. ASSUME NEW b \in T PROVE b.id # used'[i].id
    <3>1. PICK j \in 1..n : b.id = used[j].id
      BY <1>7
    <3>2. j # n + i /\ j \in 1..N /\ n + i \in 1..N
      BY <1>1
    <3> QED  BY <1>2, <1>5, <3>1, <3>2
  <2> QED  BY <1>4, <2>1, <2>2
<1>9. \A b, c \in free' : b.id = c.id => b = c
  <2>1. \A b, c \in T : b.id = c.id => b = c
    <3> SUFFICES ASSUME NEW b \in T, NEW c \in T, b.id = c.id PROVE b = c
      OBVIOUS
    <3>1. PICK i \in 1..n : b = f[i] /\ b.id = used[i].id
      BY <1>7
    <3>2. PICK k \in 1..n : c = f[k] /\ c.id = used[k].id
      BY <1>7
    <3> QED  BY <1>1, <1>2, <3>1, <3>2
  <2>2. \A b \in free, c \in T : b.id # c.id
    BY <1>1, <1>2, <1>7
  <2> QED  BY <1>2, <1>4, <2>1, <2>2
<1>10. IsFiniteSet(free') /\ Cardinality(free') = Cardinality(free) + n /\ Cardinality(free) \in Nat
  <2>1. \A i, k \in 1..n : f[i] = f[k] => i = k
    BY <1>1, <1>2, <1>3
  <2>2. IsFiniteSet(T) /\ Cardinality(T) = n
    <3>1. n \in Nat
      OBVIOUS
    <3> QED  BY <3>1, <2>1, CountAll DEF T
  <2>3. free \cap T = {}
    BY <1>1, <1>2, <1>7
  <2>4. Cardinality(free) \in Nat
    BY <1>2, FS_CardinalityType
  <2>5. IsFiniteSet(free \cup T) /\ Cardinality(free \cup T) = Cardinality(free) + Cardinality(T)
    BY <1>2, <2>2, <2>3, CountDisjoint
  <2> QED  BY <1>4, <2>2, <2>4, <2>5
<1>11. OnePlace'
  <2>1. Len(used') + Cardinality(free') = Len(lastUse')
    BY <1>1, <1>2, <1>5, <1>10
  <2> QED  BY <1>6, <1>8, <1>9, <2>1 DEF OnePlace
<1>12. HeldStaysAlive'
  <2> SUFFICES ASSUME NEW a \in held PROVE \E i \in DOMAIN used' : used'[i].id = a.id /\ a.hi <= used'[i].size
    BY DEF Places, HeldStaysAlive
  <2>1. PICK i \in 1..N : used[i].id = a.id /\ a.hi <= used[i].size
    BY <1>1 DEF Places, HeldStaysAlive
  <2>2. ~(i \in 1..n)
    BY <2>1 DEF Referenced
  <2>3. i - n \in 1..(N - n) /\ n + (i - n) = i
    BY <1>1, <2>1, <2>2
  <2> QED  BY <1>5, <2>1, <2>3
<1>13. \A b \in free' : b.size = 0
  BY <1>2, <1>3, <1>4 DEF T
<1> QED  BY <1>10, <1>11, <1>12, <1>13 DEF Places

(* Whichever way room is found, it fits behind what the block at the back  *)
(* holds already, and no block is lost or in two places.                   *)
RoomIsThere(u, fr, n, start, size) ==
  LET N == Len(u) IN
  /\ N \in Nat \ {0} /\ DOMAIN u = 1..N /\ start \in Nat
  /\ \A i, k \in 1..N : u[i].id = u[k].id => i = k
  /\ \A i \in 1..N : /\ u[i].cap \in Nat /\ u[i].size \in Nat /\ u[i].size <= u[i].cap
                     /\ \A b \in fr : b.id # u[i].id
  /\ u[N].size <= start /\ start + size <= u[N].cap
  /\ IsFiniteSet(fr) /\ N + Cardinality(fr) = n

LEMMA RoomPlaces ==
  ASSUME IInv, Places, phase # "destroyed", NEW size \in Nat \ {0}, NEW alignment \in Nat \ {0},
         NEW r \in Room(size, alignment)
  PROVE  /\ RoomIsThere(r.used, r.free, Len(lastUse) + r.created, Start(r, alignment), size)
         /\ \A i \in DOMAIN used : i \in DOMAIN r.used /\ r.used[i] = used[i]
         /\ r.free \subseteq free
<1> DEFINE N == Len(used)
           m == Len(lastUse)
<1>1. /\ N \in Nat /\ DOMAIN used = 1..N /\ m \in Nat
      /\ \A i \in 1..N : used[i].id \in 1..m /\ used[i].cap \in Nat /\ used[i].size \in Nat
      /\ \A b \in free : b.id \in 1..m /\ b.cap \in Nat
  BY UsedFacts
<1>2. /\ \A i, k \in 1..N : used[i].id = used[k].id => i = k
      /\ \A i \in 1..N : used[i].size <= used[i].cap /\ \A b \in free : b.id # used[i].id
      /\ \A b, c \in free : b.id = c.id => b = c
      /\ N + Cardinality(free) = m
      /\ IsFiniteSet(free) /\ \A b \in free : b.size = 0
  BY <1>1 DEF Places, OnePlace
<1>3. Cardinality(free) \in Nat
  BY <1>2, FS_CardinalityType
<1>4. /\ \A i \in DOMAIN used : i \in DOMAIN r.used /\ r.used[i] = used[i]
      /\ r.free \subseteq free
  BY RoomFacts
<1>5. r \in EnsureCapacity(size, alignment)
  BY DEF Room
<1> DEFINE there == RoomIsThere(r.used, r.free, m + r.created, Start(r, alignment), size)
<1> SUFFICES there
  BY <1>4
<1>6. ASSUME NEW b, b.cap \in Nat, b.size = 0, size <= b.cap, r.used = Append(used, b),
             \A i \in 1..N : b.id # used[i].id,
             \A c \in r.free : c.id # b.id,
             IsFiniteSet(r.free), N + 1 + Cardinality(r.free) = m + r.created
      PROVE  RoomIsThere(r.used, r.free, m + r.created, Start(r, alignment), size)
  <2> DEFINE u == r.used
             start == Start(r, alignment)
  <2>1. u = Append(used, b)
    BY <1>6
  <2>2. Len(u) = N + 1 /\ DOMAIN u = 1..(N + 1) /\ u[N + 1] = b /\ \A i \in 1..N : u[i] = used[i]
    <3>1. used \in Seq(BlockOf(m, sync))
      BY TypeFacts DEF IInv
    <3> QED  BY <2>1, <3>1, SeqAppend
  <2>3. start = 0
    <3>1. Back(u) = b
      BY <2>2 DEF Back
    <3> QED  BY <1>6, <3>1, PadToBounds DEF Start
  <2> HIDE DEF u, start, N, m
  <2>4. N + 1 \in Nat \ {0} /\ (\A i \in 1..(N + 1) : i \in 1..N \/ i = N + 1) /\ 0 \in Nat /\ 0 + size = size
    BY <1>1
  <2>5. \A i, k \in 1..(N + 1) : u[i].id = u[k].id => i = k
    <3> SUFFICES ASSUME NEW i \in 1..(N + 1), NEW k \in 1..(N + 1), u[i].id = u[k].id PROVE i = k
      OBVIOUS
    <3>1. CASE i \in 1..N /\ k \in 1..N
      BY <1>2, <2>2, <3>1
    <3>2. CASE i = N + 1 /\ k \in 1..N
      BY <1>6, <2>2, <3>2
    <3>3. CASE i \in 1..N /\ k = N + 1
      BY <1>6, <2>2, <3>3
    <3> QED  BY <2>4, <3>1, <3>2, <3>3
  <2>6. \A i \in 1..(N + 1) : /\ u[i].cap \in Nat /\ u[i].size \in Nat /\ u[i].size <= u[i].cap
                              /\ \A c \in r.free : c.id # u[i].id
    <3> SUFFICES ASSUME NEW i \in 1..(N + 1)
                 PROVE  /\ u[i].cap \in Nat /\ u[i].size \in Nat /\ u[i].size <= u[i].cap
                        /\ \A c \in r.free : c.id # u[i].id
      OBVIOUS
    <3>1. CASE i \in 1..N
      BY <1>1, <1>2, <1>4, <2>2, <3>1
    <3>2. CASE i = N + 1
      BY <1>6, <2>2, <3>2
    <3> QED  BY <2>4, <3>1, <3>2
  <2>7. u[N + 1].size <= start /\ start + size <= u[N + 1].cap /\ start \in Nat
    BY <1>6, <2>2, <2>3, <2>4
  <2>8. RoomIsThere(u, r.free, m + r.created, start, size)
    BY <1>6, <2>2, <2>4, <2>5, <2>6, <2>7 DEF RoomIsThere
  <2> QED  BY <2>8 DEF u, start, m
<1>7. CASE used # <<>> /\ Fits(Back(used), size, alignment)
  <2>1. r.used = used /\ r.free = free /\ r.created = 0
    BY <1>5, <1>7 DEF EnsureCapacity
  <2>2. N # 0 /\ N \in 1..N
    <3>1. used \in Seq(BlockOf(m, sync))
      BY TypeFacts DEF IInv
    <3>2. N # 0
      BY <1>7, <3>1
    <3> QED  BY <1>1, <3>2
  <2>3. Start(r, alignment) = PadTo(used[N].size, alignment)
    BY <2>1 DEF Start, Back
  <2>4. /\ Start(r, alignment) \in Nat /\ used[N].size <= Start(r, alignment)
        /\ Start(r, alignment) + size <= used[N].cap
    BY <1>1, <1>7, <2>2, <2>3, PadToBounds DEF Fits, Back
  <2>5. N \in Nat \ {0} /\ m + r.created = m
    BY <1>1, <2>1, <2>2
  <2> QED  BY <1>1, <1>2, <1>4, <2>1, <2>4, <2>5 DEF RoomIsThere
<1>8. CASE ~(used # <<>> /\ Fits(Back(used), size, alignment)) /\ Recyclable(size) # {}
  <2>1. PICK b \in Recyclable(size) : r = [used |-> Append(used, Restamp(b)), free |-> free \ {b}, created |-> 0]
    BY <1>5, <1>8 DEF EnsureCapacity
  <2>2. b \in free /\ b.cap >= size /\ b \in BlockOf(m, sync) /\ sync \in Nat
    BY TypeFacts DEF Recyclable, IInv
  <2>3. Restamp(b).id = b.id /\ Restamp(b).cap = b.cap /\ Restamp(b).size = b.size
    BY <2>2 DEF Restamp, BlockOf
  <2>4. r.used = Append(used, Restamp(b)) /\ r.free = free \ {b} /\ r.created = 0
    BY <2>1
  <2>5. IsFiniteSet(r.free) /\ Cardinality(r.free) = Cardinality(free) - 1
    BY <1>2, <2>2, <2>4, FS_RemoveElement
  <2>6. N + 1 + Cardinality(r.free) = m + r.created
    BY <1>1, <1>2, <1>3, <2>4, <2>5
  <2>7. \A c \in r.free : c.id # b.id
    BY <1>2, <2>2, <2>4
  <2> DEFINE c == Restamp(b)
  <2>8. /\ c.cap \in Nat /\ c.size = 0 /\ size <= c.cap
        /\ \A i \in 1..N : c.id # used[i].id
        /\ \A d \in r.free : d.id # c.id
        /\ IsFiniteSet(r.free) /\ r.used = Append(used, c)
    BY <1>1, <1>2, <2>2, <2>3, <2>4, <2>5, <2>7
  <2> HIDE DEF N, m, c
  <2> QED  BY <1>6, <2>6, <2>8
<1>9. CASE ~(used # <<>> /\ Fits(Back(used), size, alignment)) /\ Recyclable(size) = {}
  <2>1. r.used = Append(used, NewBlock(size)) /\ r.free = free /\ r.created = 1
    BY <1>5, <1>9 DEF EnsureCapacity
  <2>2. /\ NewBlock(size).id = m + 1 /\ NewBlock(size).cap \in Nat
        /\ NewBlock(size).size = 0 /\ size <= NewBlock(size).cap
    BY <1>1, SizesAssumption DEF NewBlock
  <2>3. m + 1 \notin 1..m
    BY <1>1
  <2>4. N + 1 + Cardinality(r.free) = m + r.created
    BY <1>1, <1>2, <1>3, <2>1
  <2>5. /\ \A i \in 1..N : NewBlock(size).id # used[i].id
        /\ \A c \in r.free : c.id # NewBlock(size).id
        /\ IsFiniteSet(r.free)
    BY <1>1, <1>2, <2>1, <2>2, <2>3
  <2> HIDE DEF N, m
  <2> QED  BY <1>6, <2>1, <2>2, <2>4, <2>5 DEF m
<1>10. \/ used # <<>> /\ Fits(Back(used), size, alignment)
       \/ ~(used # <<>> /\ Fits(Back(used), size, alignment)) /\ Recyclable(size) # {}
       \/ ~(used # <<>> /\ Fits(Back(used), size, alignment)) /\ Recyclable(size) = {}
  OBVIOUS
<1> HIDE DEF there
<1> QED  BY <1>7, <1>8, <1>9, <1>10

(* Consuming space: the allocation that is handed out, if the caller keeps *)
(* it, lies behind all that the block held.                                *)
LEMMA TakePlaces ==
  ASSUME IInv, Places, phase = "alive", phase' = "alive",
         NEW size \in Nat \ {0}, NEW alignment \in Nat \ {0},
         NEW r \in Room(size, alignment), Take(r, size, alignment),
         \A a \in held' : a \in held \/ a = [id |-> Back(r.used).id, lo |-> Start(r, alignment),
                                             hi |-> Start(r, alignment) + size]
  PROVE  Places'
<1> DEFINE u == r.used
           N == Len(u)
           start == Start(r, alignment)
           m == Len(lastUse) + r.created
<1>1. /\ RoomIsThere(r.used, r.free, Len(lastUse) + r.created, Start(r, alignment), size)
      /\ \A i \in DOMAIN used : i \in DOMAIN r.used /\ r.used[i] = used[i]
      /\ r.free \subseteq free
  <2>1. phase # "destroyed"
    OBVIOUS
  <2> QED  BY <2>1, RoomPlaces
<1>2. /\ N \in Nat \ {0} /\ DOMAIN u = 1..N /\ start \in Nat
      /\ \A i, k \in 1..N : u[i].id = u[k].id => i = k
      /\ \A i \in 1..N : /\ u[i].cap \in Nat /\ u[i].size \in Nat /\ u[i].size <= u[i].cap
                         /\ \A b \in r.free : b.id # u[i].id
      /\ u[N].size <= start /\ start + size <= u[N].cap
      /\ IsFiniteSet(r.free) /\ N + Cardinality(r.free) = m
  BY <1>1 DEF RoomIsThere
<1>3. used' = [u EXCEPT ![N].size = start + size] /\ free' = r.free
  BY DEF Take, Consume
<1>4. Len(lastUse') = m /\ used' \in Seq(BlockOf(m, sync))
  BY TakeFacts
<1>5. /\ u \in Seq(BlockOf(m, sync)) /\ m \in Nat /\ sync \in Nat
  <2>1. Len(lastUse) \in Nat /\ sync \in Nat /\ r.created \in {0, 1}
    BY TypeFacts, RoomFacts DEF IInv
  <2> QED  BY <2>1, RoomFacts
<1> HIDE DEF u, N, start, m
<1>6. DOMAIN used' = 1..N /\ Len(used') = N
  <2>1. DOMAIN used' = 1..N
    BY <1>2, <1>3
  <2>2. Len(used') \in Nat /\ DOMAIN used' = 1..Len(used')
    BY <1>4
  <2> QED  BY <1>2, <2>1, <2>2
<1>7. /\ \A i \in 1..N : i # N => used'[i] = u[i]
      /\ used'[N] = [u[N] EXCEPT !.size = start + size]
  BY <1>2, <1>3
<1>8. \A i \in 1..N : u[i] \in BlockOf(m, sync)
  BY <1>2, <1>5
<1>9. N \in 1..N /\ start + size \in Nat
  BY <1>2
<1>10. /\ used'[N].size = start + size /\ used'[N].cap = u[N].cap /\ used'[N].id = u[N].id
  BY <1>7, <1>8, <1>9 DEF BlockOf
<1>11. \A i \in 1..N : /\ used'[i].id = u[i].id /\ used'[i].cap = u[i].cap
                       /\ u[i].size <= used'[i].size /\ used'[i].size <= used'[i].cap
  <2> SUFFICES ASSUME NEW i \in 1..N
               PROVE  /\ used'[i].id = u[i].id /\ used'[i].cap = u[i].cap
                      /\ u[i].size <= used'[i].size /\ used'[i].size <= used'[i].cap
    OBVIOUS
  <2>1. CASE i = N
    BY <1>2, <1>9, <1>10, <2>1
  <2>2. CASE i # N
    BY <1>2, <1>7, <2>2
  <2> QED  BY <2>1, <2>2
<1>12. OnePlace'
  <2>1. \A i, k \in DOMAIN used' : used'[i].id = used'[k].id => i = k
    BY <1>2, <1>6, <1>11
  <2>2. \A i \in DOMAIN used' : used'[i].size <= used'[i].cap /\ \A b \in free' : b.id # used'[i].id
    BY <1>2, <1>3, <1>6, <1>11
  <2>3. \A b, c \in free' : b.id = c.id => b = c
    BY <1>1, <1>3 DEF Places, OnePlace
  <2>4. Len(used') + Cardinality(free') = Len(lastUse')
    BY <1>2, <1>3, <1>4, <1>6
  <2> QED  BY <2>1, <2>2, <2>3, <2>4 DEF OnePlace
<1>13. \A a \in held : /\ \E i \in 1..N : u[i].id = a.id /\ a.hi <= u[i].size
                       /\ \A c \in held : c.id = a.id /\ c # a => c.hi <= a.lo \/ a.hi <= c.lo
                       /\ a.lo \in Nat /\ a.hi \in Nat
  <2>1. \A a \in held : /\ \E i \in DOMAIN used : used[i].id = a.id /\ a.hi <= used[i].size
                        /\ \A c \in held : c.id = a.id /\ c # a => c.hi <= a.lo \/ a.hi <= c.lo
    BY DEF Places, HeldStaysAlive
  <2>2. \A i \in DOMAIN used : i \in 1..N /\ u[i] = used[i]
    BY <1>1, <1>2 DEF u
  <2>3. \A a \in held : a.lo \in Nat /\ a.hi \in Nat
    BY UsedFacts
  <2> QED  BY <2>1, <2>2, <2>3
<1>14. HeldStaysAlive'
  <2> DEFINE new == [id |-> u[N].id, lo |-> start, hi |-> start + size]
  <2>1. \A a \in held' : a \in held \/ a = new
    BY DEF Back, u, N, start
  <2>2. new.id = u[N].id /\ new.lo = start /\ new.hi = start + size
    OBVIOUS
  <2> HIDE DEF new
  <2>3. \A a \in held : a.id = new.id => a.hi <= new.lo
    <3> SUFFICES ASSUME NEW a \in held, a.id = new.id PROVE a.hi <= new.lo
      OBVIOUS
    <3>1. PICK i \in 1..N : u[i].id = a.id /\ a.hi <= u[i].size /\ a.hi \in Nat
      BY <1>13
    <3>2. i = N
      BY <1>2, <1>9, <2>2, <3>1
    <3> QED  BY <1>2, <2>2, <3>1, <3>2
  <2>4. \A a \in held' : \E i \in DOMAIN used' : used'[i].id = a.id /\ a.hi <= used'[i].size
    <3> SUFFICES ASSUME NEW a \in held'
                 PROVE  \E i \in 1..N : used'[i].id = a.id /\ a.hi <= used'[i].size
      BY <1>6
    <3>1. CASE a \in held
      <4>1. PICK i \in 1..N : u[i].id = a.id /\ a.hi <= u[i].size /\ a.hi \in Nat
        BY <1>13, <3>1
      <4>2. used'[i].id = u[i].id /\ u[i].size <= used'[i].size /\ u[i].size \in Nat /\ used'[i].size \in Int
        <5>1. used'[i].size \in Int
          <6>1. CASE i = N
            BY <1>9, <1>10, <6>1
          <6>2. CASE i # N
            <7>1. used'[i] = u[i]
              BY <1>7, <6>2
            <7> QED  BY <1>2, <7>1
          <6> QED  BY <6>1, <6>2
        <5> QED  BY <1>2, <1>11, <5>1
      <4>3. a.hi <= used'[i].size
        BY <4>1, <4>2
      <4> QED  BY <4>1, <4>2, <4>3
    <3>2. CASE a = new
      <4>1. used'[N].id = a.id /\ a.hi <= used'[N].size
        BY <1>9, <1>10, <2>2, <3>2
      <4> QED  BY <1>9, <4>1
    <3> QED  BY <2>1, <3>1, <3>2
  <2>5. \A a, c \in held' : c.id = a.id /\ c # a => c.hi <= a.lo \/ a.hi <= c.lo
    BY <1>13, <2>1, <2>3
  <2> QED  BY <2>4, <2>5 DEF HeldStaysAlive
<1>15. IsFiniteSet(free') /\ \A b \in free' : b.size = 0
  BY <1>1, <1>2, <1>3 DEF Places
<1> QED  BY <1>12, <1>14, <1>15 DEF Places

(* A step that moves no block and hands nothing out.                       *)
LEMMA StayPlaces ==
  ASSUME Places, used' = used, free' = free, Len(lastUse') = Len(lastUse),
         held' \subseteq held, phase' = "destroyed" <=> phase = "destroyed"
  PROVE  Places'
<1>1. OnePlace'
  BY DEF Places, OnePlace
<1>2. HeldStaysAlive'
  BY DEF Places, HeldStaysAlive
<1> QED  BY <1>1, <1>2 DEF Places

LEMMA NextPlaces == IInv /\ Places /\ [Next]_vars => Places'
<1> SUFFICES ASSUME IInv, Places, [Next]_vars PROVE Places'
  OBVIOUS
<1>1. CASE GpuAdvance \/ Close \/ UNCHANGED vars
  BY <1>1, StayPlaces DEF GpuAdvance, Close, vars
<1>2. CASE \E a \in held : Release(a)
  BY <1>2, StayPlaces DEF Release
<1>3. CASE \E x \in Items : AddFound(x)
  <2>1. PICK x \in Items : AddFound(x)
    BY <1>3
  <2>2. lastUse' = [lastUse EXCEPT ![lookup[x].id] = sync + 1]
    BY <2>1 DEF AddFound
  <2>3. lastUse[lookup[x].id] = sync + 1 /\ lookup[x].id \in DOMAIN lastUse
    BY <2>1 DEF AddFound, IInv, LookupIsCurrent, TypeOK
  <2>4. lastUse' = lastUse
    <3>1. lastUse = [id \in DOMAIN lastUse |-> lastUse[id]]
      BY DEF IInv, TypeOK
    <3> QED  BY <2>2, <2>3, <3>1
  <2> QED  BY <2>1, <2>4, StayPlaces DEF AddFound
<1>4. ASSUME NEW size \in Sizes, NEW alignment \in Alignments,
             \/ Alloc(size, alignment) \/ AddOnce(size, alignment)
             \/ \E x \in Items : AddShared(x, size, alignment)
      PROVE  Places'
  <2>1. size \in Nat \ {0} /\ alignment \in Nat \ {0}
    BY SizesAssumption
  <2>2. CASE Alloc(size, alignment)
    <3>1. PICK r \in Room(size, alignment) :
            /\ Take(r, size, alignment)
            /\ held' = held \cup {[id |-> Back(r.used).id, lo |-> Start(r, alignment), hi |-> Start(r, alignment) + size]}
      BY <2>2 DEF Alloc
    <3>2. phase = "alive" /\ phase' = "alive"
      BY <2>2 DEF Alloc
    <3> QED  BY <2>1, <3>1, <3>2, TakePlaces
  <2>3. CASE AddOnce(size, alignment) \/ \E x \in Items : AddShared(x, size, alignment)
    <3>1. PICK r \in Room(size, alignment) : Take(r, size, alignment)
      BY <2>3 DEF AddOnce, AddShared
    <3>2. phase = "alive" /\ phase' = "alive" /\ held' = held
      BY <2>3 DEF AddOnce, AddShared
    <3> QED  BY <2>1, <3>1, <3>2, TakePlaces
  <2> QED  BY <1>4, <2>2, <2>3
<1>5. CASE Destroyed
  <2>1. /\ used' = used /\ free' = {} /\ held' = held /\ phase' = "destroyed" /\ used = <<>>
    BY <1>5 DEF Destroyed
  <2>2. DOMAIN used' = {}
    BY <2>1
  <2>3. OnePlace' /\ HeldStaysAlive'
    BY <2>1, <2>2 DEF OnePlace, HeldStaysAlive
  <2> QED  BY <2>1, <2>3, FS_EmptySet DEF Places
<1>6. CASE ShutdownPurge
  <2>1. /\ held' = held /\ lastUse' = lastUse /\ phase = "closing" /\ used # <<>>
    BY <1>6 DEF ShutdownPurge
  <2>2. CASE Referenced(Front.id)
    BY <1>6, <2>1, <2>2, StayPlaces DEF ShutdownPurge
  <2>3. CASE ~Referenced(Front.id)
    <3> DEFINE N == Len(used)
    <3>1. used' = Tail(used) /\ free' = free \cup {Recycled(Front)}
      BY <1>6, <2>3 DEF ShutdownPurge
    <3>2. used \in Seq(Block) /\ N \in Nat \ {0} /\ Front = used[1]
      BY <2>1 DEF IInv, TypeOK, Front
    <3>3. Len(used') = N - 1 /\ DOMAIN used' = 1..(N - 1) /\ \A i \in 1..(N - 1) : used'[i] = used[i + 1]
      BY <2>1, <3>1, <3>2, SeqTail
    <3>4. \A i \in 1..(N - 1) : 1 + i = i + 1
      BY <3>2
    <3>5. {Recycled(used[i]) : i \in 1..1} = {Recycled(Front)}
      <4>1. 1..1 = {1}
        OBVIOUS
      <4> QED  BY <3>2, <4>1
    <3>6. \A i \in 1..1 : ~Referenced(used[i].id)
      BY <2>3, <3>2
    <3>7. 1 \in Nat /\ 1 <= N /\ phase # "destroyed"
      BY <2>1, <3>2
    <3> HIDE DEF N
    <3>8. \A i \in 1..(N - 1) : used'[i] = used[1 + i]
      BY <3>3, <3>4
    <3> QED  BY <2>1, <3>1, <3>3, <3>5, <3>6, <3>7, <3>8, PurgePlaces DEF N
  <2> QED  BY <2>2, <2>3
<1>7. CASE AddSyncPoint
  <2>1. /\ phase = "alive" /\ phase' = "alive" /\ held' = held /\ lastUse' = lastUse
    BY <1>7 DEF AddSyncPoint, AddSyncPointWith
  <2>2. CASE used = <<>>
    BY <1>7, <2>1, <2>2, StayPlaces DEF AddSyncPoint, AddSyncPointWith
  <2>3. CASE used # <<>>
    <3>1. PICK n \in PurgeCounts :
            /\ used' = Stamped(SubSeq(used, n + 1, Len(used)), sync + 1)
            /\ free' = free \cup {Recycled(used[i]) : i \in 1..n}
      BY <1>7, <2>3 DEF AddSyncPoint, AddSyncPointWith
    <3> DEFINE N == Len(used)
               u == SubSeq(used, n + 1, N)
               m == N - n
    <3>2. n \in 0..(N - 1) /\ \A i \in 1..n : ~Referenced(used[i].id)
      BY DEF PurgeCounts, Purgeable
    <3>3. used \in Seq(Block) /\ N \in Nat \ {0} /\ DOMAIN used = 1..N /\ \A i \in 1..N : used[i] \in Block
      BY <2>3 DEF IInv, TypeOK
    <3>4. /\ u \in Seq(Block) /\ Len(u) = m /\ m \in Nat \ {0} /\ DOMAIN u = 1..m
          /\ \A i \in 1..m : u[i] = used[n + i]
      <4>1. /\ u \in Seq(Block) /\ Len(u) = m /\ m \in Nat \ {0}
            /\ \A i \in 1..m : u[i] = used[n + i]
        BY <2>3, <3>2, <3>3, SeqSuffix
      <4> HIDE DEF u, m
      <4>2. DOMAIN u = 1..m
        BY <4>1, SeqElement
      <4> QED  BY <4>1, <4>2
    <3>5. used' = [u EXCEPT ![m].stamp = sync + 1]
      BY <3>1, <3>4 DEF Stamped
    <3>6. n \in Nat /\ n <= N /\ phase # "destroyed" /\ \A i \in 1..m : n + i \in 1..N
      BY <2>1, <3>2, <3>3
    <3> HIDE DEF u, N, m
    <3>7. DOMAIN used' = 1..m /\ Len(used') = m
      <4>1. used' \in Seq(Block') /\ DOMAIN used' = 1..m
        BY <3>5, <3>4, AddSyncPointInv, <1>7 DEF IInv, TypeOK
      <4> QED  BY <3>4, <4>1
    <3>8. \A i \in 1..m : used'[i].id = used[n + i].id /\ used'[i].cap = used[n + i].cap /\ used'[i].size = used[n + i].size
      <4> SUFFICES ASSUME NEW i \in 1..m
                   PROVE  used'[i].id = used[n + i].id /\ used'[i].cap = used[n + i].cap /\ used'[i].size = used[n + i].size
        OBVIOUS
      <4>1. u[i] = used[n + i] /\ u[i] \in Block
        BY <3>3, <3>4, <3>6
      <4>2. CASE i = m
        <5>1. used'[i] = [u[i] EXCEPT !.stamp = sync + 1]
          BY <3>4, <3>5, <4>2
        <5> QED  BY <4>1, <5>1 DEF Block
      <4>3. CASE i # m
        BY <3>4, <3>5, <4>1, <4>3
      <4> QED  BY <4>2, <4>3
    <3> QED  BY <2>1, <3>1, <3>2, <3>6, <3>7, <3>8, PurgePlaces DEF N, m
  <2> QED  BY <2>2, <2>3
<1> QED  BY <1>1, <1>2, <1>3, <1>4, <1>5, <1>6, <1>7 DEF Next

LEMMA InitPlaces == Init => Places
<1> SUFFICES ASSUME Init PROVE Places
  OBVIOUS
<1>1. used = <<>> /\ DOMAIN used = {} /\ free = {} /\ held = {} /\ Len(used) = 0 /\ Len(lastUse) = 0
  BY DEF Init
<1>2. OnePlace /\ HeldStaysAlive
  BY <1>1, FS_EmptySet DEF OnePlace, HeldStaysAlive
<1> QED  BY <1>1, <1>2, FS_EmptySet DEF Places

LEMMA PlacesHold == Spec => []Places
<1>1. Init => Places
  BY InitPlaces
<1>2. IInv /\ Places /\ [Next]_vars => Places'
  BY NextPlaces
<1> QED  BY <1>1, <1>2, Invariance, PTL DEF Spec

(* Every block created is in one place, m_used or m_free, and none is lost *)
(* until the destructor is done.                                           *)
THEOREM NoBlockLost == Spec => []OnePlace
<1>1. Places => OnePlace
  BY DEF Places
<1> QED  BY <1>1, PlacesHold, PTL

(* What somebody refers to is not recycled, and no two allocations share   *)
(* memory, whatever their sizes and alignments.                            *)
THEOREM HeldAlive == Spec => []HeldStaysAlive
<1>1. Places => HeldStaysAlive
  BY DEF Places
<1> QED  BY <1>1, PlacesHold, PTL

=============================================================================
