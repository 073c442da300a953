-------------------------- MODULE CmdAllocPoolProofs --------------------------
(***************************************************************************)
(* Proof that the pools never hand out an allocator of a frame or a flush  *)
(* the GPU has still to execute, that an allocator has one holder, and     *)
(* that no frame is recorded over a back buffer in use, for any number of  *)
(* lists, swap chain buffers and sync points.                              *)
(***************************************************************************)
EXTENDS CmdAllocPool, FiniteSetTheorems, TLAPS

-----------------------------------------------------------------------------
(* Sequences of items *)

LEMMA QueueFacts ==
  ASSUME NEW S, NEW q \in Seq(S)
  PROVE  /\ Len(q) \in Nat /\ DOMAIN q = 1..Len(q)
         /\ \A i \in 1..Len(q) : q[i] \in S
OBVIOUS

LEMMA QueueAppend ==
  ASSUME NEW S, NEW q \in Seq(S), NEW e \in S
  PROVE  /\ Append(q, e) \in Seq(S) /\ Len(Append(q, e)) = Len(q) + 1
         /\ \A i \in 1..Len(q) : Append(q, e)[i] = q[i]
         /\ Append(q, e)[Len(q) + 1] = e
<1>1. Append(q, e) \in Seq(S) /\ Len(Append(q, e)) = Len(q) + 1
  OBVIOUS
<1>2. (\A i \in 1..Len(q) : Append(q, e)[i] = q[i]) /\ Append(q, e)[Len(q) + 1] = e
  OBVIOUS
<1> QED  BY <1>1, <1>2

LEMMA QueueTail ==
  ASSUME NEW S, NEW q \in Seq(S), q # <<>>
  PROVE  /\ Len(q) \in Nat \ {0} /\ Head(q) = q[1]
         /\ Tail(q) \in Seq(S) /\ Len(Tail(q)) = Len(q) - 1
         /\ \A i \in 1..(Len(q) - 1) : Tail(q)[i] = q[i + 1]
<1>1. Len(q) \in Nat \ {0} /\ Head(q) = q[1]
  OBVIOUS
<1>2. Tail(q) \in Seq(S) /\ Len(Tail(q)) = Len(q) - 1
  BY <1>1
<1>3. \A i \in 1..(Len(q) - 1) : Tail(q)[i] = q[i + 1]
  BY <1>1
<1> QED  BY <1>1, <1>2, <1>3

LEMMA QueueConcat ==
  ASSUME NEW S, NEW q \in Seq(S), NEW r \in Seq(S)
  PROVE  /\ q \o r \in Seq(S) /\ Len(q \o r) = Len(q) + Len(r)
         /\ \A i \in 1..Len(q) : (q \o r)[i] = q[i]
         /\ \A i \in (Len(q) + 1)..(Len(q) + Len(r)) : (q \o r)[i] = r[i - Len(q)]
<1>1. q \o r \in Seq(S) /\ Len(q \o r) = Len(q) + Len(r)
  OBVIOUS
<1>2. \A i \in 1..Len(q) : (q \o r)[i] = q[i]
  OBVIOUS
<1>3. \A i \in (Len(q) + 1)..(Len(q) + Len(r)) : (q \o r)[i] = r[i - Len(q)]
  OBVIOUS
<1> QED  BY <1>1, <1>2, <1>3

(* A list item and a signal, field by field.                               *)
LEMMA ItemFields ==
  ASSUME NEW e \in Item
  PROVE  /\ e.kind = "list" \/ e.kind = "signal"
         /\ e.kind = "list" => e.list \in Lists /\ e.id \in Nat
         /\ e.kind = "signal" => e.fence \in Fences /\ e.value \in Nat
BY DEF Item

LEMMA ItemOf ==
  /\ \A l \in Lists, n \in Nat : [kind |-> "list", list |-> l, id |-> n] \in Item
  /\ \A f \in Fences, n \in Nat : [kind |-> "signal", fence |-> f, value |-> n] \in Item
BY DEF Item

-----------------------------------------------------------------------------
(* Facts *)

LEMMA PoolFacts ==
  /\ "window" \in Pools /\ "factory" \in Pools /\ Pools \subseteq Fences /\ "ray" \in Fences /\ "ray" \notin Pools
  /\ \A l \in Lists : PoolOf(l) \in Pools
  /\ \A l \in FrameLists : l \in Lists /\ PoolOf(l) = "window" /\ l \notin FlushLists /\ l \notin RayLists
  /\ \A l \in FlushLists : l \in Lists /\ PoolOf(l) = "factory" /\ l \notin FrameLists /\ l \notin RayLists
  /\ \A l \in RayLists : l \in Lists /\ PoolOf(l) = "window" /\ l \notin FrameLists /\ l \notin FlushLists
BY ListsAssumption DEF Pools, Fences, PoolOf, Lists

LEMMA GpuFacts ==
  ASSUME TypeOK
  PROVE  /\ gpu \in Seq(Item) /\ Len(gpu) \in Nat /\ DOMAIN gpu = 1..Len(gpu)
         /\ \A i \in 1..Len(gpu) : gpu[i] \in Item
         /\ \A i \in 1..Len(gpu) : gpu[i].kind = "list" \/ gpu[i].kind = "signal"
         /\ \A i \in 1..Len(gpu) : gpu[i].kind = "list" =>
              /\ gpu[i].list \in Lists /\ gpu[i].id \in Nat
              /\ gpu[i].id \in 1..created[PoolOf(gpu[i].list)]
         /\ \A i \in 1..Len(gpu) : gpu[i].kind = "signal" =>
              /\ gpu[i].fence \in Fences /\ gpu[i].value \in Nat
              /\ gpu[i].value \in 1..sync[gpu[i].fence]
<1>1. gpu \in Seq(Item)
  BY DEF TypeOK
<1>2. Len(gpu) \in Nat /\ DOMAIN gpu = 1..Len(gpu) /\ \A i \in 1..Len(gpu) : gpu[i] \in Item
  BY <1>1, QueueFacts
<1> QED  BY <1>1, <1>2, ItemFields DEF TypeOK

LEMMA FenceFacts ==
  ASSUME TypeOK
  PROVE  \A f \in Fences : /\ sync[f] \in Nat /\ reached[f] \in Nat /\ MaxSync[f] \in Nat
                           /\ reached[f] <= sync[f] /\ sync[f] <= MaxSync[f]
BY MaxSyncAssumption DEF TypeOK

(* What the pools hold and the lists have.                                 *)
LEMMA HeldFacts ==
  ASSUME TypeOK
  PROVE  /\ \A p \in Pools : created[p] \in Nat
         /\ \A p \in Pools : \A a \in pool[p] : a.id \in 1..created[p] /\ a.id \in Nat /\ a.stamp \in Nat
         /\ \A l \in Lists : alloc[l].id \in 0..created[PoolOf(l)] /\ alloc[l].id \in Nat /\ alloc[l].stamp \in Nat
         /\ \A l \in Lists : alloc[l] # None => alloc[l] \in Allocator(PoolOf(l)) /\ alloc[l].id \in 1..created[PoolOf(l)]
         /\ \A l \in Lists : alloc[l].id # 0 => alloc[l] # None
         /\ \A l \in Lists : alloc[l] = [id |-> alloc[l].id, stamp |-> alloc[l].stamp]
<1>1. \A p \in Pools : created[p] \in Nat
  BY DEF TypeOK
<1>2. \A p \in Pools : \A a \in pool[p] : a.id \in 1..created[p] /\ a.id \in Nat /\ a.stamp \in Nat
  BY <1>1 DEF TypeOK, Allocator
<1>3. \A l \in Lists : alloc[l] \in [id : Nat, stamp : Nat]
  BY DEF TypeOK
<1>4. \A l \in Lists : alloc[l] # None => alloc[l] \in Allocator(PoolOf(l))
  BY DEF TypeOK
<1>5. \A l \in Lists : alloc[l] # None => alloc[l].id \in 1..created[PoolOf(l)]
  BY <1>1, <1>4, PoolFacts DEF Allocator
<1>6. \A l \in Lists : alloc[l].id \in 0..created[PoolOf(l)]
  BY <1>1, <1>5, PoolFacts DEF None
<1> QED  BY <1>1, <1>2, <1>3, <1>4, <1>5, <1>6 DEF None

(* A signal of the fence is not behind a point that is reached.            *)
LEMMA ReachedMeansDone ==
  ASSUME TypeOK, SignalsAscend, NEW i, NEW f \in Fences, NEW point \in Nat, point <= reached[f]
  PROVE  ~SignalBehind(gpu, i, f, point)
<1> SUFFICES ASSUME NEW j \in DOMAIN gpu, gpu[j].kind = "signal", gpu[j].fence = f, gpu[j].value <= point
             PROVE  FALSE
  BY DEF SignalBehind
<1>1. reached[f] < gpu[j].value
  BY DEF SignalsAscend
<1>2. gpu[j].value \in Nat /\ reached[f] \in Nat
  BY GpuFacts, FenceFacts
<1> QED  BY <1>1, <1>2

(* What a step may do to the queue: the GPU takes the first item, ...      *)
LEMMA BehindAfterStep ==
  ASSUME TypeOK, GpuStep, NEW i \in Nat, NEW f, NEW point, SignalBehind(gpu, i + 1, f, point)
  PROVE  SignalBehind(gpu', i, f, point)
<1>1. gpu' = Tail(gpu) /\ gpu # <<>>
  BY DEF GpuStep
<1>2. PICK j \in DOMAIN gpu : i + 1 < j /\ gpu[j].kind = "signal" /\ gpu[j].fence = f /\ gpu[j].value <= point
  BY DEF SignalBehind
<1>3. Len(gpu) \in Nat \ {0} /\ DOMAIN gpu = 1..Len(gpu)
  BY <1>1, GpuFacts, QueueTail
<1>4. DOMAIN gpu' = 1..(Len(gpu) - 1) /\ \A k \in 1..(Len(gpu) - 1) : gpu'[k] = gpu[k + 1]
  BY <1>1, GpuFacts, QueueTail, QueueFacts
<1>5. j - 1 \in DOMAIN gpu' /\ i < j - 1 /\ gpu'[j - 1] = gpu[j]
  <2>1. j - 1 \in 1..(Len(gpu) - 1) /\ i < j - 1 /\ (j - 1) + 1 = j
    BY <1>2, <1>3
  <2>2. gpu'[j - 1] = gpu[(j - 1) + 1]
    BY <2>1, <1>4
  <2> QED  BY <2>1, <2>2, <1>4
<1> QED  BY <1>2, <1>5 DEF SignalBehind

(* ... or items are added at the end.                                      *)
Extended ==
  /\ gpu' \in Seq(Item) /\ Len(gpu) \in Nat /\ Len(gpu') \in Nat /\ Len(gpu) <= Len(gpu')
  /\ \A i \in 1..Len(gpu) : gpu'[i] = gpu[i]

LEMMA BehindStays ==
  ASSUME TypeOK, Extended, NEW i, NEW f, NEW point, SignalBehind(gpu, i, f, point)
  PROVE  SignalBehind(gpu', i, f, point)
<1>1. PICK j \in DOMAIN gpu : i < j /\ gpu[j].kind = "signal" /\ gpu[j].fence = f /\ gpu[j].value <= point
  BY DEF SignalBehind
<1>2. DOMAIN gpu = 1..Len(gpu) /\ DOMAIN gpu' = 1..Len(gpu')
  BY QueueFacts, GpuFacts DEF Extended
<1>3. j \in DOMAIN gpu' /\ gpu'[j] = gpu[j]
  BY <1>1, <1>2 DEF Extended
<1> QED  BY <1>1, <1>3 DEF SignalBehind

-----------------------------------------------------------------------------
LEMMA InitInv == Init => IInv
<1> SUFFICES ASSUME Init PROVE IInv
  OBVIOUS
<1>1. TypeOK
  <2>1. gpu \in Seq(Item) /\ DOMAIN gpu = {}
    BY DEF Init
  <2>2. /\ sync \in [Fences -> Nat] /\ reached \in [Fences -> Nat]
        /\ \A f \in Fences : sync[f] \in 0..MaxSync[f] /\ reached[f] \in 0..sync[f]
    BY MaxSyncAssumption DEF Init
  <2>3. /\ created \in [Pools -> Nat] /\ pool \in [Pools -> SUBSET [id : Nat, stamp : Nat]]
        /\ \A p \in Pools : pool[p] \subseteq Allocator(p)
    BY DEF Init
  <2>4. /\ alloc \in [Lists -> [id : Nat, stamp : Nat]]
        /\ \A l \in Lists : alloc[l] \in Allocator(PoolOf(l)) \cup {None}
    BY DEF Init, None
  <2>5. bbMain \in 0..sync["window"] /\ bbPost \in [1..BBCount -> 0..sync["window"]]
    BY DEF Init, Fences, Pools
  <2>6. state \in [Lists -> {"closed", "open", "executed", "signalled"}] /\ cpu \in {"idle", "frame", "presented", "flush"}
    BY DEF Init
  <2> QED  BY <2>1, <2>2, <2>3, <2>4, <2>5, <2>6 DEF TypeOK
<1>2. DOMAIN gpu = {}
  BY DEF Init
<1>3. SignalsAscend /\ StampsCover /\ BackBufferCovers
  BY <1>2 DEF SignalsAscend, StampsCover, BackBufferCovers
<1>4. FrameStates
  BY PoolFacts DEF Init, FrameStates
<1>5. OneHolder
  <2>1. \A p \in Pools : pool[p] = {} /\ created[p] = 0
    BY DEF Init
  <2>2. \A l \in Lists : alloc[l] = None
    BY DEF Init
  <2> QED  BY <2>1, <2>2 DEF OneHolder, Users
<1> QED  BY <1>1, <1>3, <1>4, <1>5 DEF IInv

-----------------------------------------------------------------------------
(* The GPU takes an item.                                                  *)
LEMMA GpuStepInv == IInv /\ GpuStep => IInv'
<1> SUFFICES ASSUME IInv, GpuStep PROVE IInv'
  OBVIOUS
<1>0. TypeOK /\ SignalsAscend /\ FrameStates /\ OneHolder /\ StampsCover /\ BackBufferCovers
  BY DEF IInv
<1>1. /\ gpu # <<>> /\ gpu' = Tail(gpu)
      /\ \/ Head(gpu).kind = "signal" /\ reached' = [reached EXCEPT ![Head(gpu).fence] = Head(gpu).value]
         \/ Head(gpu).kind # "signal" /\ reached' = reached
  BY DEF GpuStep
<1>2. /\ sync' = sync /\ pool' = pool /\ created' = created /\ alloc' = alloc /\ state' = state /\ cpu' = cpu
      /\ bbMain' = bbMain /\ bbPost' = bbPost
  BY DEF GpuStep, bbVars
<1>3. Len(gpu) \in Nat \ {0} /\ DOMAIN gpu = 1..Len(gpu) /\ Head(gpu) = gpu[1] /\ 1 \in DOMAIN gpu
  BY <1>0, <1>1, GpuFacts, QueueTail
<1>4. /\ gpu' \in Seq(Item) /\ DOMAIN gpu' = 1..(Len(gpu) - 1)
      /\ \A i \in DOMAIN gpu' : i \in Nat /\ i + 1 \in DOMAIN gpu /\ 1 < i + 1 /\ gpu'[i] = gpu[i + 1]
  <2>1. gpu' \in Seq(Item) /\ Len(gpu') = Len(gpu) - 1 /\ \A i \in 1..(Len(gpu) - 1) : gpu'[i] = gpu[i + 1]
    BY <1>0, <1>1, GpuFacts, QueueTail
  <2>2. DOMAIN gpu' = 1..(Len(gpu) - 1)
    BY <2>1, QueueFacts
  <2> QED  BY <2>1, <2>2, <1>3
<1>5. \A f \in Fences : reached'[f] = reached[f] \/ (gpu[1].kind = "signal" /\ gpu[1].fence = f /\ reached'[f] = gpu[1].value)
  BY <1>0, <1>1, <1>3 DEF TypeOK
<1>6. reached' \in [Fences -> Nat] /\ \A f \in Fences : reached'[f] \in 0..sync[f]
  <2>1. gpu[1].kind = "signal" => gpu[1].fence \in Fences /\ gpu[1].value \in 0..sync[gpu[1].fence] /\ gpu[1].value \in Nat
    BY <1>0, <1>3, GpuFacts, FenceFacts
  <2>2. \A f \in Fences : reached'[f] \in 0..sync[f]
    BY <1>0, <1>5, <2>1 DEF TypeOK
  <2>3. reached' \in [Fences -> Nat]
    BY <1>0, <1>1, <1>3, <2>1 DEF TypeOK
  <2> QED  BY <2>2, <2>3
<1>7. TypeOK'
  <2>1. \A i \in DOMAIN gpu' :
          /\ gpu'[i].kind = "list" => gpu'[i].id \in 1..created[PoolOf(gpu'[i].list)]
          /\ gpu'[i].kind = "signal" => gpu'[i].value \in 1..sync[gpu'[i].fence]
    BY <1>0, <1>4 DEF TypeOK
  <2> QED  BY <1>0, <1>2, <1>4, <1>6, <2>1 DEF TypeOK, Allocator
<1>8. SignalsAscend'
  <2>1. \A i, j \in DOMAIN gpu' :
          /\ i < j /\ gpu'[i].kind = "signal" /\ gpu'[j].kind = "signal" /\ gpu'[i].fence = gpu'[j].fence
          => gpu'[i].value < gpu'[j].value
    <3> SUFFICES ASSUME NEW i \in DOMAIN gpu', NEW j \in DOMAIN gpu', i < j,
                        gpu'[i].kind = "signal", gpu'[j].kind = "signal", gpu'[i].fence = gpu'[j].fence
                 PROVE  gpu'[i].value < gpu'[j].value
      OBVIOUS
    <3>1. i + 1 \in DOMAIN gpu /\ j + 1 \in DOMAIN gpu /\ i + 1 < j + 1 /\ gpu'[i] = gpu[i + 1] /\ gpu'[j] = gpu[j + 1]
      BY <1>4
    <3> QED  BY <1>0, <3>1 DEF SignalsAscend
  <2>2. \A i \in DOMAIN gpu' : gpu'[i].kind = "signal" => reached'[gpu'[i].fence] < gpu'[i].value
    <3> SUFFICES ASSUME NEW i \in DOMAIN gpu', gpu'[i].kind = "signal"
                 PROVE  reached'[gpu'[i].fence] < gpu'[i].value
      OBVIOUS
    <3>1. i + 1 \in DOMAIN gpu /\ 1 < i + 1 /\ gpu'[i] = gpu[i + 1]
      BY <1>4
    <3>2. gpu'[i].fence \in Fences /\ reached[gpu'[i].fence] < gpu'[i].value
      BY <1>0, <1>3, <3>1, GpuFacts DEF SignalsAscend
    <3>3. gpu[1].kind = "signal" /\ gpu[1].fence = gpu'[i].fence => gpu[1].value < gpu'[i].value
      BY <1>0, <1>3, <3>1 DEF SignalsAscend
    <3> QED  BY <1>5, <3>2, <3>3
  <2> QED  BY <2>1, <2>2 DEF SignalsAscend
<1>9. FrameStates' /\ OneHolder'
  <2>1. FrameStates'
    BY <1>0, <1>2 DEF FrameStates
  <2>2. OneHolder'
    BY <1>0, <1>2 DEF OneHolder
  <2> QED  BY <2>1, <2>2
<1>10. StampsCover'
  <2> SUFFICES ASSUME NEW i \in DOMAIN gpu', gpu'[i].kind = "list", gpu'[i].list \in FrameLists \cup FlushLists,
                      NEW p, p = PoolOf(gpu'[i].list)
               PROVE  /\ \A a \in pool[p] : a.id = gpu'[i].id => SignalBehind(gpu', i, p, a.stamp)
                      /\ \A l \in Lists :
                           /\ PoolOf(l) = p /\ alloc[l].id = gpu'[i].id
                           => /\ state[l] # "open" /\ l \notin RayLists
                              /\ SignalBehind(gpu', i, p, alloc[l].stamp) \/ Unsignalled(l)
    BY <1>2 DEF StampsCover, Unsignalled
  <2>1. i \in Nat /\ i + 1 \in DOMAIN gpu /\ gpu'[i] = gpu[i + 1]
    BY <1>4
  <2>2. \A a \in pool[p] : a.id = gpu'[i].id => SignalBehind(gpu, i + 1, p, a.stamp)
    BY <1>0, <2>1 DEF StampsCover
  <2>3. \A l \in Lists :
          /\ PoolOf(l) = p /\ alloc[l].id = gpu'[i].id
          => /\ state[l] # "open" /\ l \notin RayLists
             /\ SignalBehind(gpu, i + 1, p, alloc[l].stamp) \/ Unsignalled(l)
    BY <1>0, <2>1 DEF StampsCover
  <2>4. \A point : SignalBehind(gpu, i + 1, p, point) => SignalBehind(gpu', i, p, point)
    BY <1>0, <2>1, BehindAfterStep
  <2> QED  BY <2>2, <2>3, <2>4
<1>11. BackBufferCovers'
  <2> SUFFICES ASSUME NEW i \in DOMAIN gpu', gpu'[i].kind = "list", gpu'[i].list \in FrameLists, cpu # "presented"
               PROVE  cpu # "frame" /\ SignalBehind(gpu', i, "window", bbMain)
    BY <1>2 DEF BackBufferCovers
  <2>1. i \in Nat /\ i + 1 \in DOMAIN gpu /\ gpu'[i] = gpu[i + 1]
    BY <1>4
  <2>2. cpu # "frame" /\ SignalBehind(gpu, i + 1, "window", bbMain)
    BY <1>0, <2>1 DEF BackBufferCovers
  <2> QED  BY <1>0, <2>1, <2>2, BehindAfterStep
<1> QED  BY <1>7, <1>8, <1>9, <1>10, <1>11 DEF IInv

-----------------------------------------------------------------------------
(* CmdList::Reset(pool.Get()), by whichever client: what is taken is held  *)
(* by nobody and in no frame or flush of the queue.                        *)
LEMMA ResetTakes ==
  ASSUME IInv, NEW l \in Lists, ResetList(l)
  PROVE  \E id \in Nat, rest \in SUBSET pool[PoolOf(l)] :
           /\ alloc' = [alloc EXCEPT ![l] = [id |-> id, stamp |-> sync[PoolOf(l)] + 1]]
           /\ pool' = [pool EXCEPT ![PoolOf(l)] = rest \cup Return(l)]
           /\ state' = [state EXCEPT ![l] = "open"]
           /\ created' \in [Pools -> Nat]
           /\ \A p \in Pools : created'[p] >= created[p] /\ (p # PoolOf(l) => created'[p] = created[p])
           /\ id \in 1..created'[PoolOf(l)]
           /\ \A n \in 1..created'[PoolOf(l)] : n # id => n \in 1..created[PoolOf(l)]
           /\ \A a \in rest : a.id # id
           /\ \A a \in pool[PoolOf(l)] : a.id # id => a \in rest
           /\ \A k \in Lists : PoolOf(k) = PoolOf(l) => alloc[k].id # id
           /\ \A i \in DOMAIN gpu :
                gpu[i].kind = "list" /\ gpu[i].list \in FrameLists \cup FlushLists /\ PoolOf(gpu[i].list) = PoolOf(l)
                => gpu[i].id # id
<1>0. TypeOK /\ SignalsAscend /\ OneHolder /\ StampsCover
  BY DEF IInv
<1> DEFINE P == PoolOf(l)
<1>1. P \in Pools /\ P \in Fences /\ created[P] \in Nat
  BY <1>0, PoolFacts, HeldFacts
<1>2. CASE Create(l)
  <2>1. /\ created' = [created EXCEPT ![P] = @ + 1]
        /\ alloc' = [alloc EXCEPT ![l] = [id |-> created[P] + 1, stamp |-> sync[P] + 1]]
        /\ pool' = [pool EXCEPT ![P] = pool[P] \cup Return(l)]
        /\ state' = [state EXCEPT ![l] = "open"]
    BY <1>2 DEF Create, Take
  <2>2. /\ created' \in [Pools -> Nat] /\ created'[P] = created[P] + 1
        /\ \A p \in Pools : created'[p] >= created[p] /\ (p # P => created'[p] = created[p])
    BY <1>0, <1>1, <2>1, HeldFacts DEF TypeOK
  <2>3. \A a \in pool[P] : a.id # created[P] + 1
    BY <1>0, <1>1, HeldFacts
  <2>4. \A k \in Lists : PoolOf(k) = P => alloc[k].id # created[P] + 1
    BY <1>0, <1>1, HeldFacts
  <2>5. \A i \in DOMAIN gpu : gpu[i].kind = "list" /\ PoolOf(gpu[i].list) = P => gpu[i].id # created[P] + 1
    BY <1>0, <1>1, GpuFacts
  <2>6. created[P] + 1 \in Nat /\ created[P] + 1 \in 1..created'[P]
        /\ \A n \in 1..created'[P] : n # created[P] + 1 => n \in 1..created[P]
    BY <1>1, <2>2
  <2> HIDE DEF P
  <2>7. \E rest \in SUBSET pool[P] : rest = pool[P]
    OBVIOUS
  <2> QED  BY <2>1, <2>2, <2>3, <2>4, <2>5, <2>6, <2>7 DEF P
<1>3. CASE \E a \in Available(P) : Take(l, a.id, pool[P] \ {a}) /\ UNCHANGED created
  <2>1. PICK a \in Available(P) : Take(l, a.id, pool[P] \ {a}) /\ UNCHANGED created
    BY <1>3
  <2>2. /\ created' = created
        /\ alloc' = [alloc EXCEPT ![l] = [id |-> a.id, stamp |-> sync[P] + 1]]
        /\ pool' = [pool EXCEPT ![P] = (pool[P] \ {a}) \cup Return(l)]
        /\ state' = [state EXCEPT ![l] = "open"]
    BY <2>1 DEF Take
  <2>3. a \in pool[P] /\ a.stamp <= reached[P] /\ a.id \in 1..created[P] /\ a.id \in Nat /\ a.stamp \in Nat
    BY <1>0, <1>1, HeldFacts DEF Available
  <2>4. created \in [Pools -> Nat]
    BY <1>0 DEF TypeOK
  <2>5. \A b \in pool[P] : b.id = a.id => b = a
    BY <1>0, <1>1, <2>3 DEF OneHolder
  <2>6. \A k \in Lists : PoolOf(k) = P => alloc[k].id # a.id
    BY <1>0, <1>1, <2>3 DEF OneHolder, Users
  <2>7. ASSUME NEW i \in DOMAIN gpu, gpu[i].kind = "list", gpu[i].list \in FrameLists \cup FlushLists,
               PoolOf(gpu[i].list) = P, gpu[i].id = a.id
        PROVE  FALSE
    <3>1. SignalBehind(gpu, i, P, a.stamp)
      BY <1>0, <2>3, <2>7 DEF StampsCover
    <3>2. ~SignalBehind(gpu, i, P, a.stamp)
      BY <1>0, <1>1, <2>3, ReachedMeansDone
    <3> QED  BY <3>1, <3>2
  <2>8. \A n \in 1..created[P] : n # a.id => n \in 1..created[P]
    OBVIOUS
  <2>9. \A p \in Pools : created[p] >= created[p]
    BY <1>0, HeldFacts
  <2> HIDE DEF P
  <2>10. \E rest \in SUBSET pool[P] : rest = pool[P] \ {a}
    OBVIOUS
  <2> QED  BY <2>2, <2>3, <2>4, <2>5, <2>6, <2>7, <2>8, <2>9, <2>10 DEF P
<1> QED  BY <1>2, <1>3 DEF ResetList

LEMMA ResetListInv ==
  ASSUME IInv, NEW l \in Lists, ResetList(l), UNCHANGED <<gpu, reached, sync, cpu, bbVars>>,
         state[l] \in {"closed", "signalled"}, l \in FrameLists => cpu = "frame"
  PROVE  IInv'
<1>0. TypeOK /\ SignalsAscend /\ FrameStates /\ OneHolder /\ StampsCover /\ BackBufferCovers
  BY DEF IInv
<1> DEFINE P == PoolOf(l)
<1>1. PICK id \in Nat, rest \in SUBSET pool[P] :
           /\ alloc' = [alloc EXCEPT ![l] = [id |-> id, stamp |-> sync[P] + 1]]
           /\ pool' = [pool EXCEPT ![P] = rest \cup Return(l)]
           /\ state' = [state EXCEPT ![l] = "open"]
           /\ created' \in [Pools -> Nat]
           /\ \A p \in Pools : created'[p] >= created[p] /\ (p # P => created'[p] = created[p])
           /\ id \in 1..created'[P]
           /\ \A n \in 1..created'[P] : n # id => n \in 1..created[P]
           /\ \A a \in rest : a.id # id
           /\ \A a \in pool[P] : a.id # id => a \in rest
           /\ \A k \in Lists : PoolOf(k) = P => alloc[k].id # id
           /\ \A i \in DOMAIN gpu :
                gpu[i].kind = "list" /\ gpu[i].list \in FrameLists \cup FlushLists /\ PoolOf(gpu[i].list) = P
                => gpu[i].id # id
  BY ResetTakes
<1>2. gpu' = gpu /\ reached' = reached /\ sync' = sync /\ cpu' = cpu /\ bbMain' = bbMain /\ bbPost' = bbPost
  BY DEF bbVars
<1>3. P \in Pools /\ P \in Fences /\ created[P] \in Nat /\ created'[P] \in Nat /\ sync[P] \in Nat
  BY <1>0, <1>1, PoolFacts, HeldFacts, FenceFacts
<1>4. /\ alloc'[l].id = id /\ alloc'[l].stamp = sync[P] + 1 /\ state'[l] = "open"
      /\ \A k \in Lists : k # l => alloc'[k] = alloc[k] /\ state'[k] = state[k]
  BY <1>0, <1>1 DEF TypeOK
<1>5. /\ pool'[P] = rest \cup Return(l)
      /\ \A p \in Pools : p # P => pool'[p] = pool[p]
  BY <1>0, <1>1, <1>3 DEF TypeOK
<1>6. \A a \in Return(l) : a = alloc[l] /\ alloc[l] # None
  BY DEF Return
<1>7. TypeOK'
  <2>1. Return(l) \subseteq Allocator(P)
    BY <1>0, <1>6, HeldFacts
  <2>2. \A p \in Pools : pool'[p] \subseteq [id : 1..created'[p], stamp : Nat]
    <3> SUFFICES ASSUME NEW p \in Pools PROVE pool'[p] \subseteq [id : 1..created'[p], stamp : Nat]
      OBVIOUS
    <3>1. created[p] \in Nat /\ created'[p] \in Nat /\ created[p] <= created'[p]
      BY <1>0, <1>1, HeldFacts
    <3>2. [id : 1..created[p], stamp : Nat] \subseteq [id : 1..created'[p], stamp : Nat]
      BY <3>1
    <3>3. pool[p] \subseteq [id : 1..created[p], stamp : Nat]
      BY <1>0 DEF TypeOK, Allocator
    <3> QED  BY <1>5, <2>1, <3>2, <3>3 DEF Allocator
  <2>3. pool' \in [Pools -> SUBSET [id : Nat, stamp : Nat]]
    <3>1. Return(l) \subseteq [id : Nat, stamp : Nat]
      BY <1>0, <1>6 DEF TypeOK
    <3> QED  BY <1>0, <1>1, <1>3, <3>1 DEF TypeOK
  <2>4. alloc' \in [Lists -> [id : Nat, stamp : Nat]]
    BY <1>0, <1>1, <1>3 DEF TypeOK
  <2>5. \A k \in Lists : alloc'[k] \in [id : 1..created'[PoolOf(k)], stamp : Nat] \cup {None}
    <3> SUFFICES ASSUME NEW k \in Lists PROVE alloc'[k] \in [id : 1..created'[PoolOf(k)], stamp : Nat] \cup {None}
      OBVIOUS
    <3>1. CASE k = l
      <4>1. alloc'[l] = [id |-> id, stamp |-> sync[P] + 1]
        BY <1>0, <1>1 DEF TypeOK
      <4> QED  BY <1>1, <1>3, <3>1, <4>1
    <3>2. CASE k # l
      <4>1. PoolOf(k) \in Pools
        BY PoolFacts
      <4>2. created[PoolOf(k)] \in Nat /\ created'[PoolOf(k)] \in Nat /\ created[PoolOf(k)] <= created'[PoolOf(k)]
        BY <1>0, <1>1, <4>1, HeldFacts
      <4>3. [id : 1..created[PoolOf(k)], stamp : Nat] \subseteq [id : 1..created'[PoolOf(k)], stamp : Nat]
        BY <4>2
      <4>4. alloc[k] \in [id : 1..created[PoolOf(k)], stamp : Nat] \cup {None}
        BY <1>0 DEF TypeOK, Allocator
      <4> QED  BY <1>4, <3>2, <4>3, <4>4
    <3> QED  BY <3>1, <3>2
  <2>6. \A i \in DOMAIN gpu :
          /\ gpu[i].kind = "list" => gpu[i].id \in 1..created'[PoolOf(gpu[i].list)]
          /\ gpu[i].kind = "signal" => gpu[i].value \in 1..sync[gpu[i].fence]
    <3> SUFFICES ASSUME NEW i \in DOMAIN gpu, gpu[i].kind = "list"
                 PROVE  gpu[i].id \in 1..created'[PoolOf(gpu[i].list)]
      BY <1>0 DEF TypeOK
    <3>1. PoolOf(gpu[i].list) \in Pools /\ gpu[i].id \in 1..created[PoolOf(gpu[i].list)] /\ gpu[i].id \in Nat
      BY <1>0, GpuFacts, PoolFacts
    <3> QED  BY <1>0, <1>1, <3>1, HeldFacts
  <2>7. state' \in [Lists -> {"closed", "open", "executed", "signalled"}]
    BY <1>0, <1>1 DEF TypeOK
  <2> QED  BY <1>0, <1>1, <1>2, <2>2, <2>3, <2>4, <2>5, <2>6, <2>7 DEF TypeOK, Allocator
<1>8. SignalsAscend' /\ BackBufferCovers'
  BY <1>0, <1>2 DEF SignalsAscend, BackBufferCovers
<1>9. FrameStates'
  <2>1. \A k \in Lists : state'[k] # "closed" => alloc'[k] # None
    BY <1>0, <1>1, <1>4 DEF FrameStates, None
  <2>2. \A k \in FrameLists :
       /\ cpu = "frame" => state'[k] \in {"closed", "open"} /\ (state'[k] = "open" => alloc'[k].stamp = sync["window"] + 1)
       /\ cpu = "presented" => state'[k] = "executed" /\ alloc'[k].stamp = sync["window"] + 1
       /\ cpu \in {"idle", "flush"} => state'[k] \in {"closed", "executed"}
    <3> SUFFICES ASSUME NEW k \in FrameLists
                 PROVE  /\ cpu = "frame" => state'[k] \in {"closed", "open"} /\ (state'[k] = "open" => alloc'[k].stamp = sync["window"] + 1)
                        /\ cpu = "presented" => state'[k] = "executed" /\ alloc'[k].stamp = sync["window"] + 1
                        /\ cpu \in {"idle", "flush"} => state'[k] \in {"closed", "executed"}
      OBVIOUS
    <3>1. CASE k = l
      <4>1. cpu = "frame" /\ P = "window"
        BY <3>1, PoolFacts
      <4> QED  BY <1>4, <3>1, <4>1
    <3>2. CASE k # l
      <4>1. k \in Lists
        BY PoolFacts
      <4> QED  BY <1>0, <1>4, <3>2, <4>1 DEF FrameStates
    <3> QED  BY <3>1, <3>2
  <2> QED  BY <1>2, <2>1, <2>2 DEF FrameStates
<1>10. OneHolder'
  <2> SUFFICES ASSUME NEW p \in Pools
               PROVE  /\ \A a, b \in pool'[p] : a.id = b.id => a = b
                      /\ \A k \in Users(p) : \A a \in pool'[p] : alloc'[k].id # a.id
                      /\ \A k, m \in Users(p) : k # m /\ alloc'[k] # None => alloc'[k].id # alloc'[m].id
                      /\ \A i \in 1..created'[p] : (\E a \in pool'[p] : a.id = i) \/ (\E k \in Users(p) : alloc'[k].id = i)
    BY DEF OneHolder
  <2>1. /\ \A a, b \in pool[p] : a.id = b.id => a = b
        /\ \A k \in Users(p) : \A a \in pool[p] : alloc[k].id # a.id
        /\ \A k, m \in Users(p) : k # m /\ alloc[k] # None => alloc[k].id # alloc[m].id
        /\ \A i \in 1..created[p] : (\E a \in pool[p] : a.id = i) \/ (\E k \in Users(p) : alloc[k].id = i)
    BY <1>0 DEF OneHolder
  <2>2. CASE p # P
    <3>1. \A k \in Users(p) : alloc'[k] = alloc[k]
      BY <1>4, <2>2 DEF Users
    <3> QED  BY <1>1, <1>5, <2>1, <2>2, <3>1
  <2>3. CASE p = P
    <3>0. l \in Users(p) /\ \A k \in Users(p) : k \in Lists /\ (k # l => alloc'[k] = alloc[k]) /\ alloc[k].id # id
      BY <1>1, <1>4, <2>3 DEF Users
    <3>1. \A a \in pool'[p] : (a \in rest /\ a \in pool[p] /\ a.id # id) \/ (a = alloc[l] /\ alloc[l] # None)
      BY <1>1, <1>5, <1>6, <2>3
    <3>2. \A a, b \in pool'[p] : a.id = b.id => a = b
      BY <2>1, <3>0, <3>1
    <3>3. \A k \in Users(p) : \A a \in pool'[p] : alloc'[k].id # a.id
      <4> SUFFICES ASSUME NEW k \in Users(p), NEW a \in pool'[p] PROVE alloc'[k].id # a.id
        OBVIOUS
      <4>1. CASE k = l
        BY <1>4, <3>0, <3>1, <4>1
      <4>2. CASE k # l
        BY <2>1, <3>0, <3>1, <4>2
      <4> QED  BY <4>1, <4>2
    <3>4. \A k, m \in Users(p) : k # m /\ alloc'[k] # None => alloc'[k].id # alloc'[m].id
      <4> SUFFICES ASSUME NEW k \in Users(p), NEW m \in Users(p), k # m, alloc'[k] # None PROVE alloc'[k].id # alloc'[m].id
        OBVIOUS
      <4>1. CASE k = l
        BY <1>4, <3>0, <4>1
      <4>2. CASE m = l
        BY <1>4, <3>0, <4>2
      <4>3. CASE k # l /\ m # l
        BY <2>1, <3>0, <4>3
      <4> QED  BY <4>1, <4>2, <4>3
    <3>5. \A i \in 1..created'[p] : (\E a \in pool'[p] : a.id = i) \/ (\E k \in Users(p) : alloc'[k].id = i)
      <4> SUFFICES ASSUME NEW i \in 1..created'[p], i # id
                   PROVE  (\E a \in pool'[p] : a.id = i) \/ (\E k \in Users(p) : alloc'[k].id = i)
        BY <1>4, <3>0
      <4>1. i \in 1..created[p]
        BY <1>1, <2>3
      <4>2. CASE \E a \in pool[p] : a.id = i
        BY <1>1, <1>5, <2>3, <4>2
      <4>3. CASE \E k \in Users(p) : k # l /\ alloc[k].id = i
        BY <3>0, <4>3
      <4>4. CASE alloc[l].id = i
        <5>1. i # 0
          BY <4>1, <1>3, <2>3
        <5>2. alloc[l] # None
          BY <4>4, <5>1, <1>0, HeldFacts
        <5>3. alloc[l] \in pool'[p]
          BY <1>5, <2>3, <5>2 DEF Return
        <5> QED  BY <4>4, <5>3
      <4> QED  BY <2>1, <4>1, <4>2, <4>3, <4>4
    <3> QED  BY <3>2, <3>3, <3>4, <3>5
  <2> QED  BY <2>2, <2>3
<1>11. StampsCover'
  <2> SUFFICES ASSUME NEW i \in DOMAIN gpu, gpu[i].kind = "list", gpu[i].list \in FrameLists \cup FlushLists,
                      NEW p, p = PoolOf(gpu[i].list)
               PROVE  /\ \A a \in pool'[p] : a.id = gpu[i].id => SignalBehind(gpu, i, p, a.stamp)
                      /\ \A k \in Lists :
                           /\ PoolOf(k) = p /\ alloc'[k].id = gpu[i].id
                           => /\ state'[k] # "open" /\ k \notin RayLists
                              /\ SignalBehind(gpu, i, p, alloc'[k].stamp) \/ Unsignalled(k)'
    BY <1>2 DEF StampsCover
  <2>1. /\ \A a \in pool[p] : a.id = gpu[i].id => SignalBehind(gpu, i, p, a.stamp)
        /\ \A k \in Lists :
             /\ PoolOf(k) = p /\ alloc[k].id = gpu[i].id
             => /\ state[k] # "open" /\ k \notin RayLists
                /\ SignalBehind(gpu, i, p, alloc[k].stamp) \/ Unsignalled(k)
    BY <1>0 DEF StampsCover
  <2>2. ~Unsignalled(l) /\ \A k \in Lists : k # l => Unsignalled(k)' = Unsignalled(k)
    BY <1>2, <1>4 DEF Unsignalled
  <2>3. p = P => id # gpu[i].id
    BY <1>1
  <2>4. p \in Pools
    BY <1>0, GpuFacts, PoolFacts
  <2>5. \A a \in pool'[p] : a.id = gpu[i].id => SignalBehind(gpu, i, p, a.stamp)
    <3> SUFFICES ASSUME NEW a \in pool'[p], a.id = gpu[i].id PROVE SignalBehind(gpu, i, p, a.stamp)
      OBVIOUS
    <3>1. CASE a \in pool[p]
      BY <2>1, <3>1
    <3>2. CASE a \notin pool[p]
      <4>1. p = P /\ a = alloc[l]
        BY <1>1, <1>5, <1>6, <2>4, <3>2
      <4> QED  BY <2>1, <2>2, <4>1
    <3> QED  BY <3>1, <3>2
  <2>6. \A k \in Lists :
           /\ PoolOf(k) = p /\ alloc'[k].id = gpu[i].id
           => /\ state'[k] # "open" /\ k \notin RayLists
              /\ SignalBehind(gpu, i, p, alloc'[k].stamp) \/ Unsignalled(k)'
    <3> SUFFICES ASSUME NEW k \in Lists, PoolOf(k) = p, alloc'[k].id = gpu[i].id
                 PROVE  /\ state'[k] # "open" /\ k \notin RayLists
                        /\ SignalBehind(gpu, i, p, alloc'[k].stamp) \/ Unsignalled(k)'
      OBVIOUS
    <3>1. k # l
      BY <1>4, <2>3
    <3>2. alloc'[k] = alloc[k] /\ state'[k] = state[k] /\ Unsignalled(k)' = Unsignalled(k)
      BY <1>4, <2>2, <3>1
    <3> QED  BY <2>1, <3>2
  <2> QED  BY <2>5, <2>6
<1> QED  BY <1>7, <1>8, <1>9, <1>10, <1>11 DEF IInv

-----------------------------------------------------------------------------
(* ExecuteCommandLists                                                     *)
LEMMA ExecuteQueue ==
  ASSUME TypeOK, NEW ls \in SUBSET Lists, Execute(ls)
  PROVE  /\ Extended
         /\ \A i \in 1..Len(gpu') :
              i <= Len(gpu) \/ \E l \in ls : gpu'[i] = [kind |-> "list", list |-> l, id |-> alloc[l].id]
<1>1. IsFiniteSet(ls)
  BY ListsAssumption, FS_Subset
<1> DEFINE n == Cardinality(ls)
<1>2. n \in Nat
  BY <1>1, FS_CardinalityType
<1> HIDE DEF n
<1>3. PICK order \in [1..n -> ls] :
        gpu' = gpu \o [i \in 1..n |-> [kind |-> "list", list |-> order[i], id |-> alloc[order[i]].id]]
  BY DEF Execute, n
<1> DEFINE new == [i \in 1..n |-> [kind |-> "list", list |-> order[i], id |-> alloc[order[i]].id]]
<1>4. \A i \in 1..n : order[i] \in ls /\ order[i] \in Lists /\ new[i] = [kind |-> "list", list |-> order[i], id |-> alloc[order[i]].id]
  OBVIOUS
<1>5. \A i \in 1..n : new[i] \in Item
  BY <1>4, ItemOf, HeldFacts
<1>6. new \in Seq(Item) /\ Len(new) = n
  BY <1>2, <1>5
<1>7. gpu' = gpu \o new
  BY <1>3
<1> HIDE DEF new
<1>8. gpu \in Seq(Item) /\ Len(gpu) \in Nat
  BY GpuFacts
<1>9. /\ gpu' \in Seq(Item) /\ Len(gpu') = Len(gpu) + n
      /\ \A i \in 1..Len(gpu) : gpu'[i] = gpu[i]
      /\ \A i \in (Len(gpu) + 1)..(Len(gpu) + n) : gpu'[i] = new[i - Len(gpu)]
  BY <1>6, <1>7, <1>8, QueueConcat
<1>10. Extended
  BY <1>2, <1>8, <1>9 DEF Extended
<1>11. ASSUME NEW i \in 1..Len(gpu'), ~(i <= Len(gpu))
       PROVE  \E l \in ls : gpu'[i] = [kind |-> "list", list |-> l, id |-> alloc[l].id]
  <2>1. i \in (Len(gpu) + 1)..(Len(gpu) + n) /\ i - Len(gpu) \in 1..n
    BY <1>2, <1>8, <1>9, <1>11
  <2>2. gpu'[i] = new[i - Len(gpu)]
    BY <1>9, <2>1
  <2> QED  BY <1>4, <2>1, <2>2
<1> QED  BY <1>10, <1>11

(* A batch is executed: the frame lists in Present, or one list of a flush *)
(* or a ray cast.                                                          *)
LEMMA ExecuteInv ==
  ASSUME IInv, NEW ls \in SUBSET Lists, Execute(ls), \A l \in ls : state[l] = "open",
         UNCHANGED <<reached, sync, pool, created, alloc, bbVars>>,
         \/ ls = FrameLists /\ cpu = "frame" /\ cpu' = "presented"
         \/ ls \subseteq FlushLists \cup RayLists /\ cpu' = cpu
  PROVE  IInv'
<1>0. TypeOK /\ SignalsAscend /\ FrameStates /\ OneHolder /\ StampsCover /\ BackBufferCovers
  BY DEF IInv
<1>1. /\ reached' = reached /\ sync' = sync /\ pool' = pool /\ created' = created /\ alloc' = alloc
      /\ bbMain' = bbMain /\ bbPost' = bbPost
  BY DEF bbVars
<1>2. state' = [k \in Lists |-> IF k \in ls THEN "executed" ELSE state[k]]
  BY DEF Execute
<1>3. Extended /\ \A i \in 1..Len(gpu') :
        i <= Len(gpu) \/ \E l \in ls : gpu'[i] = [kind |-> "list", list |-> l, id |-> alloc[l].id]
  BY <1>0, ExecuteQueue
<1>4. /\ gpu' \in Seq(Item) /\ DOMAIN gpu' = 1..Len(gpu') /\ DOMAIN gpu = 1..Len(gpu)
      /\ Len(gpu) \in Nat /\ Len(gpu') \in Nat /\ \A i \in DOMAIN gpu : gpu'[i] = gpu[i]
  BY <1>0, <1>3, GpuFacts, QueueFacts DEF Extended
(* an item is an old one, or a list of the batch                           *)
<1>5. \A i \in DOMAIN gpu' :
        \/ i \in DOMAIN gpu /\ gpu'[i] = gpu[i]
        \/ i \notin DOMAIN gpu /\ \E l \in ls : gpu'[i].kind = "list" /\ gpu'[i].list = l /\ gpu'[i].id = alloc[l].id
  BY <1>3, <1>4
<1>6. \A l \in ls : l \in Lists /\ alloc[l] # None /\ alloc[l].id \in 1..created[PoolOf(l)] /\ alloc[l].id # 0
  <2>1. \A l \in ls : l \in Lists /\ alloc[l] # None
    BY <1>0 DEF FrameStates
  <2>2. \A l \in ls : alloc[l].id \in 1..created[PoolOf(l)] /\ PoolOf(l) \in Pools
    BY <1>0, <2>1, HeldFacts, PoolFacts
  <2> QED  BY <1>0, <2>1, <2>2, HeldFacts
<1>7. TypeOK'
  <2>1. \A i \in DOMAIN gpu' :
          /\ gpu'[i].kind = "list" => gpu'[i].id \in 1..created[PoolOf(gpu'[i].list)]
          /\ gpu'[i].kind = "signal" => gpu'[i].value \in 1..sync[gpu'[i].fence]
    BY <1>0, <1>5, <1>6 DEF TypeOK
  <2>2. state' \in [Lists -> {"closed", "open", "executed", "signalled"}] /\ cpu' \in {"idle", "frame", "presented", "flush"}
    BY <1>0, <1>2 DEF TypeOK
  <2> QED  BY <1>0, <1>1, <1>4, <2>1, <2>2 DEF TypeOK, Allocator
<1>8. SignalsAscend'
  <2>1. \A i \in DOMAIN gpu' : gpu'[i].kind = "signal" => i \in DOMAIN gpu /\ gpu'[i] = gpu[i]
    BY <1>5
  <2> QED  BY <1>0, <1>1, <2>1 DEF SignalsAscend
<1>9. FrameStates'
  <2>1. \A k \in Lists : state'[k] # "closed" => alloc[k] # None
    BY <1>0, <1>2, <1>6 DEF FrameStates
  <2>2. ASSUME NEW k \in FrameLists
        PROVE  /\ cpu' = "frame" => state'[k] \in {"closed", "open"} /\ (state'[k] = "open" => alloc[k].stamp = sync["window"] + 1)
               /\ cpu' = "presented" => state'[k] = "executed" /\ alloc[k].stamp = sync["window"] + 1
               /\ cpu' \in {"idle", "flush"} => state'[k] \in {"closed", "executed"}
    <3>1. k \in Lists /\ k \notin FlushLists /\ k \notin RayLists
      BY PoolFacts
    <3>2. CASE ls = FrameLists /\ cpu = "frame" /\ cpu' = "presented"
      BY <1>0, <1>2, <3>1, <3>2 DEF FrameStates
    <3>3. CASE ls \subseteq FlushLists \cup RayLists /\ cpu' = cpu
      <4>1. state'[k] = state[k]
        BY <1>2, <3>1, <3>3
      <4> QED  BY <1>0, <3>3, <4>1 DEF FrameStates
    <3> QED  BY <3>2, <3>3
  <2> QED  BY <1>1, <2>1, <2>2 DEF FrameStates
<1>10. OneHolder'
  BY <1>0, <1>1 DEF OneHolder
<1>11. StampsCover'
  <2> SUFFICES ASSUME NEW i \in DOMAIN gpu', gpu'[i].kind = "list", gpu'[i].list \in FrameLists \cup FlushLists,
                      NEW p, p = PoolOf(gpu'[i].list)
               PROVE  /\ \A a \in pool[p] : a.id = gpu'[i].id => SignalBehind(gpu', i, p, a.stamp)
                      /\ \A k \in Lists :
                           /\ PoolOf(k) = p /\ alloc[k].id = gpu'[i].id
                           => /\ state'[k] # "open" /\ k \notin RayLists
                              /\ SignalBehind(gpu', i, p, alloc[k].stamp) \/ Unsignalled(k)'
    BY <1>1 DEF StampsCover
  <2>1. CASE i \in DOMAIN gpu /\ gpu'[i] = gpu[i]
    <3>1. /\ \A a \in pool[p] : a.id = gpu'[i].id => SignalBehind(gpu, i, p, a.stamp)
          /\ \A k \in Lists :
               /\ PoolOf(k) = p /\ alloc[k].id = gpu'[i].id
               => /\ state[k] # "open" /\ k \notin RayLists
                  /\ SignalBehind(gpu, i, p, alloc[k].stamp) \/ Unsignalled(k)
      BY <1>0, <2>1 DEF StampsCover
    <3>2. \A point : SignalBehind(gpu, i, p, point) => SignalBehind(gpu', i, p, point)
      BY <1>0, <1>3, BehindStays
    <3>3. \A k \in Lists : state[k] # "open" => state'[k] = state[k] /\ (Unsignalled(k) => Unsignalled(k)')
      <4>1. \A k \in Lists : state[k] # "open" => state'[k] = state[k]
        BY <1>2
      <4>2. cpu = "presented" => cpu' = "presented"
        OBVIOUS
      <4> QED  BY <4>1, <4>2 DEF Unsignalled
    <3> QED  BY <3>1, <3>2, <3>3
  <2>2. CASE i \notin DOMAIN gpu
    <3>1. PICK l \in ls : gpu'[i].list = l /\ gpu'[i].id = alloc[l].id
      BY <1>5, <2>2
    <3>2. p \in Pools /\ PoolOf(l) = p /\ l \in Lists /\ alloc[l] # None /\ l \in FrameLists \cup FlushLists
      BY <1>6, <3>1, PoolFacts
    <3>3. \A a \in pool[p] : a.id # alloc[l].id
      BY <1>0, <3>2 DEF OneHolder, Users
    <3>4. \A k \in Lists : PoolOf(k) = p /\ alloc[k].id = alloc[l].id => k = l
      BY <1>0, <3>2 DEF OneHolder, Users
    <3>5. state'[l] = "executed" /\ l \notin RayLists /\ Unsignalled(l)'
      <4>1. state'[l] = "executed"
        BY <1>2, <3>1, <3>2
      <4>2. l \in FrameLists => cpu' = "presented"
        BY PoolFacts
      <4> QED  BY <3>2, <4>1, <4>2, PoolFacts DEF Unsignalled
    <3> QED  BY <3>1, <3>3, <3>4, <3>5
  <2> QED  BY <1>5, <2>1, <2>2
<1>12. BackBufferCovers'
  <2> SUFFICES ASSUME NEW i \in DOMAIN gpu', gpu'[i].kind = "list", gpu'[i].list \in FrameLists, cpu' # "presented"
               PROVE  cpu' # "frame" /\ SignalBehind(gpu', i, "window", bbMain)
    BY <1>1 DEF BackBufferCovers
  <2>1. cpu' = cpu /\ ls \subseteq FlushLists \cup RayLists
    OBVIOUS
  <2>2. i \in DOMAIN gpu /\ gpu'[i] = gpu[i]
    BY <1>5, <2>1, PoolFacts
  <2>3. cpu # "frame" /\ SignalBehind(gpu, i, "window", bbMain)
    BY <1>0, <2>1, <2>2 DEF BackBufferCovers
  <2> QED  BY <1>0, <1>3, <2>1, <2>3, BehindStays
<1> QED  BY <1>7, <1>8, <1>9, <1>10, <1>11, <1>12 DEF IInv

-----------------------------------------------------------------------------
(* A sync point is added                                                   *)
LEMMA AddSyncPointQueue ==
  ASSUME TypeOK, SignalsAscend, NEW f \in Fences, AddSyncPoint(f), reached' = reached
  PROVE  /\ Extended /\ Len(gpu') = Len(gpu) + 1
         /\ gpu'[Len(gpu) + 1] = [kind |-> "signal", fence |-> f, value |-> sync[f] + 1]
         /\ sync' \in [Fences -> Nat] /\ sync'[f] = sync[f] + 1 /\ \A g \in Fences : g # f => sync'[g] = sync[g]
         /\ \A g \in Fences : sync[g] <= sync'[g] /\ sync'[g] \in 0..MaxSync[g] /\ reached[g] \in 0..sync'[g]
         /\ SignalsAscend'
<1>1. sync' = [sync EXCEPT ![f] = @ + 1] /\ sync[f] < MaxSync[f]
  BY DEF AddSyncPoint
<1>2. sync \in [Fences -> Nat] /\ sync'[f] = sync[f] + 1 /\ sync[f] \in Nat
  BY <1>1, FenceFacts DEF TypeOK
<1>3. gpu' = Append(gpu, [kind |-> "signal", fence |-> f, value |-> sync[f] + 1])
  BY <1>2 DEF AddSyncPoint
<1>4. [kind |-> "signal", fence |-> f, value |-> sync[f] + 1] \in Item
  BY <1>2, ItemOf
<1>5. /\ gpu' \in Seq(Item) /\ Len(gpu') = Len(gpu) + 1 /\ \A i \in 1..Len(gpu) : gpu'[i] = gpu[i]
      /\ gpu'[Len(gpu) + 1] = [kind |-> "signal", fence |-> f, value |-> sync[f] + 1]
  BY <1>3, <1>4, GpuFacts, QueueAppend
<1>6. Extended
  BY <1>5, GpuFacts DEF Extended
<1>7. /\ sync' \in [Fences -> Nat] /\ \A g \in Fences : g # f => sync'[g] = sync[g]
      /\ \A g \in Fences : sync[g] <= sync'[g] /\ sync'[g] \in 0..MaxSync[g] /\ reached[g] \in 0..sync'[g]
  <2>1. sync' \in [Fences -> Nat] /\ \A g \in Fences : g # f => sync'[g] = sync[g]
    BY <1>1, <1>2
  <2> QED  BY <1>1, <1>2, <2>1, FenceFacts
<1>8. SignalsAscend'
  <2>1. DOMAIN gpu' = 1..(Len(gpu) + 1) /\ Len(gpu) \in Nat /\ DOMAIN gpu = 1..Len(gpu)
    BY <1>5, GpuFacts, QueueFacts
  <2>2. \A i \in DOMAIN gpu' :
          \/ i \in DOMAIN gpu /\ gpu'[i] = gpu[i]
          \/ i = Len(gpu) + 1 /\ gpu'[i].kind = "signal" /\ gpu'[i].fence = f /\ gpu'[i].value = sync[f] + 1
    BY <1>5, <2>1
  <2>3. \A i \in DOMAIN gpu : gpu[i].kind = "signal" /\ gpu[i].fence = f => gpu[i].value < sync[f] + 1
    BY <1>2, <2>1, GpuFacts
  <2>4. \A i \in DOMAIN gpu' : gpu'[i].kind = "signal" => reached[gpu'[i].fence] < gpu'[i].value
    BY <1>2, <2>2, FenceFacts DEF SignalsAscend
  <2>5. \A i, j \in DOMAIN gpu' :
       /\ i < j /\ gpu'[i].kind = "signal" /\ gpu'[j].kind = "signal" /\ gpu'[i].fence = gpu'[j].fence
       => gpu'[i].value < gpu'[j].value
    <3> SUFFICES ASSUME NEW i \in DOMAIN gpu', NEW j \in DOMAIN gpu', i < j,
                        gpu'[i].kind = "signal", gpu'[j].kind = "signal", gpu'[i].fence = gpu'[j].fence
                 PROVE  gpu'[i].value < gpu'[j].value
      OBVIOUS
    <3>1. i \in DOMAIN gpu /\ gpu'[i] = gpu[i]
      BY <2>1, <2>2
    <3>2. CASE j \in DOMAIN gpu /\ gpu'[j] = gpu[j]
      BY <3>1, <3>2 DEF SignalsAscend
    <3>3. CASE j = Len(gpu) + 1 /\ gpu'[j].fence = f /\ gpu'[j].value = sync[f] + 1
      BY <2>3, <3>1, <3>3
    <3> QED  BY <2>2, <3>2, <3>3
  <2> QED  BY <2>4, <2>5 DEF SignalsAscend
<1> QED  BY <1>2, <1>5, <1>6, <1>7, <1>8

(* What the queue says after a signal: an old item, or the signal, which is*)
(* behind every item.                                                      *)
LEMMA SignalItems ==
  ASSUME TypeOK, SignalsAscend, NEW f \in Fences, AddSyncPoint(f), reached' = reached
  PROVE  /\ \A i \in DOMAIN gpu' : gpu'[i].kind = "list" => i \in DOMAIN gpu /\ gpu'[i] = gpu[i]
         /\ \A i \in DOMAIN gpu : \A point \in Nat : sync[f] + 1 <= point => SignalBehind(gpu', i, f, point)
         /\ gpu' \in Seq(Item)
         /\ \A i \in DOMAIN gpu' :
              /\ gpu'[i].kind = "list" => gpu'[i].id \in 1..created[PoolOf(gpu'[i].list)]
              /\ gpu'[i].kind = "signal" => gpu'[i].value \in 1..sync'[gpu'[i].fence]
<1>1. /\ Extended /\ Len(gpu') = Len(gpu) + 1
      /\ gpu'[Len(gpu) + 1] = [kind |-> "signal", fence |-> f, value |-> sync[f] + 1]
      /\ sync'[f] = sync[f] + 1 /\ \A g \in Fences : sync[g] <= sync'[g] /\ sync'[g] \in 0..MaxSync[g]
  BY AddSyncPointQueue
<1>2. DOMAIN gpu' = 1..(Len(gpu) + 1) /\ Len(gpu) \in Nat /\ DOMAIN gpu = 1..Len(gpu) /\ gpu' \in Seq(Item)
  BY <1>1, GpuFacts, QueueFacts DEF Extended
<1>3. \A i \in DOMAIN gpu' :
        \/ i \in DOMAIN gpu /\ gpu'[i] = gpu[i]
        \/ i = Len(gpu) + 1 /\ gpu'[i].kind = "signal" /\ gpu'[i].fence = f /\ gpu'[i].value = sync[f] + 1
  BY <1>1, <1>2 DEF Extended
<1>4. \A i \in DOMAIN gpu : \A point \in Nat : sync[f] + 1 <= point => SignalBehind(gpu', i, f, point)
  <2> SUFFICES ASSUME NEW i \in DOMAIN gpu, NEW point \in Nat, sync[f] + 1 <= point PROVE SignalBehind(gpu', i, f, point)
    OBVIOUS
  <2>1. Len(gpu) + 1 \in DOMAIN gpu' /\ i < Len(gpu) + 1
    BY <1>2
  <2>2. /\ gpu'[Len(gpu) + 1].kind = "signal" /\ gpu'[Len(gpu) + 1].fence = f
        /\ gpu'[Len(gpu) + 1].value <= point
    BY <1>1
  <2> QED  BY <2>1, <2>2 DEF SignalBehind
<1>5. \A i \in DOMAIN gpu' : gpu'[i].kind = "signal" => gpu'[i].value \in 1..sync'[gpu'[i].fence]
  <2> SUFFICES ASSUME NEW i \in DOMAIN gpu', gpu'[i].kind = "signal" PROVE gpu'[i].value \in 1..sync'[gpu'[i].fence]
    OBVIOUS
  <2>1. CASE i \in DOMAIN gpu /\ gpu'[i] = gpu[i]
    <3>1. gpu[i].fence \in Fences /\ gpu[i].value \in Nat /\ gpu[i].value \in 1..sync[gpu[i].fence]
      BY <1>2, <2>1, GpuFacts
    <3>2. sync[gpu[i].fence] <= sync'[gpu[i].fence] /\ sync[gpu[i].fence] \in Nat /\ sync'[gpu[i].fence] \in Nat
      BY <1>1, <3>1, FenceFacts
    <3> QED  BY <2>1, <3>1, <3>2
  <2>2. CASE gpu'[i].fence = f /\ gpu'[i].value = sync[f] + 1
    <3>1. sync[f] \in Nat
      BY FenceFacts
    <3> QED  BY <1>1, <2>2, <3>1
  <2> QED  BY <1>3, <2>1, <2>2
<1>6. \A i \in DOMAIN gpu' : gpu'[i].kind = "list" => i \in DOMAIN gpu /\ gpu'[i] = gpu[i]
  BY <1>3
<1>7. \A i \in DOMAIN gpu' : gpu'[i].kind = "list" => gpu'[i].id \in 1..created[PoolOf(gpu'[i].list)]
  BY <1>2, <1>6, GpuFacts
<1> QED  BY <1>2, <1>4, <1>5, <1>6, <1>7

-----------------------------------------------------------------------------
(* Types after a sync point.                                               *)
LEMMA SignalTypes ==
  ASSUME TypeOK, SignalsAscend, NEW f \in Fences, AddSyncPoint(f), reached' = reached, pool' = pool, created' = created,
         alloc' \in [Lists -> [id : Nat, stamp : Nat]],
         \A l \in Lists : alloc'[l] \in Allocator(PoolOf(l)) \cup {None},
         state' \in [Lists -> {"closed", "open", "executed", "signalled"}],
         cpu' \in {"idle", "frame", "presented", "flush"},
         bbMain' \in 0..sync'["window"], bbPost' \in [1..BBCount -> 0..sync'["window"]]
  PROVE  TypeOK'
<1>1. /\ gpu' \in Seq(Item)
      /\ \A i \in DOMAIN gpu' :
           /\ gpu'[i].kind = "list" => gpu'[i].id \in 1..created[PoolOf(gpu'[i].list)]
           /\ gpu'[i].kind = "signal" => gpu'[i].value \in 1..sync'[gpu'[i].fence]
  BY SignalItems
<1>2. /\ sync' \in [Fences -> Nat]
      /\ \A g \in Fences : sync'[g] \in 0..MaxSync[g] /\ reached[g] \in 0..sync'[g]
  BY AddSyncPointQueue
<1> QED  BY <1>1, <1>2 DEF TypeOK, Allocator

(* Another number of syncs does not unsettle the back buffers.             *)
LEMMA BackBufferTypes ==
  ASSUME TypeOK, SignalsAscend, NEW f \in Fences, AddSyncPoint(f), reached' = reached
  PROVE  bbMain \in 0..sync'["window"] /\ bbPost \in [1..BBCount -> 0..sync'["window"]]
<1>1. sync["window"] <= sync'["window"] /\ sync["window"] \in Nat /\ sync'["window"] \in Nat
  BY AddSyncPointQueue, FenceFacts, PoolFacts
<1>2. bbMain \in 0..sync["window"] /\ bbPost \in [1..BBCount -> 0..sync["window"]]
  BY DEF TypeOK
<1>3. 0..sync["window"] \subseteq 0..sync'["window"]
  BY <1>1
<1> QED  BY <1>2, <1>3

(* A sync point between two frames, or the signal behind a frame.          *)
LEMMA WindowSignalInv ==
  ASSUME IInv, AddSyncPoint("window"), UNCHANGED <<reached, pool, created, alloc, state>>,
         \/ cpu = "presented" /\ bbMain' = sync["window"] + 1 /\ cpu' = "idle"
         \/ cpu = "idle" /\ bbMain' = bbMain /\ cpu' = "flush",
         bbPost' \in [1..BBCount -> 0..sync'["window"]]
  PROVE  IInv'
<1>0. TypeOK /\ SignalsAscend /\ FrameStates /\ OneHolder /\ StampsCover /\ BackBufferCovers
  BY DEF IInv
<1>1. "window" \in Fences
  BY PoolFacts
<1>2. reached' = reached /\ pool' = pool /\ created' = created /\ alloc' = alloc /\ state' = state
  OBVIOUS
<1>3. /\ Extended /\ sync'["window"] = sync["window"] + 1 /\ sync["window"] \in Nat
      /\ SignalsAscend'
  BY <1>0, <1>1, <1>2, AddSyncPointQueue, FenceFacts
<1>4. /\ \A i \in DOMAIN gpu' : gpu'[i].kind = "list" => i \in DOMAIN gpu /\ gpu'[i] = gpu[i]
      /\ \A i \in DOMAIN gpu : \A point \in Nat : sync["window"] + 1 <= point => SignalBehind(gpu', i, "window", point)
  BY <1>0, <1>1, <1>2, SignalItems
<1>5. TypeOK'
  <2>1. bbMain' \in 0..sync'["window"]
    BY <1>0, <1>1, <1>2, <1>3, BackBufferTypes
  <2>2. cpu' \in {"idle", "frame", "presented", "flush"}
    OBVIOUS
  <2>3. /\ alloc' \in [Lists -> [id : Nat, stamp : Nat]]
        /\ \A l \in Lists : alloc'[l] \in Allocator(PoolOf(l)) \cup {None}
        /\ state' \in [Lists -> {"closed", "open", "executed", "signalled"}]
    BY <1>0, <1>2 DEF TypeOK
  <2> QED  BY <1>0, <1>1, <1>2, <2>1, <2>2, <2>3, SignalTypes
<1>6. FrameStates'
  <2>1. cpu' \in {"idle", "flush"}
    OBVIOUS
  <2>2. \A l \in FrameLists : state[l] \in {"closed", "executed"}
    BY <1>0 DEF FrameStates
  <2> QED  BY <1>0, <1>2, <2>1, <2>2 DEF FrameStates
<1>7. OneHolder'
  BY <1>0, <1>2 DEF OneHolder
<1>8. StampsCover'
  <2> SUFFICES ASSUME NEW i \in DOMAIN gpu', gpu'[i].kind = "list", gpu'[i].list \in FrameLists \cup FlushLists,
                      NEW p, p = PoolOf(gpu'[i].list)
               PROVE  /\ \A a \in pool[p] : a.id = gpu'[i].id => SignalBehind(gpu', i, p, a.stamp)
                      /\ \A k \in Lists :
                           /\ PoolOf(k) = p /\ alloc[k].id = gpu'[i].id
                           => /\ state[k] # "open" /\ k \notin RayLists
                              /\ SignalBehind(gpu', i, p, alloc[k].stamp) \/ Unsignalled(k)'
    BY <1>2 DEF StampsCover
  <2>1. i \in DOMAIN gpu /\ gpu'[i] = gpu[i]
    BY <1>4
  <2>2. /\ \A a \in pool[p] : a.id = gpu'[i].id => SignalBehind(gpu, i, p, a.stamp)
        /\ \A k \in Lists :
             /\ PoolOf(k) = p /\ alloc[k].id = gpu'[i].id
             => /\ state[k] # "open" /\ k \notin RayLists
                /\ SignalBehind(gpu, i, p, alloc[k].stamp) \/ Unsignalled(k)
    BY <1>0, <2>1 DEF StampsCover
  <2>3. \A point : SignalBehind(gpu, i, p, point) => SignalBehind(gpu', i, p, point)
    BY <1>0, <1>3, BehindStays
  <2>4. ASSUME NEW k \in Lists, PoolOf(k) = p, Unsignalled(k)
        PROVE  SignalBehind(gpu', i, p, alloc[k].stamp) \/ Unsignalled(k)'
    <3>1. CASE k \in FlushLists
      BY <1>2, <2>4, <3>1 DEF Unsignalled
    <3>2. CASE k \in FrameLists /\ cpu = "presented"
      <4>1. alloc[k].stamp = sync["window"] + 1 /\ p = "window"
        BY <1>0, <2>4, <3>2, PoolFacts DEF FrameStates
      <4>2. alloc[k].stamp \in Nat /\ sync["window"] + 1 <= alloc[k].stamp
        BY <1>3, <4>1
      <4> QED  BY <1>4, <2>1, <4>1, <4>2
    <3> QED  BY <2>4, <3>1, <3>2 DEF Unsignalled
  <2> QED  BY <2>2, <2>3, <2>4
<1>9. BackBufferCovers'
  <2> SUFFICES ASSUME NEW i \in DOMAIN gpu', gpu'[i].kind = "list", gpu'[i].list \in FrameLists
               PROVE  cpu' # "frame" /\ SignalBehind(gpu', i, "window", bbMain')
    BY DEF BackBufferCovers
  <2>1. i \in DOMAIN gpu /\ gpu'[i] = gpu[i]
    BY <1>4
  <2>2. CASE cpu = "presented" /\ bbMain' = sync["window"] + 1 /\ cpu' = "idle"
    BY <1>3, <1>4, <2>1, <2>2
  <2>3. CASE cpu = "idle" /\ bbMain' = bbMain /\ cpu' = "flush"
    <3>1. SignalBehind(gpu, i, "window", bbMain)
      BY <1>0, <2>1, <2>3 DEF BackBufferCovers
    <3> QED  BY <1>0, <1>3, <2>3, <3>1, BehindStays
  <2> QED  BY <2>2, <2>3
<1> QED  BY <1>3, <1>5, <1>6, <1>7, <1>8, <1>9 DEF IInv

(* The signal behind a flush, or behind a ray cast.                        *)
LEMMA ListSignalInv ==
  ASSUME IInv, NEW l \in Lists, NEW f \in Fences,
         \/ l \in FlushLists /\ f = "factory"
         \/ l \in RayLists /\ f = "ray",
         state[l] = "executed", AddSyncPoint(f), SyncPoint(l, sync'[f]),
         state' = [state EXCEPT ![l] = "signalled"],
         UNCHANGED <<reached, pool, created, cpu, bbVars>>
  PROVE  IInv'
<1>0. TypeOK /\ SignalsAscend /\ FrameStates /\ OneHolder /\ StampsCover /\ BackBufferCovers
  BY DEF IInv
<1>1. /\ reached' = reached /\ pool' = pool /\ created' = created /\ cpu' = cpu
      /\ bbMain' = bbMain /\ bbPost' = bbPost
  BY DEF bbVars
<1>2. /\ Extended /\ SignalsAscend'
      /\ sync'[f] = sync[f] + 1 /\ sync[f] \in Nat /\ \A g \in Fences : g # f => sync'[g] = sync[g]
  BY <1>0, <1>1, AddSyncPointQueue, FenceFacts
<1>3. /\ \A i \in DOMAIN gpu' : gpu'[i].kind = "list" => i \in DOMAIN gpu /\ gpu'[i] = gpu[i]
      /\ \A i \in DOMAIN gpu : \A point \in Nat : sync[f] + 1 <= point => SignalBehind(gpu', i, f, point)
  BY <1>0, <1>1, SignalItems
<1>4. alloc' = [alloc EXCEPT ![l].stamp = sync[f] + 1]
  BY <1>2 DEF SyncPoint
<1>5. /\ \A k \in Lists : alloc'[k].id = alloc[k].id
      /\ \A k \in Lists : k # l => alloc'[k] = alloc[k] /\ state'[k] = state[k]
      /\ alloc'[l] = [id |-> alloc[l].id, stamp |-> sync[f] + 1] /\ state'[l] = "signalled"
  BY <1>0, <1>2, <1>4 DEF TypeOK
<1>6. l \notin FrameLists /\ alloc[l] # None /\ alloc[l].id \in 1..created[PoolOf(l)] /\ alloc[l].id # 0 /\ alloc[l].id \in Nat
  <2>1. l \notin FrameLists /\ alloc[l] # None /\ PoolOf(l) \in Pools
    BY <1>0, PoolFacts DEF FrameStates
  <2>2. alloc[l].id \in 1..created[PoolOf(l)] /\ created[PoolOf(l)] \in Nat
    BY <1>0, <2>1, HeldFacts
  <2> QED  BY <2>1, <2>2
<1>7. \A k \in Lists : (alloc'[k] = None) = (alloc[k] = None)
  BY <1>5, <1>6 DEF None
<1>8. TypeOK'
  <2>1. alloc' \in [Lists -> [id : Nat, stamp : Nat]]
    <3>1. alloc' = [k \in Lists |-> alloc'[k]]
      BY <1>0, <1>4 DEF TypeOK
    <3>2. \A k \in Lists : alloc'[k] \in [id : Nat, stamp : Nat]
      <4>1. alloc'[l] \in [id : Nat, stamp : Nat]
        BY <1>2, <1>5, <1>6
      <4>2. \A k \in Lists : alloc[k] \in [id : Nat, stamp : Nat]
        BY <1>0 DEF TypeOK
      <4> QED  BY <1>5, <4>1, <4>2
    <3> QED  BY <3>1, <3>2
  <2>2. \A k \in Lists : alloc'[k] \in Allocator(PoolOf(k)) \cup {None}
    <3>1. alloc'[l] \in Allocator(PoolOf(l))
      BY <1>2, <1>5, <1>6 DEF Allocator
    <3> QED  BY <1>0, <1>5, <3>1 DEF TypeOK
  <2>3. state' \in [Lists -> {"closed", "open", "executed", "signalled"}] /\ cpu' \in {"idle", "frame", "presented", "flush"}
    BY <1>0, <1>1 DEF TypeOK
  <2>4. bbMain' \in 0..sync'["window"] /\ bbPost' \in [1..BBCount -> 0..sync'["window"]]
    BY <1>0, <1>1, BackBufferTypes
  <2> QED  BY <1>0, <1>1, <2>1, <2>2, <2>3, <2>4, SignalTypes
<1>9. FrameStates'
  <2>1. \A k \in Lists : state'[k] # "closed" => alloc'[k] # None
    BY <1>0, <1>5, <1>6, <1>7 DEF FrameStates
  <2>2. \A k \in FrameLists : k \in Lists /\ k # l
    BY <1>6, PoolFacts
  <2>3. sync'["window"] = sync["window"]
    BY <1>2, PoolFacts
  <2> QED  BY <1>0, <1>1, <1>5, <2>1, <2>2, <2>3 DEF FrameStates
<1>10. OneHolder'
  BY <1>0, <1>1, <1>5, <1>7 DEF OneHolder, Users
<1>11. StampsCover'
  <2> SUFFICES ASSUME NEW i \in DOMAIN gpu', gpu'[i].kind = "list", gpu'[i].list \in FrameLists \cup FlushLists,
                      NEW p, p = PoolOf(gpu'[i].list)
               PROVE  /\ \A a \in pool[p] : a.id = gpu'[i].id => SignalBehind(gpu', i, p, a.stamp)
                      /\ \A k \in Lists :
                           /\ PoolOf(k) = p /\ alloc[k].id = gpu'[i].id
                           => /\ state'[k] # "open" /\ k \notin RayLists
                              /\ SignalBehind(gpu', i, p, alloc'[k].stamp) \/ Unsignalled(k)'
    BY <1>1, <1>5 DEF StampsCover
  <2>1. i \in DOMAIN gpu /\ gpu'[i] = gpu[i]
    BY <1>3
  <2>2. /\ \A a \in pool[p] : a.id = gpu'[i].id => SignalBehind(gpu, i, p, a.stamp)
        /\ \A k \in Lists :
             /\ PoolOf(k) = p /\ alloc[k].id = gpu'[i].id
             => /\ state[k] # "open" /\ k \notin RayLists
                /\ SignalBehind(gpu, i, p, alloc[k].stamp) \/ Unsignalled(k)
    BY <1>0, <2>1 DEF StampsCover
  <2>3. \A point : SignalBehind(gpu, i, p, point) => SignalBehind(gpu', i, p, point)
    BY <1>0, <1>2, BehindStays
  <2>4. ASSUME NEW k \in Lists, PoolOf(k) = p, alloc[k].id = gpu'[i].id
        PROVE  /\ state'[k] # "open" /\ k \notin RayLists
               /\ SignalBehind(gpu', i, p, alloc'[k].stamp) \/ Unsignalled(k)'
    <3>1. CASE k # l
      <4>1. Unsignalled(k) => Unsignalled(k)'
        BY <1>1, <1>5, <3>1 DEF Unsignalled
      <4> QED  BY <1>5, <2>2, <2>3, <2>4, <3>1, <4>1
    <3>2. CASE k = l
      <4>1. l \notin RayLists
        BY <2>2, <2>4, <3>2
      <4>2. f = "factory" /\ p = "factory"
        BY <2>4, <3>2, <4>1, PoolFacts
      <4>3. alloc'[l].stamp = sync[f] + 1 /\ sync[f] + 1 \in Nat /\ sync[f] + 1 <= sync[f] + 1
        BY <1>2, <1>5
      <4>4. SignalBehind(gpu', i, p, alloc'[l].stamp)
        BY <1>3, <2>1, <4>2, <4>3
      <4> QED  BY <1>5, <3>2, <4>1, <4>4
    <3> QED  BY <3>1, <3>2
  <2> QED  BY <2>2, <2>3, <2>4
<1>12. BackBufferCovers'
  <2> SUFFICES ASSUME NEW i \in DOMAIN gpu', gpu'[i].kind = "list", gpu'[i].list \in FrameLists, cpu # "presented"
               PROVE  cpu # "frame" /\ SignalBehind(gpu', i, "window", bbMain)
    BY <1>1 DEF BackBufferCovers
  <2>1. i \in DOMAIN gpu /\ gpu'[i] = gpu[i]
    BY <1>3
  <2>2. cpu # "frame" /\ SignalBehind(gpu, i, "window", bbMain)
    BY <1>0, <2>1 DEF BackBufferCovers
  <2> QED  BY <1>0, <1>2, <2>2, BehindStays
<1> QED  BY <1>2, <1>8, <1>9, <1>10, <1>11, <1>12 DEF IInv

-----------------------------------------------------------------------------
(* NewFrame waits for the back buffer: nothing of a frame is in the queue. *)
LEMMA NewFrameInv == IInv /\ NewFrame => IInv'
<1> SUFFICES ASSUME IInv, NewFrame PROVE IInv'
  OBVIOUS
<1>0. TypeOK /\ SignalsAscend /\ FrameStates /\ OneHolder /\ StampsCover /\ BackBufferCovers
  BY DEF IInv
<1>1. /\ cpu = "idle" /\ reached["window"] >= bbMain /\ cpu' = "frame"
      /\ state' = [l \in Lists |-> IF l \in FrameLists THEN "closed" ELSE state[l]]
      /\ gpu' = gpu /\ reached' = reached /\ sync' = sync /\ pool' = pool /\ created' = created /\ alloc' = alloc
      /\ bbMain' = bbMain /\ bbPost' = bbPost
  BY DEF NewFrame, bbVars
<1>2. /\ \A l \in FrameLists : state'[l] = "closed"
      /\ \A l \in Lists : l \notin FrameLists => state'[l] = state[l]
  BY <1>1, PoolFacts
<1>3. TypeOK'
  BY <1>0, <1>1 DEF TypeOK, Allocator
<1>4. SignalsAscend' /\ OneHolder'
  <2>1. SignalsAscend'
    BY <1>0, <1>1 DEF SignalsAscend
  <2>2. OneHolder'
    BY <1>0, <1>1 DEF OneHolder
  <2> QED  BY <2>1, <2>2
<1>5. FrameStates'
  BY <1>0, <1>1, <1>2 DEF FrameStates
<1>6. StampsCover'
  <2>1. \A l \in Lists : state[l] # "open" => state'[l] # "open"
    BY <1>2
  <2>2. \A l \in Lists : Unsignalled(l) => Unsignalled(l)'
    BY <1>1, <1>2, PoolFacts DEF Unsignalled
  <2> QED  BY <1>0, <1>1, <2>1, <2>2 DEF StampsCover
<1>7. BackBufferCovers'
  <2> SUFFICES ASSUME NEW i \in DOMAIN gpu, gpu[i].kind = "list", gpu[i].list \in FrameLists PROVE FALSE
    BY <1>1 DEF BackBufferCovers
  <2>1. SignalBehind(gpu, i, "window", bbMain)
    BY <1>0, <1>1 DEF BackBufferCovers
  <2>2. bbMain \in Nat /\ bbMain <= reached["window"] /\ "window" \in Fences
    BY <1>0, <1>1, PoolFacts, FenceFacts DEF TypeOK
  <2> QED  BY <1>0, <2>1, <2>2, ReachedMeansDone
<1> QED  BY <1>3, <1>4, <1>5, <1>6, <1>7 DEF IInv

(* The wait of a flush: nothing of a frame is in the queue either.         *)
LEMMA FlushWindowWaitInv == IInv /\ FlushWindowWait => IInv'
<1> SUFFICES ASSUME IInv, FlushWindowWait PROVE IInv'
  OBVIOUS
<1>0. TypeOK /\ SignalsAscend /\ FrameStates /\ OneHolder /\ StampsCover /\ BackBufferCovers
  BY DEF IInv
<1>1. /\ cpu = "flush" /\ reached["window"] = sync["window"] /\ bbMain' = reached["window"] /\ cpu' = "idle"
      /\ bbPost' \in {bbPost, [i \in 1..BBCount |-> reached["window"]]}
      /\ gpu' = gpu /\ reached' = reached /\ sync' = sync /\ pool' = pool /\ created' = created /\ alloc' = alloc
      /\ state' = state
  BY DEF FlushWindowWait
<1>2. sync["window"] \in Nat /\ reached["window"] \in 0..sync["window"] /\ "window" \in Fences
  BY <1>0, <1>1, PoolFacts, FenceFacts
<1>3. TypeOK'
  <2>1. bbPost' \in [1..BBCount -> 0..sync["window"]]
    BY <1>0, <1>1, <1>2 DEF TypeOK
  <2> QED  BY <1>0, <1>1, <1>2, <2>1 DEF TypeOK, Allocator
<1>4. SignalsAscend' /\ OneHolder'
  <2>1. SignalsAscend'
    BY <1>0, <1>1 DEF SignalsAscend
  <2>2. OneHolder'
    BY <1>0, <1>1 DEF OneHolder
  <2> QED  BY <2>1, <2>2
<1>5. FrameStates'
  BY <1>0, <1>1 DEF FrameStates
<1>6. StampsCover'
  <2>1. \A l \in Lists : Unsignalled(l) => Unsignalled(l)'
    BY <1>1 DEF Unsignalled
  <2> QED  BY <1>0, <1>1, <2>1 DEF StampsCover
<1>7. BackBufferCovers'
  <2> SUFFICES ASSUME NEW i \in DOMAIN gpu, gpu[i].kind = "list", gpu[i].list \in FrameLists PROVE FALSE
    BY <1>1 DEF BackBufferCovers
  <2>1. SignalBehind(gpu, i, "window", bbMain)
    BY <1>0, <1>1 DEF BackBufferCovers
  <2>2. bbMain \in Nat /\ bbMain <= reached["window"]
    BY <1>0, <1>1, <1>2 DEF TypeOK
  <2> QED  BY <1>0, <1>2, <2>1, <2>2, ReachedMeansDone
<1> QED  BY <1>3, <1>4, <1>5, <1>6, <1>7 DEF IInv

-----------------------------------------------------------------------------
(* The clients *)

LEMMA RecordListInv == ASSUME IInv, NEW l \in FrameLists, RecordList(l) PROVE IInv'
<1>1. /\ cpu = "frame" /\ state[l] = "closed" /\ ResetList(l)
      /\ UNCHANGED <<gpu, reached, sync, cpu, bbVars>>
  BY DEF RecordList
<1> QED  BY <1>1, PoolFacts, ResetListInv

LEMMA PresentInv == IInv /\ Present => IInv'
<1> SUFFICES ASSUME IInv, Present PROVE IInv'
  OBVIOUS
<1>1. /\ cpu = "frame" /\ (\A l \in FrameLists : state[l] = "open") /\ Execute(FrameLists) /\ cpu' = "presented"
      /\ UNCHANGED <<reached, sync, pool, created, alloc, bbVars>>
  BY DEF Present
<1>2. FrameLists \in SUBSET Lists
  BY PoolFacts
<1> QED  BY <1>1, <1>2, ExecuteInv

LEMMA PresentSignalInv == IInv /\ PresentSignal => IInv'
<1> SUFFICES ASSUME IInv, PresentSignal PROVE IInv'
  OBVIOUS
<1>0. TypeOK /\ SignalsAscend
  BY DEF IInv
<1>1. /\ cpu = "presented" /\ AddSyncPoint("window") /\ bbMain' = sync["window"] + 1
      /\ bbPost' = Append(Tail(bbPost), sync["window"] + 1) /\ cpu' = "idle"
      /\ UNCHANGED <<reached, pool, created, alloc, state>>
  BY DEF PresentSignal, PresentSignalAs
<1>2. sync["window"] \in Nat /\ sync'["window"] = sync["window"] + 1
  BY <1>0, <1>1, PoolFacts, FenceFacts, AddSyncPointQueue
<1>3. bbPost' \in [1..BBCount -> 0..sync'["window"]]
  <2> DEFINE S == 0..sync'["window"]
  <2>1. bbPost \in [1..BBCount -> S]
    BY <1>0, <1>1, PoolFacts, BackBufferTypes
  <2>2. sync["window"] + 1 \in S
    BY <1>2
  <2> HIDE DEF S
  <2>3. BBCount \in Nat \ {0} /\ bbPost \in Seq(S) /\ Len(bbPost) = BBCount /\ bbPost # <<>>
    BY <2>1, BBCountAssumption
  <2>4. Tail(bbPost) \in Seq(S) /\ Len(Tail(bbPost)) = BBCount - 1
    BY <2>3, QueueTail
  <2>5. Append(Tail(bbPost), sync["window"] + 1) \in Seq(S) /\ Len(Append(Tail(bbPost), sync["window"] + 1)) = (BBCount - 1) + 1
    BY <2>2, <2>4, QueueAppend
  <2>6. bbPost' \in Seq(S) /\ Len(bbPost') = BBCount
    BY <1>1, <2>3, <2>5
  <2>7. bbPost' \in [1..BBCount -> S]
    BY <2>6
  <2> QED  BY <2>7 DEF S
<1> QED  BY <1>1, <1>3, WindowSignalInv

LEMMA FlushWindowInv == IInv /\ FlushWindow => IInv'
<1> SUFFICES ASSUME IInv, FlushWindow PROVE IInv'
  OBVIOUS
<1>1. /\ cpu = "idle" /\ AddSyncPoint("window") /\ cpu' = "flush" /\ bbMain' = bbMain /\ bbPost' = bbPost
      /\ UNCHANGED <<reached, pool, created, alloc, state>>
  BY DEF FlushWindow, bbVars
<1>2. bbPost' \in [1..BBCount -> 0..sync'["window"]]
  BY <1>1, PoolFacts, BackBufferTypes DEF IInv
<1> QED  BY <1>1, <1>2, WindowSignalInv

LEMMA FlushListInv ==
  ASSUME IInv, NEW l \in FlushLists, OpenFlushList(l) \/ ExecuteFlushList(l) \/ SignalFlushList(l)
  PROVE  IInv'
<1>0. l \in Lists /\ l \notin FrameLists /\ "factory" \in Fences /\ {l} \in SUBSET Lists
  BY PoolFacts
<1>1. CASE OpenFlushList(l)
  <2>1. state[l] \in {"closed", "signalled"} /\ ResetList(l) /\ UNCHANGED <<gpu, reached, sync, cpu, bbVars>>
    BY <1>1 DEF OpenFlushList
  <2> QED  BY <1>0, <2>1, ResetListInv
<1>2. CASE ExecuteFlushList(l)
  <2>1. /\ \A k \in {l} : state[k] = "open"
        /\ Execute({l}) /\ cpu' = cpu /\ UNCHANGED <<reached, sync, pool, created, alloc, bbVars>>
    BY <1>2 DEF ExecuteFlushList
  <2> QED  BY <1>0, <2>1, ExecuteInv
<1>3. CASE SignalFlushList(l)
  <2>1. /\ state[l] = "executed" /\ AddSyncPoint("factory") /\ SyncPoint(l, sync'["factory"])
        /\ state' = [state EXCEPT ![l] = "signalled"]
        /\ UNCHANGED <<reached, pool, created, cpu, bbVars>>
    BY <1>3 DEF SignalFlushList
  <2> QED  BY <1>0, <2>1, ListSignalInv
<1> QED  BY <1>1, <1>2, <1>3

LEMMA RayCastInv ==
  ASSUME IInv, NEW l \in RayLists, OpenRayCast(l) \/ ExecuteRayCast(l) \/ SignalRayCast(l)
  PROVE  IInv'
<1>0. l \in Lists /\ l \notin FrameLists /\ "ray" \in Fences /\ {l} \in SUBSET Lists
  BY PoolFacts
<1>1. CASE OpenRayCast(l)
  <2>1. state[l] \in {"closed", "signalled"} /\ ResetList(l) /\ UNCHANGED <<gpu, reached, sync, cpu, bbVars>>
    BY <1>1 DEF OpenRayCast, Idle
  <2> QED  BY <1>0, <2>1, ResetListInv
<1>2. CASE ExecuteRayCast(l)
  <2>1. /\ \A k \in {l} : state[k] = "open"
        /\ Execute({l}) /\ cpu' = cpu /\ UNCHANGED <<reached, sync, pool, created, alloc, bbVars>>
    BY <1>2 DEF ExecuteRayCast
  <2> QED  BY <1>0, <2>1, ExecuteInv
<1>3. CASE SignalRayCast(l)
  <2>1. /\ state[l] = "executed" /\ AddSyncPoint("ray") /\ SyncPoint(l, sync'["ray"])
        /\ state' = [state EXCEPT ![l] = "signalled"]
        /\ UNCHANGED <<reached, pool, created, cpu, bbVars>>
    BY <1>3 DEF SignalRayCast
  <2> QED  BY <1>0, <2>1, ListSignalInv
<1> QED  BY <1>1, <1>2, <1>3

LEMMA StutterInv == IInv /\ UNCHANGED vars => IInv'
BY DEF IInv, vars, bbVars, TypeOK, Allocator, SignalsAscend, FrameStates, OneHolder, StampsCover, BackBufferCovers, Unsignalled

-----------------------------------------------------------------------------
(* The invariant holds in every reachable state: the queue's signals ascend*)
(* and every stamp covers the lists it stands for (utility/cmd_alloc.h,    *)
(* GpuSync::AddSyncPoint).                                                 *)
THEOREM Invariance == Spec => []IInv
<1>1. Init => IInv
  BY InitInv
<1>2. IInv /\ [Next]_vars => IInv'
  <2> SUFFICES ASSUME IInv, [Next]_vars PROVE IInv'
    OBVIOUS
  <2>1. CASE GpuStep
    BY <2>1, GpuStepInv
  <2>2. CASE Frame
    BY <2>2, NewFrameInv, RecordListInv, PresentInv, PresentSignalInv, FlushWindowInv, FlushWindowWaitInv DEF Frame
  <2>3. CASE Flush
    BY <2>3, FlushListInv DEF Flush
  <2>4. CASE RayCast
    BY <2>4, RayCastInv DEF RayCast
  <2>5. CASE UNCHANGED vars
    BY <2>5, StutterInv
  <2> QED  BY <2>1, <2>2, <2>3, <2>4, <2>5 DEF Next
<1> QED  BY <1>1, <1>2, PTL DEF Spec

(* Every variable keeps its type; no fence is ahead of the sync points that*)
(* were added to it, and no list holds an allocator its pool never created.*)
THEOREM TypeCorrect == Spec => []TypeOK
<1>1. IInv => TypeOK
  BY DEF IInv
<1> QED  BY <1>1, Invariance, PTL

(* The allocator of a list being recorded backs no frame and no flush the  *)
(* GPU has still to execute: CmdAllocPool::Get compares the stamp with the *)
(* fence of its pool, and the stamp covers the list.                       *)
THEOREM ResetIsSafe == Spec => []ResetOnlyWhenIdle
<1>1. IInv => ResetOnlyWhenIdle
  <2> SUFFICES ASSUME IInv, NEW l \in Lists, state[l] = "open",
                      NEW i \in DOMAIN gpu, gpu[i].kind = "list", gpu[i].list \in FrameLists \cup FlushLists,
                      PoolOf(gpu[i].list) = PoolOf(l), gpu[i].id = alloc[l].id
               PROVE  FALSE
    BY DEF ResetOnlyWhenIdle, InFlight
  <2> QED  BY DEF IInv, StampsCover
<1> QED  BY <1>1, Invariance, PTL

(* An allocator is held by one list or by its pool, and none is lost, the  *)
(* ray casts' included (CmdAlloc's destructor and move, CmdList::Reset).   *)
THEOREM HeldOnce == Spec => []OneHolder
<1>1. IInv => OneHolder
  BY DEF IInv
<1> QED  BY <1>1, Invariance, PTL

(* While a frame is recorded no list of an earlier one is in the queue:    *)
(* NewFrame's wait is for the right sync point, resizes included.          *)
THEOREM BackBufferIsFree == Spec => []RenderTargetFree
<1>1. IInv => RenderTargetFree
  BY DEF IInv, BackBufferCovers, RenderTargetFree
<1> QED  BY <1>1, Invariance, PTL

=============================================================================
