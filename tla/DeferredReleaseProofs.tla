------------------------- MODULE DeferredReleaseProofs -------------------------
(***************************************************************************)
(* Proof that a deferred resource outlives every command list that uses    *)
(* it, for any number of resources, submissions and sync points.           *)
(***************************************************************************)
EXTENDS DeferredRelease, TLAPS

-----------------------------------------------------------------------------
(* Sequences of submissions *)

LEMMA QueueFacts ==
  ASSUME NEW S, NEW q \in Seq(S)
  PROVE  /\ Len(q) \in Nat /\ DOMAIN q = 1..Len(q)
         /\ \A i \in 1..Len(q) : q[i] \in S
OBVIOUS

LEMMA QueueAppend ==
  ASSUME NEW S, NEW q \in Seq(S), NEW e \in S
  PROVE  /\ Append(q, e) \in Seq(S)
         /\ DOMAIN Append(q, e) = 1..(Len(q) + 1)
         /\ \A i \in 1..Len(q) : Append(q, e)[i] = q[i]
         /\ Append(q, e)[Len(q) + 1] = e
<1>1. Append(q, e) \in Seq(S) /\ Len(Append(q, e)) = Len(q) + 1
  OBVIOUS
<1>2. DOMAIN Append(q, e) = 1..(Len(q) + 1)
  BY <1>1, QueueFacts
<1>3. (\A i \in 1..Len(q) : Append(q, e)[i] = q[i]) /\ Append(q, e)[Len(q) + 1] = e
  OBVIOUS
<1> QED  BY <1>1, <1>2, <1>3

LEMMA QueueTail ==
  ASSUME NEW S, NEW q \in Seq(S), q # <<>>
  PROVE  /\ Len(q) \in Nat \ {0} /\ Head(q) = q[1] /\ 1 \in DOMAIN q
         /\ Tail(q) \in Seq(S) /\ DOMAIN Tail(q) = 1..(Len(q) - 1)
         /\ \A i \in 1..(Len(q) - 1) : Tail(q)[i] = q[i + 1]
<1>1. Len(q) \in Nat \ {0}
  OBVIOUS
<1>2. Tail(q) \in Seq(S) /\ Len(Tail(q)) = Len(q) - 1
  BY <1>1
<1>3. DOMAIN Tail(q) = 1..(Len(q) - 1)
  BY <1>2, QueueFacts
<1>4. \A i \in 1..(Len(q) - 1) : Tail(q)[i] = q[i + 1]
  BY <1>1
<1>5. Head(q) = q[1] /\ 1 \in DOMAIN q
  BY <1>1, QueueFacts
<1> QED  BY <1>1, <1>2, <1>3, <1>4, <1>5

LEMMA TypeFacts ==
  ASSUME TypeOK
  PROVE  /\ sync \in Nat /\ completed \in Nat /\ notified \in Nat /\ completed <= sync /\ notified <= completed
         /\ queue \in Seq(Submission) /\ Len(queue) \in Nat /\ DOMAIN queue = 1..Len(queue)
         /\ \A i \in 1..Len(queue) : /\ queue[i].uses \subseteq Objects
                                     /\ queue[i].point \in Nat /\ queue[i].point <= sync
         /\ \A ref \in kept : ref.obj \in Objects /\ ref.point \in Nat
<1>1. sync \in Nat /\ completed \in Nat /\ notified \in Nat /\ completed <= sync /\ notified <= completed
  BY BoundsAssumption DEF TypeOK
<1>2. queue \in Seq(Submission)
  BY DEF TypeOK
<1>3. \A i \in 1..Len(queue) : queue[i] \in Submission
  BY <1>2, QueueFacts
<1>4. \A i \in 1..Len(queue) : /\ queue[i].uses \subseteq Objects
                               /\ queue[i].point \in Nat /\ queue[i].point <= sync
  BY <1>1, <1>3 DEF Submission
<1> QED  BY <1>1, <1>2, <1>4, QueueFacts DEF TypeOK

LEMMA InitInv == Init => IInv
<1> SUFFICES ASSUME Init PROVE IInv
  OBVIOUS
<1>1. TypeOK
  <2>1. queue \in Seq(Submission) /\ sync \in 0..MaxSync /\ completed \in 0..sync /\ notified \in 0..completed
    BY BoundsAssumption DEF Init
  <2> QED  BY <2>1 DEF Init, TypeOK
<1>2. DOMAIN queue = {}
  BY DEF Init
<1> QED  BY <1>1, <1>2 DEF Init, IInv, PointsAscend, UsesAreKept, FrameIsKept

-----------------------------------------------------------------------------
(* A submission: nothing in the queue or kept changes, and what the new    *)
(* submission uses is held or kept for a point that is not added before.   *)
LEMMA SubmitInv ==
  ASSUME IInv, NEW kind \in {"frame", "factory", "ray"}, NEW uses \in SUBSET Objects,
         NEW point \in Nat, Submit(kind, uses, point),
         sync' \in 0..MaxSync, sync <= sync', point = 0 \/ (point = sync' /\ point = sync + 1),
         point = 0 => sync' = sync,
         held' = held, kept' = kept, making' = making, completed' = completed,
         factory = "flushing" => factory' = "flushing",
         kind = "factory" => uses \subseteq making /\ factory' = "flushing",
         kind # "factory" => \A o \in uses : o \in held \/ \E ref \in kept : ref.obj = o /\ ref.point > sync
  PROVE  PointsAscend' /\ UsesAreKept' /\ queue' \in Seq(Submission')
<1> DEFINE n == Len(queue)
           e == [kind |-> kind, uses |-> uses, point |-> point]
<1>1. /\ TypeOK /\ sync \in Nat /\ completed \in Nat /\ completed <= sync /\ sync' \in Nat
      /\ n \in Nat /\ DOMAIN queue = 1..n
      /\ queue \in Seq(Submission)
      /\ \A i \in 1..n : queue[i].point \in Nat /\ queue[i].point <= sync
      /\ \A ref \in kept : ref.obj \in Objects /\ ref.point \in Nat
  BY TypeFacts, BoundsAssumption DEF IInv
<1>2. queue \in Seq(Submission') /\ e \in Submission'
  <2>1. Submission \subseteq Submission'
    BY <1>1 DEF Submission
  <2>2. point \in 0..sync'
    BY <1>1
  <2>3. e \in Submission'
    BY <2>2 DEF Submission
  <2>4. queue \in Seq(Submission')
    BY <1>1, <2>1
  <2> QED  BY <2>3, <2>4
<1>3. /\ queue' = Append(queue, e) /\ queue' \in Seq(Submission')
      /\ DOMAIN queue' = 1..(n + 1)
      /\ \A i \in 1..n : queue'[i] = queue[i]
      /\ queue'[n + 1] = e
  BY <1>2, QueueAppend DEF Submit
<1>4. n + 1 \in DOMAIN queue' /\ \A i \in DOMAIN queue' : i \in 1..n \/ i = n + 1
  BY <1>1, <1>3
<1>5. e.kind = kind /\ e.uses = uses /\ e.point = point
  OBVIOUS
<1> HIDE DEF n, e
<1>6. PointsAscend'
  <2>1. \A i \in DOMAIN queue' : queue'[i].point = 0 \/ queue'[i].point > completed
    <3> SUFFICES ASSUME NEW i \in DOMAIN queue' PROVE queue'[i].point = 0 \/ queue'[i].point > completed
      OBVIOUS
    <3>1. CASE i \in 1..n
      BY <1>1, <1>3, <3>1 DEF IInv, PointsAscend
    <3>2. CASE i = n + 1
      BY <1>1, <1>3, <1>5, <3>2
    <3> QED  BY <1>4, <3>1, <3>2
  <2>2. ASSUME NEW i \in DOMAIN queue', NEW k \in DOMAIN queue', i < k,
               queue'[i].point # 0, queue'[k].point # 0
        PROVE  queue'[i].point < queue'[k].point
    <3>1. i \in 1..n
      BY <1>1, <1>3, <2>2
    <3>2. CASE k \in 1..n
      BY <1>1, <1>3, <2>2, <3>1, <3>2 DEF IInv, PointsAscend
    <3>3. CASE k = n + 1
      BY <1>1, <1>3, <1>5, <2>2, <3>1, <3>3
    <3> QED  BY <1>4, <3>2, <3>3
  <2>3. \A i, k \in DOMAIN queue' :
          i < k /\ queue'[i].point # 0 /\ queue'[k].point # 0 => queue'[i].point < queue'[k].point
    BY <2>2
  <2> QED  BY <2>1, <2>3 DEF PointsAscend
<1>7. \A o \in Objects, i \in 1..(n + 1) :
        (\E ref \in kept : ref.obj = o /\ ref.point > sync) => KeptBeyond(o, i)'
  <2> SUFFICES ASSUME NEW o \in Objects, NEW i \in 1..(n + 1),
                      NEW ref \in kept, ref.obj = o, ref.point > sync
               PROVE  KeptBeyond(o, i)'
    OBVIOUS
  <2>1. CASE ref.point > sync'
    BY <2>1 DEF KeptBeyond
  <2>2. CASE ~(ref.point > sync')
    <3>1. sync' # sync
      BY <2>2
    <3>2. point = sync + 1 /\ ref.point = sync + 1
      BY <1>1, <2>2, <3>1
    <3>3. i <= n + 1 /\ queue'[n + 1].point = ref.point
      BY <1>1, <1>3, <1>5, <3>2
    <3> QED  BY <1>4, <3>3 DEF KeptBeyond
  <2> QED  BY <2>1, <2>2
<1>8. UsesAreKept'
  <2> SUFFICES ASSUME NEW i \in DOMAIN queue'
               PROVE  IF queue'[i].kind = "factory"
                        THEN queue'[i].uses \subseteq making' /\ factory' = "flushing"
                        ELSE \A o \in queue'[i].uses : o \in held' \/ KeptBeyond(o, i)'
    BY DEF UsesAreKept
  <2>1. CASE i \in 1..n
    <3>1. queue'[i] = queue[i] /\ i \in DOMAIN queue /\ i \in 1..(n + 1)
      BY <1>1, <1>3, <2>1
    <3>2. CASE queue[i].kind = "factory"
      BY <3>1, <3>2 DEF IInv, UsesAreKept
    <3>3. CASE queue[i].kind # "factory"
      <4> SUFFICES ASSUME NEW o \in queue[i].uses, o \notin held PROVE KeptBeyond(o, i)'
        BY <3>1, <3>3
      <4>1. KeptBeyond(o, i)
        BY <3>1, <3>3 DEF IInv, UsesAreKept
      <4>2. PICK ref \in kept : /\ ref.obj = o
                                /\ ref.point > sync \/ \E k \in DOMAIN queue : i <= k /\ queue[k].point = ref.point
        BY <4>1 DEF KeptBeyond
      <4>3. CASE ref.point > sync
        BY <1>1, <1>7, <3>1, <4>2, <4>3
      <4>4. CASE \E k \in DOMAIN queue : i <= k /\ queue[k].point = ref.point
        <5>1. PICK k \in DOMAIN queue : i <= k /\ queue[k].point = ref.point
          BY <4>4
        <5>2. k \in DOMAIN queue' /\ queue'[k].point = ref.point
          BY <1>1, <1>3, <5>1
        <5> QED  BY <4>2, <5>1, <5>2 DEF KeptBeyond
      <4> QED  BY <4>2, <4>3, <4>4
    <3> QED  BY <3>2, <3>3
  <2>2. CASE i = n + 1
    <3>1. queue'[i].kind = kind /\ queue'[i].uses = uses
      BY <1>3, <1>5, <2>2
    <3>2. CASE kind = "factory"
      BY <3>1, <3>2
    <3>3. CASE kind # "factory"
      <4>1. i \in 1..(n + 1)
        BY <1>1, <2>2
      <4> QED  BY <1>7, <3>1, <3>3, <4>1
    <3> QED  BY <3>2, <3>3
  <2> QED  BY <1>4, <2>1, <2>2
<1> QED  BY <1>3, <1>6, <1>8

LEMMA FlushToGpuInv == IInv /\ FlushToGpu => IInv'
<1> SUFFICES ASSUME IInv, FlushToGpu PROVE IInv'
  OBVIOUS
<1>1. /\ Submit("factory", making, 0) /\ factory' = "flushing"
      /\ unborn' = unborn /\ held' = held /\ kept' = kept /\ making' = making /\ frame' = frame
      /\ recording' = recording /\ sync' = sync /\ completed' = completed /\ notified' = notified
      /\ polling' = polling
  BY DEF FlushToGpu
<1>2. making \in SUBSET Objects /\ sync \in Nat /\ sync \in 0..MaxSync
  BY BoundsAssumption DEF IInv, TypeOK
<1>3. PointsAscend' /\ UsesAreKept' /\ queue' \in Seq(Submission')
  BY <1>1, <1>2, SubmitInv
<1>4. TypeOK'
  BY <1>1, <1>3 DEF IInv, TypeOK
<1> QED  BY <1>1, <1>3, <1>4 DEF IInv, FrameIsKept

LEMMA RayCastInv == ASSUME IInv, NEW o \in Objects, RayCast(o) PROVE IInv'
<1>1. /\ Submit("ray", {o}, 0) /\ o \in held /\ factory' = factory
      /\ unborn' = unborn /\ held' = held /\ kept' = kept /\ making' = making /\ frame' = frame
      /\ recording' = recording /\ sync' = sync /\ completed' = completed /\ notified' = notified
      /\ polling' = polling
  BY DEF RayCast
<1>2. {o} \in SUBSET Objects /\ sync \in Nat /\ sync \in 0..MaxSync
  BY BoundsAssumption DEF IInv, TypeOK
<1>3. PointsAscend' /\ UsesAreKept' /\ queue' \in Seq(Submission')
  BY <1>1, <1>2, SubmitInv
<1>4. TypeOK'
  BY <1>1, <1>3 DEF IInv, TypeOK
<1> QED  BY <1>1, <1>3, <1>4 DEF IInv, FrameIsKept

LEMMA PresentInv == IInv /\ Present => IInv'
<1> SUFFICES ASSUME IInv, Present PROVE IInv'
  OBVIOUS
<1>1. /\ Submit("frame", frame, sync + 1) /\ factory' = factory /\ sync < MaxSync /\ sync' = sync + 1
      /\ unborn' = unborn /\ held' = held /\ kept' = kept /\ making' = making /\ frame' = {}
      /\ recording' = FALSE /\ completed' = completed /\ notified' = notified
      /\ polling' = polling
  BY DEF Present
<1>2. /\ frame \in SUBSET Objects /\ sync \in Nat /\ sync + 1 \in Nat /\ sync' \in 0..MaxSync /\ sync <= sync'
      /\ completed \in 0..sync' /\ sync + 1 # 0
  BY <1>1, BoundsAssumption DEF IInv, TypeOK
<1>3. \A o \in frame : o \in held \/ \E ref \in kept : ref.obj = o /\ ref.point > sync
  BY DEF IInv, FrameIsKept
<1>4. PointsAscend' /\ UsesAreKept' /\ queue' \in Seq(Submission')
  BY <1>1, <1>2, <1>3, SubmitInv
<1>5. TypeOK'
  <2>1. kept' \subseteq [obj : Objects, point : 1..(sync' + 1)]
    <3>1. 1..(sync + 1) \subseteq 1..(sync' + 1)
      BY <1>1, <1>2
    <3> QED  BY <1>1, <3>1 DEF IInv, TypeOK
  <2> QED  BY <1>1, <1>2, <1>4, <2>1 DEF IInv, TypeOK
<1> QED  BY <1>1, <1>4, <1>5 DEF IInv, FrameIsKept

-----------------------------------------------------------------------------
(* The GPU passes a submission and the point behind it *)

LEMMA GpuStepInv == IInv /\ GpuStep => IInv'
<1> SUFFICES ASSUME IInv, GpuStep PROVE IInv'
  OBVIOUS
<1> DEFINE n == Len(queue)
<1>1. /\ unborn' = unborn /\ held' = held /\ kept' = kept /\ making' = making /\ factory' = factory
      /\ frame' = frame /\ recording' = recording /\ sync' = sync /\ notified' = notified /\ polling' = polling
      /\ queue # <<>> /\ queue' = Tail(queue)
      /\ completed' = IF Head(queue).point = 0 THEN completed ELSE Head(queue).point
  BY DEF GpuStep
<1>2. /\ TypeOK /\ sync \in Nat /\ completed \in Nat /\ notified \in Nat /\ notified <= completed
      /\ completed <= sync /\ queue \in Seq(Submission) /\ DOMAIN queue = 1..n
      /\ \A i \in 1..n : queue[i].point \in Nat /\ queue[i].point <= sync
      /\ \A ref \in kept : ref.point \in Nat
  BY TypeFacts DEF IInv
<1>3. /\ n \in Nat \ {0} /\ Head(queue) = queue[1] /\ 1 \in DOMAIN queue
      /\ queue' \in Seq(Submission) /\ DOMAIN queue' = 1..(n - 1)
      /\ \A i \in 1..(n - 1) : queue'[i] = queue[i + 1]
  BY <1>1, <1>2, QueueTail
<1>4. \A i \in 1..(n - 1) : i + 1 \in DOMAIN queue /\ 1 < i + 1
  BY <1>2, <1>3
<1> HIDE DEF n
<1>5. /\ completed' \in Nat /\ completed <= completed' /\ completed' <= sync
      /\ \A i \in 1..(n - 1) : queue[i + 1].point = 0 \/ queue[i + 1].point > completed'
  <2>1. CASE queue[1].point = 0
    BY <1>1, <1>2, <1>3, <1>4, <2>1 DEF IInv, PointsAscend
  <2>2. CASE queue[1].point # 0
    <3>1. completed' = queue[1].point /\ queue[1].point > completed
      BY <1>1, <1>3, <2>2 DEF IInv, PointsAscend
    <3>2. \A i \in 1..(n - 1) : queue[i + 1].point = 0 \/ queue[1].point < queue[i + 1].point
      BY <1>3, <1>4, <2>2 DEF IInv, PointsAscend
    <3> QED  BY <1>2, <1>3, <1>4, <3>1, <3>2
  <2> QED  BY <2>1, <2>2
<1>6. TypeOK'
  <2>1. Submission' = Submission
    BY <1>1 DEF Submission
  <2>2. completed' \in 0..sync /\ notified \in 0..completed'
    BY <1>2, <1>5
  <2> QED  BY <1>1, <1>2, <1>3, <2>1, <2>2 DEF TypeOK
<1>7. PointsAscend'
  <2>1. \A i \in DOMAIN queue' : queue'[i].point = 0 \/ queue'[i].point > completed'
    BY <1>3, <1>5
  <2>2. ASSUME NEW i \in DOMAIN queue', NEW k \in DOMAIN queue', i < k,
               queue'[i].point # 0, queue'[k].point # 0
        PROVE  queue'[i].point < queue'[k].point
    <3>1. i + 1 \in DOMAIN queue /\ k + 1 \in DOMAIN queue /\ i + 1 < k + 1
      BY <1>3, <1>4, <2>2
    <3> QED  BY <1>3, <2>2, <3>1 DEF IInv, PointsAscend
  <2>3. \A i, k \in DOMAIN queue' :
          i < k /\ queue'[i].point # 0 /\ queue'[k].point # 0 => queue'[i].point < queue'[k].point
    BY <2>2
  <2> QED  BY <2>1, <2>3 DEF PointsAscend
<1>8. UsesAreKept'
  <2> SUFFICES ASSUME NEW i \in 1..(n - 1)
               PROVE  IF queue'[i].kind = "factory"
                        THEN queue'[i].uses \subseteq making' /\ factory' = "flushing"
                        ELSE \A o \in queue'[i].uses : o \in held' \/ KeptBeyond(o, i)'
    BY <1>3 DEF UsesAreKept
  <2>1. queue'[i] = queue[i + 1] /\ i + 1 \in DOMAIN queue
    BY <1>3, <1>4
  <2>2. CASE queue[i + 1].kind = "factory"
    BY <1>1, <2>1, <2>2 DEF IInv, UsesAreKept
  <2>3. CASE queue[i + 1].kind # "factory"
    <3> SUFFICES ASSUME NEW o \in queue[i + 1].uses, o \notin held PROVE KeptBeyond(o, i)'
      BY <1>1, <2>1, <2>3
    <3>1. KeptBeyond(o, i + 1)
      BY <2>1, <2>3 DEF IInv, UsesAreKept
    <3>2. PICK ref \in kept : /\ ref.obj = o
                              /\ ref.point > sync \/ \E k \in DOMAIN queue : i + 1 <= k /\ queue[k].point = ref.point
      BY <3>1 DEF KeptBeyond
    <3>3. CASE ref.point > sync
      BY <1>1, <3>2, <3>3 DEF KeptBeyond
    <3>4. CASE \E k \in DOMAIN queue : i + 1 <= k /\ queue[k].point = ref.point
      <4>1. PICK k \in DOMAIN queue : i + 1 <= k /\ queue[k].point = ref.point
        BY <3>4
      <4>2. k - 1 \in 1..(n - 1) /\ i <= k - 1 /\ (k - 1) + 1 = k
        BY <1>2, <1>3, <4>1
      <4>3. k - 1 \in DOMAIN queue' /\ queue'[k - 1].point = ref.point
        BY <1>3, <4>1, <4>2
      <4> QED  BY <1>1, <3>2, <4>2, <4>3 DEF KeptBeyond
    <3> QED  BY <3>2, <3>3, <3>4
  <2> QED  BY <2>2, <2>3
<1> QED  BY <1>1, <1>6, <1>7, <1>8 DEF IInv, FrameIsKept

-----------------------------------------------------------------------------
(* The actions that leave the queue alone *)

(* Dropping a reference keeps the resource for the next point.             *)
LEMMA DeferReleaseInv == ASSUME IInv, NEW o \in Objects, DeferRelease(o) PROVE IInv'
<1>1. /\ queue' = queue /\ unborn' = unborn /\ making' = making /\ factory' = factory
      /\ frame' = frame /\ recording' = recording /\ sync' = sync /\ completed' = completed
      /\ notified' = notified /\ polling' = polling
      /\ held' = held \ {o} /\ kept' = kept \cup {[obj |-> o, point |-> sync + 1]}
  BY DEF DeferRelease, DropAt
<1>2. TypeOK /\ sync \in Nat
  BY TypeFacts DEF IInv
<1> DEFINE new == [obj |-> o, point |-> sync + 1]
<1>3. new \in kept' /\ new.obj = o /\ new.point > sync' /\ new \in [obj : Objects, point : 1..(sync + 1)]
  BY <1>1, <1>2
<1>4. TypeOK'
  <2>1. Submission' = Submission
    BY <1>1 DEF Submission
  <2>2. kept' \subseteq [obj : Objects, point : 1..(sync' + 1)] /\ held' \subseteq Objects \ unborn
    BY <1>1, <1>2, <1>3 DEF TypeOK
  <2> QED  BY <1>1, <1>2, <2>1, <2>2 DEF TypeOK
<1> HIDE DEF new
<1>5. PointsAscend'
  BY <1>1 DEF IInv, PointsAscend
<1>6. \A i \in DOMAIN queue : KeptBeyond(o, i)' /\ \A x : KeptBeyond(x, i) => KeptBeyond(x, i)'
  BY <1>1, <1>3 DEF KeptBeyond
<1>7. UsesAreKept'
  <2> SUFFICES ASSUME NEW i \in DOMAIN queue
               PROVE  IF queue'[i].kind = "factory"
                        THEN queue'[i].uses \subseteq making' /\ factory' = "flushing"
                        ELSE \A x \in queue'[i].uses : x \in held' \/ KeptBeyond(x, i)'
    BY <1>1 DEF UsesAreKept
  <2> QED  BY <1>1, <1>6 DEF IInv, UsesAreKept
<1>8. FrameIsKept'
  <2> SUFFICES ASSUME NEW x \in frame, x \notin held'
               PROVE  \E ref \in kept' : ref.obj = x /\ ref.point > sync'
    BY <1>1 DEF FrameIsKept
  <2>1. CASE x = o
    BY <1>3, <2>1
  <2>2. CASE x # o
    BY <1>1, <2>2 DEF IInv, FrameIsKept
  <2> QED  BY <2>1, <2>2
<1> QED  BY <1>4, <1>5, <1>7, <1>8 DEF IInv

(* The sweep releases nothing that is kept for a point in the queue or for *)
(* one that was not added.                                                 *)
LEMMA SweepInv == IInv /\ Sweep => IInv'
<1> SUFFICES ASSUME IInv, Sweep PROVE IInv'
  OBVIOUS
<1>1. /\ queue' = queue /\ unborn' = unborn /\ held' = held /\ making' = making /\ factory' = factory
      /\ frame' = frame /\ recording' = recording /\ sync' = sync /\ completed' = completed
      /\ notified' = notified /\ polling' = "loop"
      /\ kept' = {ref \in kept : ref.point > completed}
  BY DEF Sweep, SweepUpTo
<1>2. /\ TypeOK /\ sync \in Nat /\ completed \in Nat /\ completed <= sync
      /\ \A ref \in kept : ref.point \in Nat
  BY TypeFacts DEF IInv
<1>3. TypeOK'
  BY <1>1, <1>2 DEF TypeOK, Submission
<1>4. PointsAscend'
  BY <1>1 DEF IInv, PointsAscend
<1>5. ASSUME NEW x, NEW i \in DOMAIN queue, KeptBeyond(x, i) PROVE KeptBeyond(x, i)'
  <2>1. PICK ref \in kept : /\ ref.obj = x
                            /\ ref.point > sync \/ \E k \in DOMAIN queue : i <= k /\ queue[k].point = ref.point
    BY <1>5 DEF KeptBeyond
  <2>2. ref.point > completed
    <3>1. CASE ref.point > sync
      BY <1>2, <3>1
    <3>2. CASE \E k \in DOMAIN queue : i <= k /\ queue[k].point = ref.point
      <4>1. ref.point # 0
        BY <1>2 DEF TypeOK
      <4> QED  BY <3>2, <4>1 DEF IInv, PointsAscend
    <3> QED  BY <2>1, <3>1, <3>2
  <2> QED  BY <1>1, <2>1, <2>2 DEF KeptBeyond
<1>6. UsesAreKept'
  <2> SUFFICES ASSUME NEW i \in DOMAIN queue
               PROVE  IF queue'[i].kind = "factory"
                        THEN queue'[i].uses \subseteq making' /\ factory' = "flushing"
                        ELSE \A x \in queue'[i].uses : x \in held' \/ KeptBeyond(x, i)'
    BY <1>1 DEF UsesAreKept
  <2> QED  BY <1>1, <1>5 DEF IInv, UsesAreKept
<1>7. FrameIsKept'
  <2> SUFFICES ASSUME NEW x \in frame, x \notin held
               PROVE  \E ref \in kept' : ref.obj = x /\ ref.point > sync'
    BY <1>1 DEF FrameIsKept
  <2>1. PICK ref \in kept : ref.obj = x /\ ref.point > sync
    BY DEF IInv, FrameIsKept
  <2>2. ref.point > completed
    BY <1>2, <2>1
  <2> QED  BY <1>1, <2>1, <2>2
<1> QED  BY <1>3, <1>4, <1>6, <1>7 DEF IInv

LEMMA DrawInv == ASSUME IInv, NEW o \in Objects, Draw(o) PROVE IInv'
<1>1. /\ queue' = queue /\ unborn' = unborn /\ held' = held /\ kept' = kept /\ making' = making
      /\ factory' = factory /\ recording' = recording /\ sync' = sync /\ completed' = completed
      /\ notified' = notified /\ polling' = polling /\ frame' = frame \cup {o} /\ o \in held
  BY DEF Draw
<1>2. TypeOK'
  BY <1>1 DEF IInv, TypeOK, Submission
<1>3. FrameIsKept'
  BY <1>1 DEF IInv, FrameIsKept
<1> QED  BY <1>1, <1>2, <1>3 DEF IInv, PointsAscend, UsesAreKept, KeptBeyond

LEMMA CreateResourceInv == ASSUME IInv, NEW o \in Objects, CreateResource(o) PROVE IInv'
<1>1. /\ queue' = queue /\ kept' = kept /\ factory' = factory /\ frame' = frame /\ recording' = recording
      /\ sync' = sync /\ completed' = completed /\ notified' = notified /\ polling' = polling
      /\ unborn' = unborn \ {o} /\ held' = held \cup {o} /\ making' = making \cup {o} /\ o \in unborn
  BY DEF CreateResource
<1>2. TypeOK'
  BY <1>1 DEF IInv, TypeOK, Submission
<1>3. UsesAreKept'
  <2> SUFFICES ASSUME NEW i \in DOMAIN queue
               PROVE  IF queue'[i].kind = "factory"
                        THEN queue'[i].uses \subseteq making' /\ factory' = "flushing"
                        ELSE \A x \in queue'[i].uses : x \in held' \/ KeptBeyond(x, i)'
    BY <1>1 DEF UsesAreKept
  <2>1. \A x : KeptBeyond(x, i) => KeptBeyond(x, i)'
    BY <1>1 DEF KeptBeyond
  <2> QED  BY <1>1, <2>1 DEF IInv, UsesAreKept
<1> QED  BY <1>1, <1>2, <1>3 DEF IInv, PointsAscend, FrameIsKept

LEMMA CloseFactoryInv == IInv /\ CloseFactory => IInv'
<1> SUFFICES ASSUME IInv, CloseFactory PROVE IInv'
  OBVIOUS
<1>1. /\ queue' = queue /\ unborn' = unborn /\ held' = held /\ kept' = kept /\ making' = {}
      /\ factory' = "closed" /\ frame' = frame /\ recording' = recording /\ sync' = sync
      /\ completed' = completed /\ notified' = notified /\ polling' = polling
      /\ \A i \in DOMAIN queue : queue[i].kind # "factory"
  BY DEF CloseFactory
<1>2. TypeOK'
  BY <1>1 DEF IInv, TypeOK, Submission
<1>3. UsesAreKept'
  BY <1>1 DEF IInv, UsesAreKept, KeptBeyond
<1> QED  BY <1>1, <1>2, <1>3 DEF IInv, PointsAscend, FrameIsKept

LEMMA DestroyInv == IInv /\ Destroy => IInv'
<1> SUFFICES ASSUME IInv, Destroy PROVE IInv'
  OBVIOUS
<1>1. /\ queue' = queue /\ unborn' = unborn /\ held' = held /\ kept' = {} /\ making' = making
      /\ factory' = factory /\ frame' = {} /\ recording' = FALSE /\ sync' = sync
      /\ completed' = completed /\ notified' = notified /\ polling' = "gone" /\ queue = <<>>
  BY DEF Destroy
<1>2. TypeOK'
  BY <1>1 DEF IInv, TypeOK, Submission
<1>3. DOMAIN queue = {}
  BY <1>1
<1> QED  BY <1>1, <1>2, <1>3 DEF IInv, PointsAscend, UsesAreKept, FrameIsKept

(* The actions that only move the factory, the frame or the poll on.       *)
LEMMA OtherInv ==
  ASSUME IInv, OpenFactory \/ NewFrame \/ Poll \/ PollLeave \/ PollNotify \/ UNCHANGED vars
  PROVE  IInv'
<1>1. /\ queue' = queue /\ unborn' = unborn /\ held' = held /\ kept' = kept /\ making' = making
      /\ sync' = sync /\ completed' = completed
  BY DEF OpenFactory, NewFrame, Poll, PollLeave, PollNotify, vars
<1>2. frame' = frame \/ frame' = {}
  BY DEF OpenFactory, NewFrame, Poll, PollLeave, PollNotify, vars
<1>3. factory' = factory \/ (factory = "closed" /\ factory' = "open")
  BY DEF OpenFactory, NewFrame, Poll, PollLeave, PollNotify, vars
<1>4. TypeOK /\ sync \in Nat /\ completed \in Nat /\ completed <= sync
  BY TypeFacts DEF IInv
<1>5. TypeOK'
  <2>1. recording' = recording \/ recording' = TRUE
    BY DEF OpenFactory, NewFrame, Poll, PollLeave, PollNotify, vars
  <2>2. recording' \in BOOLEAN
    BY <1>4, <2>1, Zenon DEF TypeOK
  <2>3. polling' = polling \/ polling' = "loop" \/ polling' = "no" \/ polling' = "sweep"
    BY DEF OpenFactory, NewFrame, Poll, PollLeave, PollNotify, vars
  <2>4. polling' \in {"no", "loop", "sweep", "gone"}
    BY <1>4, <2>3 DEF TypeOK
  <2>5. notified' = notified \/ notified' = completed
    BY DEF OpenFactory, NewFrame, Poll, PollLeave, PollNotify, vars
  <2>6. notified' \in 0..completed
    BY <1>4, <2>5 DEF TypeOK
  <2> QED  BY <1>1, <1>2, <1>3, <1>4, <2>2, <2>4, <2>6 DEF TypeOK, Submission
<1>6. UsesAreKept'
  BY <1>1, <1>3 DEF IInv, UsesAreKept, KeptBeyond
<1> QED  BY <1>1, <1>2, <1>5, <1>6 DEF IInv, PointsAscend, FrameIsKept

LEMMA NextInv == IInv /\ [Next]_vars => IInv'
<1> SUFFICES ASSUME IInv, [Next]_vars PROVE IInv'
  OBVIOUS
<1>1. CASE GpuStep
  BY <1>1, GpuStepInv
<1>2. CASE FlushToGpu
  BY <1>2, FlushToGpuInv
<1>3. CASE CloseFactory
  BY <1>3, CloseFactoryInv
<1>4. ASSUME NEW o \in Objects, CreateResource(o) \/ Draw(o) \/ RayCast(o) \/ DeferRelease(o)
      PROVE  IInv'
  BY <1>4, CreateResourceInv, DrawInv, RayCastInv, DeferReleaseInv
<1>5. CASE Present
  BY <1>5, PresentInv
<1>6. CASE Sweep
  BY <1>6, SweepInv
<1>7. CASE Destroy
  BY <1>7, DestroyInv
<1>8. CASE OpenFactory \/ NewFrame \/ Poll \/ PollLeave \/ PollNotify \/ UNCHANGED vars
  BY <1>8, OtherInv
<1> QED  BY <1>1, <1>2, <1>3, <1>4, <1>5, <1>6, <1>7, <1>8 DEF Next

-----------------------------------------------------------------------------
(* The invariant holds in every reachable state.                           *)
THEOREM Invariance == Spec => []IInv
<1>1. Init => IInv
  BY InitInv
<1>2. IInv /\ [Next]_vars => IInv'
  BY NextInv
<1> QED  BY <1>1, <1>2, PTL DEF Spec

(* The fence never runs ahead of what was added, the notification never    *)
(* ahead of the fence, and only resources that exist are held or used.     *)
THEOREM TypeCorrect == Spec => []TypeOK
<1>1. IInv => TypeOK
  BY DEF IInv
<1> QED  BY <1>1, Invariance, PTL

(* No command list, recorded or submitted, uses a resource whose memory    *)
(* was released.                                                           *)
THEOREM DeferredUntilUnused == Spec => []AliveWhileUsed
<1>1. IInv => AliveWhileUsed
  <2> SUFFICES ASSUME IInv PROVE AliveWhileUsed
    OBVIOUS
  <2>1. ASSUME NEW i \in DOMAIN queue, NEW o \in queue[i].uses PROVE o \notin Freed
    <3>1. CASE queue[i].kind = "factory"
      BY <2>1, <3>1 DEF IInv, UsesAreKept, Freed
    <3>2. CASE queue[i].kind # "factory"
      BY <2>1, <3>2 DEF IInv, UsesAreKept, KeptBeyond, Freed
    <3> QED  BY <3>1, <3>2
  <2>2. ASSUME NEW o \in frame PROVE o \notin Freed
    BY <2>2 DEF IInv, FrameIsKept, Freed
  <2> QED  BY <2>1, <2>2 DEF AliveWhileUsed
<1> QED  BY <1>1, Invariance, PTL

(* When Poll returns, nothing is kept for a sync point it has notified.    *)
SweptInv == IInv /\ SweptWhenNotified /\ (polling = "loop" => \A ref \in kept : ref.point > notified)

THEOREM NotificationNotLost == Spec => []SweptWhenNotified
<1>1. Init => SweptInv
  <2>1. Init => IInv
    BY InitInv
  <2> QED  BY <2>1 DEF Init, SweptInv, SweptWhenNotified
<1>2. SweptInv /\ [Next]_vars => SweptInv'
  <2> SUFFICES ASSUME SweptInv, [Next]_vars PROVE SweptInv'
    OBVIOUS
  <2>1. /\ IInv /\ IInv' /\ sync \in Nat /\ completed \in Nat /\ notified \in Nat /\ notified <= completed
        /\ completed <= sync /\ \A ref \in kept : ref.point \in Nat
    BY NextInv, TypeFacts DEF SweptInv, IInv
  <2>2. CASE kept' = kept /\ notified' = notified
             /\ (polling' = polling \/ (polling \in {"no", "loop"} /\ polling' \in {"no", "loop"}))
    BY <2>1, <2>2 DEF SweptInv, SweptWhenNotified
  <2>3. CASE \E o \in Objects : DeferRelease(o)
    <3>1. PICK o \in Objects : DeferRelease(o)
      BY <2>3
    <3>2. /\ kept' = kept \cup {[obj |-> o, point |-> sync + 1]} /\ notified' = notified
          /\ polling = "no" /\ polling' = "no"
      BY <3>1 DEF DeferRelease, DropAt
    <3>3. \A ref \in kept' : ref.point > notified
      BY <2>1, <3>2 DEF SweptInv, SweptWhenNotified
    <3> QED  BY <2>1, <3>2, <3>3 DEF SweptInv, SweptWhenNotified
  <2>4. CASE PollNotify
    BY <2>1, <2>4 DEF PollNotify, SweptInv, SweptWhenNotified
  <2>5. CASE Sweep
    <3>1. kept' = {ref \in kept : ref.point > completed} /\ notified' = notified /\ polling' = "loop"
      BY <2>5 DEF Sweep, SweepUpTo
    <3>2. \A ref \in kept' : ref.point > notified
      BY <2>1, <3>1
    <3> QED  BY <2>1, <3>1, <3>2 DEF SweptInv, SweptWhenNotified
  <2>6. CASE Destroy
    BY <2>1, <2>6 DEF Destroy, SweptInv, SweptWhenNotified
  <2>7. CASE \/ GpuStep \/ OpenFactory \/ FlushToGpu \/ CloseFactory \/ NewFrame \/ Present
             \/ Poll \/ PollLeave \/ UNCHANGED vars
             \/ \E o \in Objects : CreateResource(o) \/ Draw(o) \/ RayCast(o)
    <3>1. /\ kept' = kept /\ notified' = notified
          /\ polling' = polling \/ (polling \in {"no", "loop"} /\ polling' \in {"no", "loop"})
      BY <2>7 DEF GpuStep, OpenFactory, FlushToGpu, CloseFactory, NewFrame, Present, Poll, PollLeave,
                  CreateResource, Draw, RayCast, vars
    <3> QED  BY <2>2, <3>1
  <2> QED  BY <2>3, <2>4, <2>5, <2>6, <2>7 DEF Next
<1>3. SweptInv => SweptWhenNotified
  BY DEF SweptInv
<1> QED  BY <1>1, <1>2, <1>3, PTL DEF Spec

=============================================================================
