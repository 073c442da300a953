----------------------------- MODULE CmdAllocPool -----------------------------
(***************************************************************************)
(* The pool of command allocators of view3d-12 (utility/cmd_alloc.h) with  *)
(* the clients that draw on it: a window's frame, the resource factory's   *)
(* flush and the ray cast.                                                 *)
(*                                                                         *)
(* An allocator backs the command list recorded with it until the GPU has  *)
(* executed that list.  A fence (GpuSync) numbers the signals put on the   *)
(* queue; the pool hands an allocator out again, and resets it, when the   *)
(* fence it watches has reached the allocator's sync point.  The CPU side  *)
(* is one thread; the GPU executes the queue in order, at its own pace.    *)
(***************************************************************************)
EXTENDS Integers, Sequences, FiniteSets

CONSTANTS
  FrameLists,   \* lists a window resets for every frame
  FlushLists,   \* lists flushed by FlushToGpu, on the factory's pool
  RayLists,     \* lists of ray casts that use the window's pool
  BBCount,      \* buffers of the window's swap chain
  MaxSync       \* bound, per fence: sync points added to it

Lists == FrameLists \cup FlushLists \cup RayLists

(* A pool is known by the fence it watches; the ray cast has a fence of    *)
(* its own and no pool.                                                    *)
Pools == {"window", "factory"}
Fences == Pools \cup {"ray"}

ASSUME MaxSyncAssumption == MaxSync \in [Fences -> Nat]
ASSUME BBCountAssumption == BBCount \in Nat \ {0}
ASSUME ListsAssumption ==
  /\ IsFiniteSet(Lists)
  /\ FrameLists \cap FlushLists = {} /\ RayLists \cap (FrameLists \cup FlushLists) = {}

PoolOf(l) == IF l \in FlushLists THEN "factory" ELSE "window"
Users(p) == {l \in Lists : PoolOf(l) = p}

VARIABLES
  gpu,          \* the command queue: lists and signals not yet executed
  reached,      \* per fence: GetCompletedValue
  sync,         \* per fence: m_sync
  pool,         \* per pool: m_pool, allocators with their m_sync_point
  created,      \* per pool: allocators created so far
  alloc,        \* per list: its m_cmd_allocator, None if it has none
  state,        \* per list: "closed", "open", "executed", "signalled"
  cpu,          \* where the thread is: "idle", "frame", "presented", "flush"
  bbMain,       \* the sync point of the multi-sampled back buffer
  bbPost        \* the sync points of the swap chain's buffers, next first

bbVars == <<bbMain, bbPost>>
vars == <<gpu, reached, sync, pool, created, alloc, state, cpu, bbVars>>

None == [id |-> 0, stamp |-> 0]

(* The allocators of a pool that lists of ls live in, lists the GPU has    *)
(* still to execute.                                                       *)
InFlight(p, ls) ==
  {gpu[i].id : i \in {j \in DOMAIN gpu : gpu[j].kind = "list" /\ gpu[j].list \in ls /\ PoolOf(gpu[j].list) = p}}

-----------------------------------------------------------------------------
Init ==
  /\ gpu = <<>>
  /\ reached = [f \in Fences |-> 0]
  /\ sync = [f \in Fences |-> 0]
  /\ pool = [p \in Pools |-> {}]
  /\ created = [p \in Pools |-> 0]
  /\ alloc = [l \in Lists |-> None]
  /\ state = [l \in Lists |-> "closed"]
  /\ cpu = "idle"
  /\ bbMain = 0
  /\ bbPost = [i \in 1..BBCount |-> 0]

(* The GPU finishes the next item of the queue.                            *)
GpuStep ==
  /\ gpu # <<>>
  /\ gpu' = Tail(gpu)
  /\ IF Head(gpu).kind = "signal"
       THEN reached' = [reached EXCEPT ![Head(gpu).fence] = Head(gpu).value]
       ELSE UNCHANGED reached
  /\ UNCHANGED <<sync, pool, created, alloc, state, cpu, bbVars>>

-----------------------------------------------------------------------------
(* CmdList::Reset(pool.Get()): an allocator whose sync point is reached is *)
(* taken from the pool, a new one is created if there is none; then the    *)
(* list's previous allocator is returned to the pool.                      *)
Return(l) == IF alloc[l] = None THEN {} ELSE {alloc[l]}

(* Takes an allocator of the batch that is still executing.                *)
AvailableNext(p) == {a \in pool[p] : a.stamp <= reached[p] + 1}

Available(p) == {a \in pool[p] : a.stamp <= reached[p]}

Take(l, id, rest) ==
  /\ alloc' = [alloc EXCEPT ![l] = [id |-> id, stamp |-> sync[PoolOf(l)] + 1]]
  /\ pool' = [pool EXCEPT ![PoolOf(l)] = rest \cup Return(l)]
  /\ state' = [state EXCEPT ![l] = "open"]

Create(l) ==
  /\ Available(PoolOf(l)) = {}
  /\ created' = [created EXCEPT ![PoolOf(l)] = @ + 1]
  /\ Take(l, created[PoolOf(l)] + 1, pool[PoolOf(l)])

(* Leaves what it takes in the pool.                                       *)
ResetListCopies(l) ==
  \/ Create(l)
  \/ \E a \in Available(PoolOf(l)) : Take(l, a.id, pool[PoolOf(l)]) /\ UNCHANGED created

ResetList(l) ==
  \/ Create(l)
  \/ \E a \in Available(PoolOf(l)) : Take(l, a.id, pool[PoolOf(l)] \ {a}) /\ UNCHANGED created

(* ExecuteCommandLists                                                     *)
Execute(ls) ==
  /\ \E order \in [1..Cardinality(ls) -> ls] :
       /\ \A l \in ls : \E i \in 1..Cardinality(ls) : order[i] = l
       /\ gpu' = gpu \o [i \in 1..Cardinality(ls) |-> [kind |-> "list", list |-> order[i], id |-> alloc[order[i]].id]]
  /\ state' = [l \in Lists |-> IF l \in ls THEN "executed" ELSE state[l]]

AddSyncPoint(f) ==
  /\ sync[f] < MaxSync[f]
  /\ sync' = [sync EXCEPT ![f] = @ + 1]
  /\ gpu' = Append(gpu, [kind |-> "signal", fence |-> f, value |-> sync'[f]])

(* CmdList::SyncPoint: the allocator may be reused once the point is       *)
(* reached.                                                                *)
SyncPoint(l, point) == alloc' = [alloc EXCEPT ![l].stamp = point]

-----------------------------------------------------------------------------
(* A window's frame *)

(* NewFrame first waits until the GPU has left the back buffers.           *)
NewFrame ==
  /\ FrameLists # {}
  /\ cpu = "idle"
  /\ reached["window"] >= bbMain
  /\ reached["window"] >= Head(bbPost)
  /\ cpu' = "frame"
  /\ state' = [l \in Lists |-> IF l \in FrameLists THEN "closed" ELSE state[l]]
  /\ UNCHANGED <<gpu, reached, sync, pool, created, alloc, bbVars>>

RecordList(l) ==
  /\ cpu = "frame" /\ state[l] = "closed"
  /\ ResetList(l)
  /\ UNCHANGED <<gpu, reached, sync, cpu, bbVars>>

Present ==
  /\ cpu = "frame"
  /\ \A l \in FrameLists : state[l] = "open"
  /\ Execute(FrameLists)
  /\ cpu' = "presented"
  /\ UNCHANGED <<reached, sync, pool, created, alloc, bbVars>>

PresentSignalAs(point) ==
  /\ cpu = "presented"
  /\ AddSyncPoint("window")
  /\ bbMain' = point
  /\ bbPost' = Append(Tail(bbPost), point)
  /\ cpu' = "idle"
  /\ UNCHANGED <<reached, pool, created, alloc, state>>

(* Stamps the back buffers before the signal is added.                     *)
PresentSignalEarly == PresentSignalAs(sync["window"])

PresentSignal == PresentSignalAs(sync["window"] + 1)

(* Resizing the back buffers, or changing the clear colour or the multi-   *)
(* sampling: a sync point between two frames, which is waited for before   *)
(* bb_main, or every back buffer, is replaced.                             *)
FlushWindow ==
  /\ FrameLists # {}
  /\ cpu = "idle"
  /\ AddSyncPoint("window")
  /\ cpu' = "flush"
  /\ UNCHANGED <<reached, pool, created, alloc, state, bbVars>>

FlushWindowWait ==
  /\ cpu = "flush"
  /\ reached["window"] = sync["window"]
  /\ bbMain' = reached["window"]
  /\ bbPost' \in {bbPost, [i \in 1..BBCount |-> reached["window"]]}
  /\ cpu' = "idle"
  /\ UNCHANGED <<gpu, reached, sync, pool, created, alloc, state>>

-----------------------------------------------------------------------------
(* ResourceFactory::FlushToGpu: the list is opened once by the constructor *)
(* and reopened at the end of every flush; waiting for it is optional.     *)
OpenFlushList(l) ==
  /\ state[l] \in {"closed", "signalled"}
  /\ ResetList(l)
  /\ UNCHANGED <<gpu, reached, sync, cpu, bbVars>>

ExecuteFlushList(l) ==
  /\ state[l] = "open"
  /\ Execute({l})
  /\ UNCHANGED <<reached, sync, pool, created, alloc, cpu, bbVars>>

SignalFlushList(l) ==
  /\ state[l] = "executed"
  /\ AddSyncPoint("factory")
  /\ SyncPoint(l, sync'["factory"])
  /\ state' = [state EXCEPT ![l] = "signalled"]
  /\ UNCHANGED <<reached, pool, created, cpu, bbVars>>

-----------------------------------------------------------------------------
(* RenderRayCast::ExecuteAsync and ExecuteImmediate, within a frame or     *)
(* between frames: the allocator comes from the window's pool, the sync    *)
(* point from the ray cast's own fence.                                    *)
Idle(l) == state[l] \in {"closed", "signalled"}

OpenRayCast(l) ==
  /\ cpu \in {"idle", "frame"} /\ Idle(l)
  /\ ResetList(l)
  /\ UNCHANGED <<gpu, reached, sync, cpu, bbVars>>

ExecuteRayCast(l) ==
  /\ state[l] = "open"
  /\ Execute({l})
  /\ UNCHANGED <<reached, sync, pool, created, alloc, cpu, bbVars>>

SignalRayCast(l) ==
  /\ state[l] = "executed"
  /\ AddSyncPoint("ray")
  /\ SyncPoint(l, sync'["ray"])
  /\ state' = [state EXCEPT ![l] = "signalled"]
  /\ UNCHANGED <<reached, pool, created, cpu, bbVars>>

-----------------------------------------------------------------------------
Frame ==
  \/ NewFrame \/ (\E l \in FrameLists : RecordList(l)) \/ Present \/ PresentSignal
  \/ FlushWindow \/ FlushWindowWait

Flush == \E l \in FlushLists : OpenFlushList(l) \/ ExecuteFlushList(l) \/ SignalFlushList(l)

RayCast == \E l \in RayLists : OpenRayCast(l) \/ ExecuteRayCast(l) \/ SignalRayCast(l)

Next == GpuStep \/ Frame \/ Flush \/ RayCast

Spec == Init /\ [][Next]_vars

-----------------------------------------------------------------------------
Allocator(p) == [id : 1..created[p], stamp : Nat]
Item == [kind : {"list"}, list : Lists, id : Nat] \cup [kind : {"signal"}, fence : Fences, value : Nat]

TypeOK ==
  /\ gpu \in Seq(Item)
  /\ \A i \in DOMAIN gpu :
       /\ gpu[i].kind = "list" => gpu[i].id \in 1..created[PoolOf(gpu[i].list)]
       /\ gpu[i].kind = "signal" => gpu[i].value \in 1..sync[gpu[i].fence]
  /\ sync \in [Fences -> Nat] /\ reached \in [Fences -> Nat]
  /\ \A f \in Fences : sync[f] \in 0..MaxSync[f] /\ reached[f] \in 0..sync[f]
  /\ created \in [Pools -> Nat] /\ pool \in [Pools -> SUBSET [id : Nat, stamp : Nat]]
  /\ \A p \in Pools : pool[p] \subseteq Allocator(p)
  /\ alloc \in [Lists -> [id : Nat, stamp : Nat]]
  /\ \A l \in Lists : alloc[l] \in Allocator(PoolOf(l)) \cup {None}
  /\ state \in [Lists -> {"closed", "open", "executed", "signalled"}]
  /\ cpu \in {"idle", "frame", "presented", "flush"}
  /\ bbMain \in 0..sync["window"]
  /\ bbPost \in [1..BBCount -> 0..sync["window"]]

(* The allocator of a list being recorded was reset when recording began;  *)
(* no frame and no flush the GPU has still to execute lives in it          *)
(* ("allocators can't be reset until the GPU has finished with them").     *)
ResetOnlyWhenIdle ==
  \A l \in Lists : state[l] = "open" => alloc[l].id \notin InFlight(PoolOf(l), FrameLists \cup FlushLists)

(* The same promise for the lists of ray casts.                            *)
RayCastKeepsAllocator ==
  \A l \in Lists : state[l] = "open" => alloc[l].id \notin InFlight(PoolOf(l), RayLists)

(* An allocator belongs to one list, or to its pool, never to two holders  *)
(* ("Each allocator can only be recording one command list at a time"),    *)
(* and every allocator ever created is held by somebody.                   *)
OneHolder ==
  \A p \in Pools :
    /\ \A a, b \in pool[p] : a.id = b.id => a = b
    /\ \A l \in Users(p) : \A a \in pool[p] : alloc[l].id # a.id
    /\ \A l, k \in Users(p) : l # k /\ alloc[l] # None => alloc[l].id # alloc[k].id
    /\ \A i \in 1..created[p] : (\E a \in pool[p] : a.id = i) \/ (\E l \in Users(p) : alloc[l].id = i)

(* While a frame is being recorded the GPU is done with every list of the  *)
(* frames before it: they render into the same multi-sampled back buffer   *)
(* ("Ensure the back buffer is available for rendering").                  *)
RenderTargetFree ==
  cpu = "frame" =>
    \A i \in DOMAIN gpu : gpu[i].kind = "list" => gpu[i].list \notin FrameLists

-----------------------------------------------------------------------------
(* What makes the pools safe, as an inductive invariant. *)

(* The numbers a fence is going to reach are in the queue in their order.  *)
SignalsAscend ==
  /\ \A i \in DOMAIN gpu : gpu[i].kind = "signal" => reached[gpu[i].fence] < gpu[i].value
  /\ \A i, j \in DOMAIN gpu :
       /\ i < j /\ gpu[i].kind = "signal" /\ gpu[j].kind = "signal" /\ gpu[i].fence = gpu[j].fence
       => gpu[i].value < gpu[j].value

(* What the lists of a frame are in at each point of the frame.            *)
FrameStates ==
  /\ \A l \in Lists : state[l] # "closed" => alloc[l] # None
  /\ \A l \in FrameLists :
       /\ cpu = "frame" => state[l] \in {"closed", "open"} /\ (state[l] = "open" => alloc[l].stamp = sync["window"] + 1)
       /\ cpu = "presented" => state[l] = "executed" /\ alloc[l].stamp = sync["window"] + 1
       /\ cpu \in {"idle", "flush"} => state[l] \in {"closed", "executed"}

(* A signal behind item i of the queue takes fence f no further than to the*)
(* point.                                                                  *)
SignalBehind(q, i, f, point) ==
  \E j \in DOMAIN q : i < j /\ q[j].kind = "signal" /\ q[j].fence = f /\ q[j].value <= point

(* The list was executed, and its signal is still to come.                 *)
Unsignalled(l) ==
  /\ state[l] = "executed"
  /\ l \in FlushLists \/ (l \in FrameLists /\ cpu = "presented")

(* Wherever the allocator of a frame or a flush in the queue is, it carries*)
(* a point its pool's fence reaches no sooner than behind that list.       *)
StampsCover ==
  \A i \in DOMAIN gpu :
    gpu[i].kind = "list" /\ gpu[i].list \in FrameLists \cup FlushLists =>
      LET p == PoolOf(gpu[i].list) IN
      /\ \A a \in pool[p] : a.id = gpu[i].id => SignalBehind(gpu, i, p, a.stamp)
      /\ \A l \in Lists :
           /\ PoolOf(l) = p /\ alloc[l].id = gpu[i].id
           => /\ state[l] # "open" /\ l \notin RayLists
              /\ SignalBehind(gpu, i, p, alloc[l].stamp) \/ Unsignalled(l)

(* The same of the back buffer of the frames before.                       *)
BackBufferCovers ==
  \A i \in DOMAIN gpu :
    gpu[i].kind = "list" /\ gpu[i].list \in FrameLists /\ cpu # "presented" =>
      cpu # "frame" /\ SignalBehind(gpu, i, "window", bbMain)

IInv ==
  /\ TypeOK /\ SignalsAscend /\ FrameStates
  /\ OneHolder /\ StampsCover /\ BackBufferCovers

=============================================================================
