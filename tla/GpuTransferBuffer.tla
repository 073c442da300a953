--------------------------- MODULE GpuTransferBuffer ---------------------------
(***************************************************************************)
(* The upload and readback buffers of view3d-12 (resource/                 *)
(* gpu_transfer_buffer.h): a deque of blocks of memory the CPU and the GPU *)
(* share.  Space is consumed from the block at the back; a block at the    *)
(* front goes to the free list, to be used again, when the fence reaches   *)
(* its sync point and nobody holds an allocation in it.                    *)
(*                                                                         *)
(* What the CPU puts in a block is used by commands that the GPU finishes  *)
(* with the next sync point: lastUse remembers that number per block.      *)
(***************************************************************************)
EXTENDS Integers, Sequences, FiniteSets

CONSTANTS
  Items,        \* things Add may be asked to share (might_reuse)
  BlockSize,    \* m_blk_size
  Sizes,        \* sizes asked for
  Alignments,   \* alignments asked for
  MaxSync,      \* bound: sync points added
  MaxBlocks,    \* bound: blocks created
  MaxHeld       \* bound: allocations held at a time

ASSUME SizesAssumption ==
  /\ BlockSize \in Nat \ {0}
  /\ Sizes \subseteq Nat \ {0}
  /\ Alignments \subseteq Nat \ {0}
  /\ MaxSync \in Nat

VARIABLES
  used,         \* m_used: blocks [id, cap, size, stamp], front first
  free,         \* m_free: the blocks to recycle
  held,         \* allocations somebody holds: [id, lo, hi]
  lookup,       \* m_lookup: per item None or [id, lo]
  sync,         \* LastAddedSyncPoint of the fence
  completed,    \* CompletedSyncPoint of the fence
  lastUse,      \* per block created: the sync point of its last use
  phase         \* "alive", "closing", "destroyed" or "terminated"

vars == <<used, free, held, lookup, sync, completed, lastUse, phase>>

None == [id |-> 0, lo |-> 0]

Front == Head(used)
Back(u) == u[Len(u)]

PadTo(n, alignment) == ((n + alignment - 1) \div alignment) * alignment

(* m_ref_count of a block.                                                 *)
Referenced(id) == \E a \in held : a.id = id

-----------------------------------------------------------------------------
Init ==
  /\ used = <<>>
  /\ free = {}
  /\ held = {}
  /\ lookup = [x \in Items |-> None]
  /\ sync = 0
  /\ completed = 0
  /\ lastUse = <<>>
  /\ phase = "alive"

(* The GPU reaches the next sync point.                                    *)
GpuAdvance ==
  /\ completed < sync
  /\ completed' = completed + 1
  /\ UNCHANGED <<used, free, held, lookup, sync, lastUse, phase>>

-----------------------------------------------------------------------------
(* Leaves out the reference count.                                         *)
PurgeableUnref(i) == used[i].stamp <= completed /\ i < Len(used)

Purgeable(i) ==
  /\ used[i].stamp <= completed
  /\ i < Len(used)
  /\ ~Referenced(used[i].id)

(* PurgeCompleted(false) takes blocks from the front while it can: how     *)
(* many, as a set of one number.                                           *)
PurgeCounts ==
  {n \in 0..(Len(used) - 1) : ~Purgeable(n + 1) /\ \A i \in 1..n : Purgeable(i)}

Recycled(b) == [b EXCEPT !.size = 0, !.stamp = completed]

Stamped(u, point) == [u EXCEPT ![Len(u)].stamp = point]

ForgetLookup == lookup' = [x \in Items |-> None]

(* AddSyncPoint, with the handler of SyncPointAdded.                       *)
AddSyncPointWith(forget) ==
  /\ phase = "alive"
  /\ sync < MaxSync
  /\ sync' = sync + 1
  /\ IF used = <<>>
       THEN UNCHANGED <<used, free, lookup>>
       ELSE /\ \E n \in PurgeCounts :
                 /\ used' = Stamped(SubSeq(used, n + 1, Len(used)), sync + 1)
                 /\ free' = free \cup {Recycled(used[i]) : i \in 1..n}
            /\ forget
  /\ UNCHANGED <<held, completed, lastUse, phase>>

(* Remembers the addresses of the last batch.                              *)
AddSyncPointKeep == AddSyncPointWith(UNCHANGED lookup)

AddSyncPoint == AddSyncPointWith(ForgetLookup)

-----------------------------------------------------------------------------
(* Forgets that the start will be aligned.                                 *)
FitsUnpadded(b, size, alignment) == b.size + size <= b.cap

Fits(b, size, alignment) == PadTo(b.size, alignment) + size <= b.cap

Recyclable(size) == {b \in free : b.cap >= size}

NewBlock(size) ==
  [id |-> Len(lastUse) + 1, cap |-> IF size > BlockSize THEN size ELSE BlockSize,
   size |-> 0, stamp |-> sync]

Restamp(b) == [b EXCEPT !.stamp = sync]

(* What m_used and m_free may be once there is room at the back.           *)
EnsureCapacity(size, alignment) ==
  IF used # <<>> /\ Fits(Back(used), size, alignment)
    THEN {[used |-> used, free |-> free, created |-> 0]}
    ELSE IF Recyclable(size) # {}
      THEN {[used |-> Append(used, Restamp(b)), free |-> free \ {b}, created |-> 0] : b \in Recyclable(size)}
      ELSE {[used |-> Append(used, NewBlock(size)), free |-> free, created |-> 1]}

(* Space is consumed from the block at the back of u, and used until the   *)
(* next sync point.                                                        *)
Consume(r, consumed) ==
  LET u == r.used
      uses == IF r.created = 1 THEN Append(lastUse, 0) ELSE lastUse
  IN /\ used' = [u EXCEPT ![Len(u)].size = consumed]
     /\ free' = r.free
     /\ lastUse' = [uses EXCEPT ![Back(u).id] = sync + 1]

Start(r, alignment) == PadTo(Back(r.used).size, alignment)

Take(r, size, alignment) == Consume(r, Start(r, alignment) + size)

Room(size, alignment) == {r \in EnsureCapacity(size, alignment) : Len(lastUse) + r.created <= MaxBlocks}

(* Alloc: the caller keeps a reference to the allocation.                  *)
Alloc(size, alignment) ==
  /\ phase = "alive"
  /\ Cardinality(held) < MaxHeld
  /\ \E r \in Room(size, alignment) :
       /\ Take(r, size, alignment)
       /\ held' = held \cup {[id |-> Back(r.used).id, lo |-> Start(r, alignment), hi |-> Start(r, alignment) + size]}
  /\ UNCHANGED <<lookup, sync, completed, phase>>

Release(a) ==
  /\ phase = "alive"
  /\ held' = held \ {a}
  /\ UNCHANGED <<used, free, lookup, sync, completed, lastUse, phase>>

(* Add: the allocation is released on return; an item that might be used   *)
(* again is looked up first, and remembered.                               *)
AddOnce(size, alignment) ==
  /\ phase = "alive"
  /\ \E r \in Room(size, alignment) : Take(r, size, alignment)
  /\ UNCHANGED <<held, lookup, sync, completed, phase>>

AddShared(x, size, alignment) ==
  /\ phase = "alive"
  /\ lookup[x] = None
  /\ \E r \in Room(size, alignment) :
       /\ Take(r, size, alignment)
       /\ lookup' = [lookup EXCEPT ![x] = [id |-> Back(r.used).id, lo |-> Start(r, alignment)]]
  /\ UNCHANGED <<held, sync, completed, phase>>

AddFound(x) ==
  /\ phase = "alive"
  /\ lookup[x] # None
  /\ lastUse' = [lastUse EXCEPT ![lookup[x].id] = sync + 1]
  /\ UNCHANGED <<used, free, held, lookup, sync, completed, phase>>

-----------------------------------------------------------------------------
(* The destructor waits for the sync point of the block at the front, then *)
(* purges: PurgeCompleted(true) takes every block that is complete, and    *)
(* throws out of the destructor at one that is still referenced.           *)
Close ==
  /\ phase = "alive"
  /\ phase' = "closing"
  /\ UNCHANGED <<used, free, held, lookup, sync, completed, lastUse>>

(* Waits for the front block only and drops the others.                    *)
ShutdownPurgeAll ==
  /\ phase = "closing" /\ used # <<>>
  /\ Front.stamp <= completed
  /\ used' = <<>> /\ free' = free \cup {Recycled(used[i]) : i \in DOMAIN used}
  /\ UNCHANGED <<held, lookup, sync, completed, lastUse, phase>>

ShutdownPurge ==
  /\ phase = "closing" /\ used # <<>>
  /\ Front.stamp <= completed
  /\ IF Referenced(Front.id)
       THEN phase' = "terminated" /\ UNCHANGED <<used, free>>
       ELSE used' = Tail(used) /\ free' = free \cup {Recycled(Front)} /\ UNCHANGED phase
  /\ UNCHANGED <<held, lookup, sync, completed, lastUse>>

(* The resources of the blocks in the free list are released.              *)
Destroyed ==
  /\ phase = "closing" /\ used = <<>>
  /\ phase' = "destroyed"
  /\ free' = {}
  /\ UNCHANGED <<used, held, lookup, sync, completed, lastUse>>

-----------------------------------------------------------------------------
Next ==
  \/ GpuAdvance
  \/ AddSyncPoint
  \/ \E size \in Sizes, alignment \in Alignments :
       Alloc(size, alignment) \/ AddOnce(size, alignment) \/ \E x \in Items : AddShared(x, size, alignment)
  \/ \E a \in held : Release(a)
  \/ \E x \in Items : AddFound(x)
  \/ Close \/ ShutdownPurge \/ Destroyed

Spec == Init /\ [][Next]_vars

-----------------------------------------------------------------------------
Block == [id : DOMAIN lastUse, cap : Nat, size : Nat, stamp : 0..sync]

TypeOK ==
  /\ used \in Seq(Block)
  /\ free \subseteq Block
  /\ held \subseteq [id : DOMAIN lastUse, lo : Nat, hi : Nat]
  /\ lookup \in [Items -> [id : DOMAIN lastUse, lo : Nat] \cup {None}]
  /\ sync \in 0..MaxSync
  /\ completed \in 0..sync
  /\ lastUse \in Seq(1..(MaxSync + 1))
  /\ phase \in {"alive", "closing", "destroyed", "terminated"}

(* No block is in both lists or twice in one, and none is lost while the   *)
(* buffer lives; each stays within its capacity.                           *)
OnePlace ==
  /\ \A i, k \in DOMAIN used : used[i].id = used[k].id => i = k
  /\ \A i \in DOMAIN used : used[i].size <= used[i].cap /\ \A b \in free : b.id # used[i].id
  /\ \A b, c \in free : b.id = c.id => b = c
  /\ phase # "destroyed" => Len(used) + Cardinality(free) = Len(lastUse)

(* PurgeCompleted stops at the first block that is not complete: the       *)
(* blocks behind it never complete before it.                              *)
StampsAscend == \A i, k \in DOMAIN used : i < k => used[i].stamp <= used[k].stamp

(* "As long as a reference to the allocation exists then it will stay      *)
(* alive": its block is not in the free list, to be recycled under it, and *)
(* no other allocation overlaps it.                                        *)
HeldStaysAlive ==
  phase # "destroyed" =>
    \A a \in held :
      /\ \E i \in DOMAIN used : used[i].id = a.id /\ a.hi <= used[i].size
      /\ \A c \in held : c.id = a.id /\ c # a => c.hi <= a.lo \/ a.hi <= c.lo

(* An address found in the lookup is in a block that the next purge keeps: *)
(* it was used "since the last sync point".                                *)
LookupIsCurrent ==
  phase = "alive" =>
    \A x \in Items : lookup[x] # None =>
      /\ lastUse[lookup[x].id] = sync + 1
      /\ \E i \in DOMAIN used : used[i].id = lookup[x].id

(* The destructor releases the memory when the GPU has finished with all   *)
(* that was submitted to it.                                               *)
DestroyedWhenIdle ==
  phase = "destroyed" => \A id \in DOMAIN lastUse : lastUse[id] <= sync => lastUse[id] <= completed

(* The block at the back, if there is one, carries the last sync point: so *)
(* the destructor waits for it.                                            *)
BackIsStamped == used # <<>> => Back(used).stamp = sync

(* Memory was used if a block is left, or the GPU is done with all of it.  *)
EmptyMeansDone ==
  /\ used = <<>> => lastUse = <<>> \/ (phase \in {"closing", "destroyed"} /\ sync <= completed)
  /\ phase = "destroyed" => used = <<>>

(* The inductive invariant.                                                *)
IInv == TypeOK /\ StampsAscend /\ LookupIsCurrent /\ BackIsStamped /\ EmptyMeansDone

(* "Blocks that the GPU has finished with and can be recycled."            *)
FreeIsFinished == \A b \in free : lastUse[b.id] <= completed

=============================================================================
