--------------------------- MODULE GpuDescriptorHeap ---------------------------
(***************************************************************************)
(* The shader-visible descriptor heap of view3d-12 (resource/              *)
(* gpu_descriptor_heap.h): a ring of descriptors, with the position of     *)
(* every sync point remembered.  Tables of descriptors are copied in at    *)
(* the head, each in one piece; the tail follows the sync points the GPU   *)
(* has reached.                                                            *)
(*                                                                         *)
(* The handle Add returns is used by commands that the GPU finishes with   *)
(* the next sync point: inUse remembers those handles until then.          *)
(***************************************************************************)
EXTENDS Integers, Sequences

CONSTANTS
  Size,         \* m_size
  Descriptors,  \* what a slot can hold
  Tables,       \* sequences of descriptors that are added, through the lookup
  MaxSync       \* bound: sync points added

ASSUME SizeAssumption == Size \in Nat \ {0}
ASSUME MaxSyncAssumption == MaxSync \in Nat
ASSUME TablesAssumption == Tables \subseteq Seq(Descriptors) \ {<<>>}

VARIABLES
  heap,         \* m_heap: the slots
  head,         \* m_head
  marks,        \* m_sync: [point, index] of the sync points, oldest first
  lookup,       \* m_lookup: per table the slot it starts at, or Unknown
  sync,         \* LastAddedSyncPoint of the fence
  completed,    \* CompletedSyncPoint of the fence
  inUse         \* handles of unfinished commands: [at, table, until]

vars == <<heap, head, marks, lookup, sync, completed, inUse>>

Slots == 0..(Size - 1)
Unknown == -1

-----------------------------------------------------------------------------
Init ==
  /\ heap \in [Slots -> Descriptors]
  /\ head = 0
  /\ marks = <<[point |-> 0, index |-> 0]>>
  /\ lookup = [t \in Tables |-> Unknown]
  /\ sync = 0
  /\ completed = 0
  /\ inUse = {}

(* The GPU reaches the next sync point.                                    *)
GpuAdvance ==
  /\ completed < sync
  /\ completed' = completed + 1
  /\ inUse' = {h \in inUse : h.until > completed'}
  /\ UNCHANGED <<heap, head, marks, lookup, sync>>

-----------------------------------------------------------------------------
(* Drops a mark as soon as the GPU has reached it.                         *)
PurgedTooFar(ms) ==
  {SubSeq(ms, n + 1, Len(ms)) : n \in {k \in 0..(Len(ms) - 1) :
     /\ \A i \in 1..k : ms[i].point <= completed
     /\ k = Len(ms) - 1 \/ ms[k + 1].point > completed}}

(* PurgeCompleted drops the marks whose successor the GPU has reached:     *)
(* what is left of a sequence of marks, as a set of one.                   *)
Purged(ms) ==
  {SubSeq(ms, n + 1, Len(ms)) : n \in {k \in 0..(Len(ms) - 1) :
     /\ \A i \in 1..k : ms[i + 1].point <= completed
     /\ k = Len(ms) - 1 \/ ms[k + 2].point > completed}}

(* AddSyncPoint, with the handler of SyncPointAdded.                       *)
AddSyncPoint ==
  /\ sync < MaxSync
  /\ sync' = sync + 1
  /\ marks' \in Purged(Append(marks, [point |-> sync + 1, index |-> head]))
  /\ lookup' = [t \in Tables |-> Unknown]
  /\ UNCHANGED <<heap, head, completed, inUse>>

-----------------------------------------------------------------------------
(* Wrap, of a number at most one turn off.                                 *)
Wrap(i) == IF i < 0 THEN i + Size ELSE IF i >= Size THEN i - Size ELSE i

(* The slot before the oldest mark.                                        *)
TailSlot(ms) == Wrap(ms[1].index - 1)

(* Forgets that the tail may be before the head.                           *)
FreeAhead(ms, at) == TailSlot(ms) - at

Free(ms, at) == Wrap(TailSlot(ms) - at)

(* EnsureCapacity rolls the head back to 0 when the table does not fit     *)
(* before the end of the heap.                                             *)
MustRoll(n) == Size - head < n

MayRoll(ms) == Free(ms, head) >= Size - head

Start(n) == IF MustRoll(n) THEN 0 ELSE head

HasRoom(ms, n) == (MustRoll(n) => MayRoll(ms)) /\ Free(ms, Start(n)) >= n

Write(at, table) ==
  heap' = [i \in Slots |-> IF i \in at..(at + Len(table) - 1) THEN table[i - at + 1] ELSE heap[i]]

Uses(at, table) == inUse' = inUse \cup {[at |-> at, table |-> table, until |-> sync + 1]}

Place(table) ==
  /\ \E ms \in Purged(marks) : HasRoom(ms, Len(table)) /\ marks' = ms
  /\ Write(Start(Len(table)), table)
  /\ Uses(Start(Len(table)), table)
  /\ head' = Wrap(Start(Len(table)) + Len(table))

(* Add of a table: a table added since the last sync point is found.       *)
AddTable(table) ==
  /\ lookup[table] = Unknown
  /\ Place(table)
  /\ lookup' = [lookup EXCEPT ![table] = Start(Len(table))]
  /\ UNCHANGED <<sync, completed>>

FindTable(table) ==
  /\ lookup[table] # Unknown
  /\ Uses(lookup[table], table)
  /\ UNCHANGED <<heap, head, marks, lookup, sync, completed>>

(* Add of a view made for one use: one descriptor, no lookup.              *)
AddView(des) ==
  /\ Place(<<des>>)
  /\ UNCHANGED <<lookup, sync, completed>>

(* "The GPU descriptor heap is full": Add throws, with the completed marks *)
(* dropped and the head rolled back if that is as far as it got.           *)
Overflow(n) ==
  \E ms \in Purged(marks) :
    /\ ~HasRoom(ms, n)
    /\ marks' = ms
    /\ head' = IF MayRoll(ms) THEN Start(n) ELSE head
    /\ UNCHANGED <<heap, lookup, sync, completed, inUse>>

AddTableThrows(table) == lookup[table] = Unknown /\ Overflow(Len(table))

AddViewThrows == Overflow(1)

-----------------------------------------------------------------------------
Next ==
  \/ GpuAdvance
  \/ AddSyncPoint
  \/ \E table \in Tables : AddTable(table) \/ FindTable(table) \/ AddTableThrows(table)
  \/ \E des \in Descriptors : AddView(des)
  \/ AddViewThrows

Spec == Init /\ [][Next]_vars

-----------------------------------------------------------------------------
TypeOK ==
  /\ heap \in [Slots -> Descriptors]
  /\ head \in Slots
  /\ marks \in Seq([point : 0..sync, index : Slots]) \ {<<>>}
  /\ lookup \in [Tables -> Slots \cup {Unknown}]
  /\ sync \in 0..MaxSync
  /\ completed \in 0..sync
  /\ inUse \subseteq [at : Slots, table : Seq(Descriptors) \ {<<>>}, until : (completed + 1)..(sync + 1)]

(* The slots behind a handle hold the table it was returned for until the  *)
(* GPU has finished with the commands that use it ("Anything between the   *)
(* last completed sync point and 'm_head' is still in use by the GPU").    *)
Intact ==
  \A h \in inUse : \A i \in 1..Len(h.table) :
    h.at + i - 1 \in Slots /\ heap[h.at + i - 1] = h.table[i]

(* A heap none of whose slots is in use takes a table of up to half its    *)
(* size, wherever the head is.                                             *)
IdleHasRoom ==
  head = marks[1].index => \A n \in 1..(Size \div 2) : HasRoom(marks, n)

-----------------------------------------------------------------------------
(* Why Intact holds.  The distance of a slot from the oldest mark orders   *)
(* the ring: marks come in order, each handle lies behind the marks of     *)
(* earlier batches and before the head.  A purge moves the origin to a     *)
(* mark that every handle still in use is behind.                          *)
Dist(f, i) == Wrap(i - f)

(* What Add may return: the handles in use and those in the lookup.        *)
Found == {[at |-> lookup[t], table |-> t, until |-> sync + 1] : t \in {u \in Tables : lookup[u] # Unknown}}

Handles == inUse \cup Found

MarksInOrder(ms, hd) ==
  \A k \in DOMAIN ms :
    /\ Dist(ms[1].index, ms[k].index) <= Dist(ms[1].index, hd)
    /\ \A i \in 1..k : Dist(ms[1].index, ms[i].index) <= Dist(ms[1].index, ms[k].index)

Behind(ms, hd, h) ==
  /\ h.at + Len(h.table) <= Size
  /\ Dist(ms[1].index, h.at) + Len(h.table) <= Dist(ms[1].index, hd)
  /\ \A k \in DOMAIN ms : ms[k].point < h.until => Dist(ms[1].index, ms[k].index) <= Dist(ms[1].index, h.at)

Holds(hp, h) == \A i \in 1..Len(h.table) : hp[h.at + i - 1] = h.table[i]

(* The inductive invariant.                                                *)
IInv ==
  /\ TypeOK
  /\ MarksInOrder(marks, head)
  /\ \A k \in DOMAIN marks : marks[k].point <= sync
  /\ \A h \in Handles : Behind(marks, head, h) /\ Holds(heap, h)

=============================================================================
