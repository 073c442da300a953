--------------------------- MODULE DeferredRelease ---------------------------
(***************************************************************************)
(* How view3d-12 releases a GPU resource that the CPU has no more use for: *)
(* Renderer::DeferRelease gives it to a KeepAlive (utility/keep_alive.h)   *)
(* with the next sync point of the renderer's fence, Window::Present adds  *)
(* that sync point behind the lists it executes, and the sweep that        *)
(* GpuSync::Poll starts releases what the GPU has passed.                  *)
(*                                                                         *)
(* A resource is made by a ResourceFactory, whose own KeepAlive holds what *)
(* its command list uses; factories work on any thread, the rest is done   *)
(* on the main thread.  Command lists hold no references.                  *)
(***************************************************************************)
EXTENDS Integers, Sequences

CONSTANTS
  Objects,      \* the resources of models and textures
  MaxSync,      \* bound: sync points added to the renderer's fence
  MaxQueue      \* bound: submissions the GPU has not finished

ASSUME BoundsAssumption == MaxSync \in Nat /\ MaxQueue \in Nat

VARIABLES
  queue,        \* submissions [kind, uses, point]: point 0 if no signal of
                \* the renderer's fence follows the lists
  unborn,       \* resources not created
  held,         \* resources the application has references to
  kept,         \* m_objects of Renderer::m_keep_alive: [obj, point]
  making,       \* what the factory's m_keep_alive holds
  factory,      \* "closed", "open" or "flushing"
  frame,        \* what the lists of the frame recorded use
  recording,    \* a frame was begun and not presented
  sync,         \* m_sync of the renderer's fence
  completed,    \* its CompletedSyncPoint
  notified,     \* its m_notified
  polling       \* "no", "loop" or "sweep": where GpuSync::Poll is; "gone"
                \* when the renderer is destroyed

vars == <<queue, unborn, held, kept, making, factory, frame, recording, sync, completed, notified, polling>>

-----------------------------------------------------------------------------
Init ==
  /\ queue = <<>>
  /\ unborn = Objects
  /\ held = {}
  /\ kept = {}
  /\ making = {}
  /\ factory = "closed"
  /\ frame = {}
  /\ recording = FALSE
  /\ sync = 0
  /\ completed = 0
  /\ notified = 0
  /\ polling = "no"

(* The memory of a resource nobody refers to is released.                  *)
Freed == Objects \ (unborn \cup held \cup making \cup {ref.obj : ref \in kept})

Submit(kind, uses, point) ==
  /\ Len(queue) < MaxQueue
  /\ queue' = Append(queue, [kind |-> kind, uses |-> uses, point |-> point])

(* The GPU executes a submission, and the signal behind it.                *)
GpuStep ==
  /\ queue # <<>>
  /\ queue' = Tail(queue)
  /\ completed' = IF Head(queue).point = 0 THEN completed ELSE Head(queue).point
  /\ UNCHANGED <<unborn, held, kept, making, factory, frame, recording, sync, notified, polling>>

-----------------------------------------------------------------------------
(* The factory *)

OpenFactory ==
  /\ factory = "closed" /\ unborn # {} /\ polling # "gone"
  /\ factory' = "open"
  /\ UNCHANGED <<queue, unborn, held, kept, making, frame, recording, sync, completed, notified, polling>>

(* The commands that initialise the resource go to the factory's list.     *)
CreateResource(o) ==
  /\ factory = "open" /\ o \in unborn
  /\ unborn' = unborn \ {o}
  /\ held' = held \cup {o}
  /\ making' = making \cup {o}
  /\ UNCHANGED <<queue, kept, factory, frame, recording, sync, completed, notified, polling>>

(* The destructor flushes, waits for the GPU, and lets go of what it kept  *)
(* alive.                                                                  *)
FlushToGpu ==
  /\ factory = "open"
  /\ Submit("factory", making, 0)
  /\ factory' = "flushing"
  /\ UNCHANGED <<unborn, held, kept, making, frame, recording, sync, completed, notified, polling>>

CloseFactory ==
  /\ factory = "flushing"
  /\ \A i \in DOMAIN queue : queue[i].kind # "factory"
  /\ factory' = "closed"
  /\ making' = {}
  /\ UNCHANGED <<queue, unborn, held, kept, frame, recording, sync, completed, notified, polling>>

-----------------------------------------------------------------------------
(* The main thread, which does not poll while it renders *)

NewFrame ==
  /\ polling = "no"
  /\ recording' = TRUE
  /\ frame' = {}
  /\ UNCHANGED <<queue, unborn, held, kept, making, factory, sync, completed, notified, polling>>

(* Scene::Render records draw calls for instances the application holds.   *)
Draw(o) ==
  /\ polling = "no" /\ recording
  /\ o \in held
  /\ frame' = frame \cup {o}
  /\ UNCHANGED <<queue, unborn, held, kept, making, factory, recording, sync, completed, notified, polling>>

(* A ray cast is submitted while it is recorded, with a signal of a fence  *)
(* of its own.                                                             *)
RayCast(o) ==
  /\ polling = "no"
  /\ o \in held
  /\ Submit("ray", {o}, 0)
  /\ UNCHANGED <<unborn, held, kept, making, factory, frame, recording, sync, completed, notified, polling>>

(* RefCountZero: the last reference goes, and the resource is deferred.    *)
DropAt(o, point) ==
  /\ polling = "no"
  /\ o \in held
  /\ held' = held \ {o}
  /\ kept' = kept \cup {[obj |-> o, point |-> point]}
  /\ UNCHANGED <<queue, unborn, making, factory, frame, recording, sync, completed, notified, polling>>

(* Defers to the sync point that was added last.                           *)
DeferReleaseLast(o) == DropAt(o, sync)

DeferRelease(o) == DropAt(o, sync + 1)

(* Present without EGpuFlush::DontFlush, which would return at once: the   *)
(* lists are executed, then AddDeferredSyncPoint.                          *)
Present ==
  /\ polling = "no" /\ recording
  /\ sync < MaxSync
  /\ Submit("frame", frame, sync + 1)
  /\ sync' = sync + 1
  /\ recording' = FALSE
  /\ frame' = {}
  /\ UNCHANGED <<unborn, held, kept, making, factory, completed, notified, polling>>

-----------------------------------------------------------------------------
(* GpuSync::Poll, called by the renderer's timer *)

Poll ==
  /\ polling = "no"
  /\ polling' = "loop"
  /\ UNCHANGED <<queue, unborn, held, kept, making, factory, frame, recording, sync, completed, notified>>

PollLeave ==
  /\ polling = "loop" /\ completed = notified
  /\ polling' = "no"
  /\ UNCHANGED <<queue, unborn, held, kept, making, factory, frame, recording, sync, completed, notified>>

(* Moves m_notified on and does not raise the event.                       *)
PollNotifyQuietly ==
  /\ polling = "loop" /\ completed # notified
  /\ notified' = completed
  /\ UNCHANGED <<queue, unborn, held, kept, making, factory, frame, recording, sync, completed, polling>>

(* The handlers of SyncPointCompleted run with m_notified moved on.        *)
PollNotify ==
  /\ polling = "loop" /\ completed # notified
  /\ notified' = completed
  /\ polling' = "sweep"
  /\ UNCHANGED <<queue, unborn, held, kept, making, factory, frame, recording, sync, completed>>

SweepUpTo(point) ==
  /\ polling = "sweep"
  /\ kept' = {ref \in kept : ref.point > point}
  /\ polling' = "loop"
  /\ UNCHANGED <<queue, unborn, held, making, factory, frame, recording, sync, completed, notified>>

(* Keeps what is for the sync point just reached.                          *)
SweepBefore == SweepUpTo(completed - 1)

(* Reads the fence again, which may have moved on.                         *)
Sweep == SweepUpTo(completed)

(* ~Renderer, after the windows, scenes and factories, which wait for      *)
(* their fences: what is kept is released.                                 *)
Destroy ==
  /\ polling = "no" /\ factory = "closed" /\ held = {} /\ queue = <<>>
  /\ polling' = "gone"
  /\ kept' = {}
  /\ recording' = FALSE /\ frame' = {}
  /\ UNCHANGED <<queue, unborn, held, making, factory, sync, completed, notified>>

-----------------------------------------------------------------------------
Next ==
  \/ GpuStep
  \/ OpenFactory \/ FlushToGpu \/ CloseFactory
  \/ \E o \in Objects : CreateResource(o) \/ Draw(o) \/ RayCast(o) \/ DeferRelease(o)
  \/ NewFrame \/ Present
  \/ Poll \/ PollLeave \/ PollNotify \/ Sweep \/ Destroy

Spec == Init /\ [][Next]_vars

(* The GPU works; the timer polls; a call of Poll runs to its end.         *)
FairSpec == Spec /\ WF_vars(GpuStep) /\ WF_vars(Poll) /\ WF_vars(PollLeave \/ PollNotify \/ Sweep)

-----------------------------------------------------------------------------
Submission == [kind : {"frame", "factory", "ray"}, uses : SUBSET Objects, point : 0..sync]

TypeOK ==
  /\ queue \in Seq(Submission)
  /\ unborn \subseteq Objects /\ held \subseteq Objects \ unborn
  /\ kept \subseteq [obj : Objects, point : 1..(sync + 1)]
  /\ making \subseteq Objects \ unborn
  /\ factory \in {"closed", "open", "flushing"}
  /\ frame \subseteq Objects \ unborn
  /\ recording \in BOOLEAN
  /\ sync \in 0..MaxSync
  /\ completed \in 0..sync
  /\ notified \in 0..completed
  /\ polling \in {"no", "loop", "sweep", "gone"}

(* "Defer release of a D3D12 resource until the GPU has finished using     *)
(* it": no command list that is recorded or submitted, of a frame, a ray   *)
(* cast or a factory, uses memory that was released.                       *)
AliveWhileUsed ==
  /\ \A i \in DOMAIN queue : queue[i].uses \cap Freed = {}
  /\ frame \cap Freed = {}

(* A notification is not lost: outside Poll nothing is kept for a sync     *)
(* point that was notified, whatever the fence did during the sweep.       *)
SweptWhenNotified == polling = "no" => \A ref \in kept : ref.point > notified

(* What is kept for a sync point that was added is released in the end.    *)
ReleasedAtLast == \A o \in Objects : (\E ref \in kept : ref.obj = o /\ ref.point <= sync) ~> (o \in Freed \cup making)

(* The parts of the inductive invariant: the points in the queue are ahead *)
(* of the fence and ascend; what a submission uses is held or kept for a   *)
(* point that is not before the submission; the factory keeps what its     *)
(* list uses.                                                              *)
PointsAscend ==
  /\ \A i \in DOMAIN queue : queue[i].point = 0 \/ queue[i].point > completed
  /\ \A i, k \in DOMAIN queue : i < k /\ queue[i].point # 0 /\ queue[k].point # 0 => queue[i].point < queue[k].point

KeptBeyond(o, i) ==
  \E ref \in kept : /\ ref.obj = o
                    /\ ref.point > sync \/ \E k \in DOMAIN queue : i <= k /\ queue[k].point = ref.point

UsesAreKept ==
  \A i \in DOMAIN queue :
    IF queue[i].kind = "factory"
      THEN queue[i].uses \subseteq making /\ factory = "flushing"
      ELSE \A o \in queue[i].uses : o \in held \/ KeptBeyond(o, i)

FrameIsKept == \A o \in frame : o \in held \/ \E ref \in kept : ref.obj = o /\ ref.point > sync

(* The inductive invariant.                                                *)
IInv == TypeOK /\ PointsAscend /\ UsesAreKept /\ FrameIsKept

=============================================================================
