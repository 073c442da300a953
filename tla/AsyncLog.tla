------------------------------- MODULE AsyncLog -------------------------------
(***************************************************************************)
(* The shared logging context of src/include/pr/common/log.h.              *)
(*                                                                         *)
(* Writers push events on a lock-free FIFO queue; one consumer thread pops *)
(* them, batches runs of equal events and hands them to the output         *)
(* callback.  Flush pushes a numbered fence and waits on a condition       *)
(* variable until the consumer has published that number.  The destructor  *)
(* pushes a sentinel and joins the consumer.                               *)
(*                                                                         *)
(* m_mutex guards nothing but the two waits: neither the producers nor the *)
(* publisher of a fence takes it, so a wait is two steps here, the test of *)
(* the predicate ("sleep" holds m_mutex) and the sleep itself.             *)
(***************************************************************************)
EXTENDS Integers, Sequences, FiniteSets

CONSTANTS
  Writers,      \* threads that own a Logger
  Messages,     \* what Event::Same tells apart
  NoMessage,    \* the default-constructed 'prev'
  BatchSize,    \* occurrences_batch_size
  FenceRange,   \* number of values of m_event_data (2^16 in the code)
  MaxWrites,    \* bound: events written
  MaxFences     \* bound: calls of Flush

ASSUME MessagesAssumption == NoMessage \notin Messages
ASSUME BatchAssumption == BatchSize \in Nat
ASSUME RangeAssumption == FenceRange \in Nat \ {0}

VARIABLES
  mode,         \* m_mode
  queue,        \* m_queue, front first
  fence,        \* m_fence
  serial,       \* Event::s_fence
  cpc,          \* where the consumer thread is
  ev,           \* the consumer's current event
  prev,         \* the consumer's last event: its message and held-back count
  pc,           \* where each writer is
  mine,         \* the fence a writer waits for
  life,         \* ~Context: "open", "notify", "join", "gone"
  output,       \* messages handed to the callback by the consumer, each as
                \* often as it was counted
  history,      \* messages pushed, in the order of the queue
  due           \* events that were pushed when a writer called Flush

threadVars == <<pc, mine, due>>
consumerVars == <<cpc, ev, prev, output>>
vars == <<mode, queue, fence, serial, life, history, threadVars, consumerVars>>

Normal(m) == [type |-> "normal", msg |-> m]
Control(type, n) == [type |-> type, id |-> n % FenceRange]

Event == {Normal(m) : m \in Messages} \cup
         [type : {"fence", "sentinel"}, id : 0..(FenceRange - 1)]

WriterPC ==
  {"out",       \* in the client's code
   "notify",    \* Enqueue: pushed, notify_all comes next
   "direct",    \* Enqueue: in the callback, in immediate mode
   "fence",     \* Flush: has drawn its fence, push comes next
   "test",      \* Flush: about to lock m_mutex and test m_fence
   "sleep",     \* Flush: the test failed, holds m_mutex
   "asleep",    \* Flush: blocked in m_cv_fence.wait
   "flushed"}   \* Flush: the test succeeded, returning

ConsumerPC ==
  {"test",      \* about to lock m_mutex and try to pop
   "sleep",     \* nothing to pop, holds m_mutex
   "asleep",    \* blocked in m_cv_queue.wait
   "handle",    \* popped an event
   "notify",    \* m_fence is set, notify_all comes next
   "last",      \* as "notify", for the sentinel
   "ended"}     \* the thread has ended

MutexFree == cpc # "sleep" /\ \A w \in Writers : pc[w] # "sleep"

-----------------------------------------------------------------------------
Init ==
  /\ mode \in {"async", "immediate"}
  /\ queue = <<>>
  /\ fence = 0
  /\ serial = 0
  /\ cpc = "test"
  /\ ev = Normal(NoMessage)
  /\ prev = [msg |-> NoMessage, count |-> 0]
  /\ pc = [w \in Writers |-> "out"]
  /\ mine = [w \in Writers |-> 0]
  /\ due = [w \in Writers |-> 0]
  /\ life = "open"
  /\ output = <<>>
  /\ history = <<>>

(* m_cv_queue.notify_all *)
NotifyQueue == cpc' = IF cpc = "asleep" THEN "test" ELSE cpc

(* m_cv_fence.notify_all *)
NotifyFence == pc' = [w \in Writers |-> IF pc[w] = "asleep" THEN "test" ELSE pc[w]]

-----------------------------------------------------------------------------
(* Writers *)

WriteMode ==
  /\ life = "open"
  /\ mode' = IF mode = "async" THEN "immediate" ELSE "async"
  /\ UNCHANGED <<queue, fence, serial, life, history, threadVars, consumerVars>>

(* Enqueue up to and including the push. *)
Write(w, m) ==
  /\ life = "open" /\ pc[w] = "out" /\ mode = "async"
  /\ Len(history) < MaxWrites
  /\ queue' = Append(queue, Normal(m))
  /\ history' = Append(history, m)
  /\ pc' = [pc EXCEPT ![w] = "notify"]
  /\ UNCHANGED <<mode, fence, serial, life, mine, due, consumerVars>>

WriteNotify(w) ==
  /\ pc[w] = "notify"
  /\ pc' = [pc EXCEPT ![w] = "out"]
  /\ NotifyQueue
  /\ UNCHANGED <<mode, queue, fence, serial, life, history, mine, due, ev, prev, output>>

(* In immediate mode the writer runs the callback on its own thread. *)
WriteDirect(w) ==
  /\ life = "open" /\ pc[w] = "out" /\ mode = "immediate"
  /\ pc' = [pc EXCEPT ![w] = "direct"]
  /\ UNCHANGED <<mode, queue, fence, serial, life, history, mine, due, consumerVars>>

WriteReturn(w) ==
  /\ pc[w] = "direct"
  /\ pc' = [pc EXCEPT ![w] = "out"]
  /\ UNCHANGED <<mode, queue, fence, serial, life, history, mine, due, consumerVars>>

(* The fence's number is drawn before it is pushed. *)
Flush(w) ==
  /\ life = "open" /\ pc[w] = "out"
  /\ serial < MaxFences
  /\ serial' = serial + 1
  /\ mine' = [mine EXCEPT ![w] = serial' % FenceRange]
  /\ due' = [due EXCEPT ![w] = Len(history)]
  /\ pc' = [pc EXCEPT ![w] = "fence"]
  /\ UNCHANGED <<mode, queue, fence, life, history, consumerVars>>

(* Nothing is notified. *)
PushFence(w) ==
  /\ pc[w] = "fence"
  /\ queue' = Append(queue, Control("fence", mine[w]))
  /\ pc' = [pc EXCEPT ![w] = "test"]
  /\ UNCHANGED <<mode, fence, serial, life, history, mine, due, consumerVars>>

TestFence(w) ==
  /\ pc[w] = "test" /\ MutexFree
  /\ pc' = [pc EXCEPT ![w] = IF fence >= mine[w] THEN "flushed" ELSE "sleep"]
  /\ UNCHANGED <<mode, queue, fence, serial, life, history, mine, due, consumerVars>>

FlushSleep(w) ==
  /\ pc[w] = "sleep"
  /\ pc' = [pc EXCEPT ![w] = "asleep"]
  /\ UNCHANGED <<mode, queue, fence, serial, life, history, mine, due, consumerVars>>

FlushSpuriousWake(w) ==
  /\ pc[w] = "asleep"
  /\ pc' = [pc EXCEPT ![w] = "test"]
  /\ UNCHANGED <<mode, queue, fence, serial, life, history, mine, due, consumerVars>>

FlushReturn(w) ==
  /\ pc[w] = "flushed"
  /\ pc' = [pc EXCEPT ![w] = "out"]
  /\ UNCHANGED <<mode, queue, fence, serial, life, history, mine, due, consumerVars>>

-----------------------------------------------------------------------------
(* The consumer thread *)

Pop ==
  /\ cpc = "test" /\ MutexFree
  /\ queue # <<>>
  /\ ev' = Head(queue)
  /\ queue' = Tail(queue)
  /\ cpc' = "handle"
  /\ UNCHANGED <<mode, fence, serial, life, history, threadVars, prev, output>>

FindEmpty ==
  /\ cpc = "test" /\ MutexFree
  /\ queue = <<>>
  /\ cpc' = "sleep"
  /\ UNCHANGED <<mode, queue, fence, serial, life, history, threadVars, ev, prev, output>>

ConsumerSleep ==
  /\ cpc = "sleep"
  /\ cpc' = "asleep"
  /\ UNCHANGED <<mode, queue, fence, serial, life, history, threadVars, ev, prev, output>>

ConsumerSpuriousWake ==
  /\ cpc = "asleep"
  /\ cpc' = "test"
  /\ UNCHANGED <<mode, queue, fence, serial, life, history, threadVars, ev, prev, output>>

Same == ev.type = "normal" /\ ev.msg = prev.msg

Joins == Same /\ prev.count < BatchSize

(* The held-back batch, as the callback counts it. *)
Held == [i \in 1..prev.count |-> prev.msg]

(* The event is counted into the batch held back. *)
JoinBatchTo(limit) ==
  /\ cpc = "handle" /\ Same /\ prev.count < limit
  /\ prev' = [prev EXCEPT !.count = @ + 1]
  /\ cpc' = "test"
  /\ UNCHANGED <<mode, queue, fence, serial, life, history, threadVars, ev, output>>

(* Lets one event too many into a batch. *)
JoinBatchOverrun == JoinBatchTo(BatchSize + 1)

JoinBatch == JoinBatchTo(BatchSize)

(* A full batch is reported and the event starts the next one. *)
StartBatch ==
  /\ cpc = "handle" /\ Same /\ ~Joins /\ BatchSize # 0
  /\ output' = output \o Held
  /\ prev' = [prev EXCEPT !.count = 1]
  /\ cpc' = "test"
  /\ UNCHANGED <<mode, queue, fence, serial, life, history, threadVars, ev>>

(* The batch is reported, then the event itself. *)
LogEventAfter(reported) ==
  /\ cpc = "handle" /\ ev.type = "normal"
  /\ Same => BatchSize = 0
  /\ output' = output \o reported \o <<ev.msg>>
  /\ prev' = [msg |-> ev.msg, count |-> 0]
  /\ cpc' = "test"
  /\ UNCHANGED <<mode, queue, fence, serial, life, history, threadVars, ev>>

(* Forgets the batch when another message arrives. *)
LogEventDropsBatch == LogEventAfter(<<>>)

LogEvent == LogEventAfter(Held)

(* Looks at the event's type before it reports the batch. *)
ReachFenceFirst ==
  /\ cpc = "handle" /\ ev.type = "fence"
  /\ fence' = ev.id
  /\ cpc' = "notify"
  /\ UNCHANGED <<mode, queue, serial, life, history, threadVars, ev, prev, output>>

(* The batch is reported and the fence is published. *)
ReachFence ==
  /\ cpc = "handle" /\ ev.type = "fence"
  /\ output' = output \o Held
  /\ prev' = [prev EXCEPT !.count = 0]
  /\ fence' = ev.id
  /\ cpc' = "notify"
  /\ UNCHANGED <<mode, queue, serial, life, history, threadVars, ev>>

PublishFence ==
  /\ cpc = "notify"
  /\ cpc' = "test"
  /\ NotifyFence
  /\ UNCHANGED <<mode, queue, fence, serial, life, history, mine, due, ev, prev, output>>

ReachSentinelAfter(reported) ==
  /\ cpc = "handle" /\ ev.type = "sentinel"
  /\ output' = output \o reported
  /\ prev' = [prev EXCEPT !.count = 0]
  /\ fence' = ev.id
  /\ cpc' = "last"
  /\ UNCHANGED <<mode, queue, serial, life, history, threadVars, ev>>

(* Ends with a batch still held back. *)
ReachSentinelFirst == ReachSentinelAfter(<<>>)

ReachSentinel == ReachSentinelAfter(Held)

ConsumerEnd ==
  /\ cpc = "last"
  /\ cpc' = "ended"
  /\ NotifyFence
  /\ UNCHANGED <<mode, queue, fence, serial, life, history, mine, due, ev, prev, output>>

-----------------------------------------------------------------------------
(* ~Context, run by whoever drops the last reference: no writer is inside. *)

Close ==
  /\ life = "open" /\ \A w \in Writers : pc[w] = "out"
  /\ life' = "notify"
  /\ mode' = "async"
  /\ serial' = serial + 1
  /\ queue' = Append(queue, Control("sentinel", serial'))
  /\ UNCHANGED <<fence, history, threadVars, consumerVars>>

CloseNotify ==
  /\ life = "notify"
  /\ life' = "join"
  /\ NotifyQueue
  /\ UNCHANGED <<mode, queue, fence, serial, history, threadVars, ev, prev, output>>

Join ==
  /\ life = "join" /\ cpc = "ended"
  /\ life' = "gone"
  /\ UNCHANGED <<mode, queue, fence, serial, history, threadVars, consumerVars>>

Finished == life = "gone" /\ UNCHANGED vars

-----------------------------------------------------------------------------
Consumer ==
  \/ Pop \/ FindEmpty \/ ConsumerSleep
  \/ JoinBatch \/ StartBatch \/ LogEvent
  \/ ReachFence \/ PublishFence \/ ReachSentinel \/ ConsumerEnd

(* The steps a writer takes once it is in a call. *)
InCall(w) ==
  \/ WriteNotify(w) \/ WriteReturn(w)
  \/ PushFence(w) \/ TestFence(w) \/ FlushSleep(w) \/ FlushReturn(w)

Writer(w) ==
  \/ \E m \in Messages : Write(w, m)
  \/ WriteDirect(w) \/ Flush(w) \/ InCall(w) \/ FlushSpuriousWake(w)

Destructor == Close \/ CloseNotify \/ Join

Next ==
  \/ Consumer \/ ConsumerSpuriousWake
  \/ \E w \in Writers : Writer(w)
  \/ WriteMode \/ Destructor \/ Finished

Spec == Init /\ [][Next]_vars

(* Threads that can run do run; the mutex is contended, so its acquisition *)
(* is strongly fair.  Spurious wake-ups are possible, never promised.      *)
FairSpec ==
  /\ Spec
  /\ WF_vars(Consumer) /\ SF_vars(Pop \/ FindEmpty)
  /\ \A w \in Writers : WF_vars(InCall(w)) /\ SF_vars(TestFence(w))
  /\ WF_vars(CloseNotify) /\ WF_vars(Join)

-----------------------------------------------------------------------------
TypeOK ==
  /\ mode \in {"async", "immediate"}
  /\ queue \in Seq(Event)
  /\ fence \in 0..(FenceRange - 1)
  /\ serial \in Nat
  /\ cpc \in ConsumerPC
  /\ ev \in Event \cup {Normal(NoMessage)}
  /\ prev \in [msg : Messages \cup {NoMessage}, count : 0..BatchSize]
  /\ pc \in [Writers -> WriterPC]
  /\ mine \in [Writers -> 0..(FenceRange - 1)]
  /\ due \in [Writers -> Nat]
  /\ life \in {"open", "notify", "join", "gone"}
  /\ output \in Seq(Messages)
  /\ history \in Seq(Messages)

(* The messages of the normal events of a queue, in order. *)
Payload(q) ==
  LET msgs[i \in 0..Len(q)] ==
        IF i = 0 THEN <<>>
        ELSE IF q[i].type = "normal" THEN Append(msgs[i - 1], q[i].msg) ELSE msgs[i - 1]
  IN msgs[Len(q)]

InHand == IF cpc = "handle" THEN <<ev>> ELSE <<>>

(* Nothing is lost, doubled or reordered between Enqueue and the callback: *)
(* what was output, what the batch holds back, the event in hand and what  *)
(* is queued are together exactly what was pushed.                         *)
InOrder == output \o Held \o Payload(InHand) \o Payload(queue) = history

(* Flush returns only when every event pushed before the call has reached  *)
(* the callback, those held back in a batch included ("Wait for all log    *)
(* events to be flushed (all at the time of calling)").  Fences of two     *)
(* writers may be pushed in the other order than they were drawn.          *)
FlushIsBarrier == \A w \in Writers : pc[w] = "flushed" => Len(output) >= due[w]

(* When the destructor returns, every event ever pushed has been reported: *)
(* the sentinel is behind them all and ends the last batch.                *)
DrainedAtEnd == life = "gone" => output = history

(* A call of Flush returns ("Block the caller until the logger is idle").  *)
FlushReturns == \A w \in Writers : pc[w] = "fence" ~> pc[w] = "out"

=============================================================================
