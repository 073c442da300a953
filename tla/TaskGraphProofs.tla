--------------------------- MODULE TaskGraphProofs ---------------------------
(***************************************************************************)
(* Theorems about TaskGraph, for any number of workers, tasks and signals: *)
(* IInv is an invariant and implies the safety properties; DependencyInv   *)
(* is one on top of it and orders the tasks; with both, the graph          *)
(* implements TaskOrder.                                                   *)
(***************************************************************************)
EXTENDS TaskGraphInvariant, SequenceTheorems, FiniteSetTheorems, TLAPS

(* Sequences without repetition: what Append, Tail and a new head do to    *)
(* membership.                                                             *)
LEMMA EmptyFacts == NoDup(<<>>) /\ \A x : ~InSeq(x, <<>>)
  BY DEF NoDup, InSeq

LEMMA AppendFacts ==
  ASSUME NEW S, NEW s \in Seq(S), NEW e \in S
  PROVE  /\ Append(s, e) \in Seq(S)
         /\ \A x : InSeq(x, Append(s, e)) <=> InSeq(x, s) \/ x = e
         /\ NoDup(s) /\ ~InSeq(e, s) => NoDup(Append(s, e))
<1> DEFINE a == Append(s, e)
<1>1. /\ a \in Seq(S) /\ DOMAIN a = 1..(Len(s) + 1)
      /\ DOMAIN s = 1..Len(s) /\ Len(s) \in Nat
  BY AppendProperties, LenProperties
<1>2. \A i \in 1..(Len(s) + 1) : a[i] = IF i = Len(s) + 1 THEN e ELSE s[i]
  BY AppendProperties, <1>1
<1> HIDE DEF a
<1>3. \A x : InSeq(x, a) <=> InSeq(x, s) \/ x = e
  BY <1>1, <1>2 DEF InSeq
<1>4. NoDup(s) /\ ~InSeq(e, s) => NoDup(a)
  BY <1>1, <1>2 DEF NoDup, InSeq
<1> QED
  BY <1>1, <1>3, <1>4 DEF a

LEMMA ConsFacts ==
  ASSUME NEW S, NEW s \in Seq(S), NEW e \in S
  PROVE  /\ <<e>> \o s \in Seq(S)
         /\ \A x : InSeq(x, <<e>> \o s) <=> InSeq(x, s) \/ x = e
         /\ NoDup(s) /\ ~InSeq(e, s) => NoDup(<<e>> \o s)
<1> DEFINE c == <<e>> \o s
<1>1. c \in Seq(S) /\ Len(c) = Len(s) + 1
  BY ConcatProperties
<1>2. \A i \in 1..Len(c) : c[i] = IF i = 1 THEN e ELSE s[i - 1]
  BY ConcatProperties
<1>3. DOMAIN c = 1..Len(c) /\ DOMAIN s = 1..Len(s) /\ Len(s) \in Nat
  BY <1>1, LenProperties
<1>4. \A x : InSeq(x, c) <=> InSeq(x, s) \/ x = e
  <2>1. \A x : InSeq(x, c) => InSeq(x, s) \/ x = e
    BY <1>1, <1>2, <1>3 DEF InSeq
  <2>2. InSeq(e, c)
    BY <1>1, <1>2, <1>3 DEF InSeq
  <2>3. ASSUME NEW i \in 1..Len(s) PROVE i + 1 \in 1..Len(c) /\ c[i + 1] = s[i]
    BY <1>1, <1>2, <1>3
  <2>4. \A x : InSeq(x, s) => InSeq(x, c)
    BY <2>3, <1>3 DEF InSeq
  <2> QED
    BY <2>1, <2>2, <2>4
<1>5. NoDup(s) /\ ~InSeq(e, s) => NoDup(c)
  BY <1>1, <1>2, <1>3 DEF NoDup, InSeq
<1> QED
  BY <1>1, <1>4, <1>5

LEMMA TailFacts ==
  ASSUME NEW S, NEW s \in Seq(S), s # <<>>
  PROVE  /\ Head(s) \in S
         /\ Tail(s) \in Seq(S)
         /\ \A x : InSeq(x, s) <=> InSeq(x, Tail(s)) \/ x = Head(s)
         /\ NoDup(s) => NoDup(Tail(s)) /\ ~InSeq(Head(s), Tail(s))
<1>1. Len(s) \in Nat \ {0} /\ DOMAIN s = 1..Len(s) /\ Head(s) = s[1]
  BY LenProperties, EmptySeq
<1>2. /\ Tail(s) \in Seq(S) /\ Len(Tail(s)) = Len(s) - 1
      /\ DOMAIN Tail(s) = 1..(Len(s) - 1)
      /\ \A i \in 1..(Len(s) - 1) : Tail(s)[i] = s[i + 1]
  BY HeadTailProperties
<1>3. \A x : InSeq(x, s) <=> InSeq(x, Tail(s)) \/ x = Head(s)
  <2>1. \A x : InSeq(x, s) => InSeq(x, Tail(s)) \/ x = Head(s)
    <3> SUFFICES ASSUME NEW i \in 1..Len(s), i # 1
                 PROVE  i - 1 \in 1..(Len(s) - 1) /\ Tail(s)[i - 1] = s[i]
      BY <1>1, <1>2 DEF InSeq
    <3> QED
      BY <1>1, <1>2
  <2>2. \A x : InSeq(x, Tail(s)) \/ x = Head(s) => InSeq(x, s)
    BY <1>1, <1>2 DEF InSeq
  <2> QED
    BY <2>1, <2>2
<1>4. NoDup(s) => NoDup(Tail(s)) /\ ~InSeq(Head(s), Tail(s))
  BY <1>1, <1>2 DEF NoDup, InSeq
<1> QED
  BY <1>1, <1>2, <1>3, <1>4

LEMMA MemberFacts ==
  ASSUME NEW S, NEW s \in Seq(S)
  PROVE  /\ \A x : InSeq(x, s) => x \in S
         /\ (\A x \in S : ~InSeq(x, s)) => s = <<>>
         /\ s # <<>> => InSeq(Head(s), s)
  BY DEF InSeq

(* The wake-ups a notify_one can cause.                                    *)
LEMMA NotifyOneFacts ==
  ASSUME NEW pcs \in [Workers -> WorkerPC], NotifyOne(pcs)
  PROVE  /\ wpc' \in [Workers -> WorkerPC]
         /\ \A v \in Workers : wpc'[v] = pcs[v] \/ (pcs[v] = "asleep" /\ wpc'[v] = "idle")
  BY DEF NotifyOne, WorkerPC

-----------------------------------------------------------------------------
(* The initial state                                                       *)

LEMMA InitInv == Init => IInv
<1> SUFFICES ASSUME Init PROVE IInv
  OBVIOUS
<1> USE DEF Init
<1>1. FieldTypes
  <2>1. (CHOOSE s \in Signals : TRUE) \in Signals
    BY SignalsAssumption
  <2>2. raising \in [Workers -> Signals]
    BY <2>1
  <2>3. /\ queue \in Seq(Tasks) /\ tasks \in Seq(Tasks) /\ exceptions \in Seq(Tasks)
        /\ stolen \in [Workers -> Seq(Tasks)] /\ waiters \in [Signals -> Seq(Tasks)]
    BY EmptySeq
  <2>4. /\ wpc \in [Workers -> WorkerPC] /\ frame \in [Tasks -> FrameState] /\ mpc \in MainPC
    BY DEF WorkerPC, FrameState, MainPC
  <2>5. shutdown \in BOOLEAN /\ signaled \in [Signals -> BOOLEAN] /\ thrown \in [Tasks -> BOOLEAN]
    OBVIOUS
  <2>6. job \in [Workers -> Tasks \cup {Null}] /\ outcome \in Tasks \cup {Null}
    OBVIOUS
  <2>7. ip \in [Tasks -> Nat \ {0}] /\ nextTask \in Nat \ {0} /\ pending \in Int
    OBVIOUS
  <2> HIDE DEF Init
  <2> QED
    BY <2>2, <2>3, <2>4, <2>5, <2>6, <2>7 DEF FieldTypes
<1>2. QueueInv /\ WaiterInv /\ StolenInv /\ FrameInv
  BY EmptyFacts DEF QueueInv, WaiterInv, StolenInv, FrameInv
<1>3. HoldInv
  BY DEF HoldInv, Holding
<1>4. MainInv /\ PendingInv /\ FinalInv
  BY DEF MainInv, Scheduling, PendingInv, FinalInv
<1>5. ExceptionInv
  BY EmptyFacts DEF ExceptionInv, Scheduling
<1>6. NoMissedRaise
  BY DEF NoMissedRaise
<1> QED
  BY <1>1, <1>2, <1>3, <1>4, <1>5, <1>6 DEF IInv

-----------------------------------------------------------------------------
(* Steps of the worker loop and the notifications: handles stay where they *)
(* are and only program counters move.                                     *)

(* v keeps its job, or holds none before and after.                        *)
Moves(v) ==
  \/ wpc'[v] = wpc[v]
  \/ wpc[v] \notin Holding /\ wpc'[v] \notin Holding
  \/ wpc[v] = "poke" /\ wpc'[v] = "wake"
  \/ wpc[v] = "wake" /\ wpc'[v] = "dec" /\ stolen[v] = <<>> /\ frame[job[v]] = "final"

HandlesInv == QueueInv /\ WaiterInv /\ StolenInv /\ HoldInv /\ FrameInv /\ FinalInv /\ NoMissedRaise

LEMMA MovesKeepHandles ==
  ASSUME IInv,
         UNCHANGED <<queue, job, raising, stolen, signalVars, coroVars, graphVars>>,
         wpc' \in [Workers -> WorkerPC],
         \A v \in Workers : Moves(v)
  PROVE  HandlesInv' /\ \A v \in Workers : wpc'[v] = "collect" <=> wpc[v] = "collect"
<1> USE DEF IInv, signalVars, coroVars, graphVars
<1>1. QueueInv' /\ WaiterInv' /\ FrameInv'
  BY DEF QueueInv, WaiterInv, FrameInv
<1>2. StolenInv'
  BY DEF StolenInv, Moves, Holding
<1>3. HoldInv'
  BY DEF HoldInv, Moves, Holding, NextOpIs, AtEnd
<1>4. FinalInv' /\ NoMissedRaise'
  BY DEF FinalInv, AtEnd, NoMissedRaise, Moves, Holding
<1>5. \A v \in Workers : wpc'[v] = "collect" <=> wpc[v] = "collect"
  BY DEF Moves, Holding
<1> QED
  BY <1>1, <1>2, <1>3, <1>4, <1>5 DEF HandlesInv

(* The same, when Main does not move either.                               *)
LEMMA MovesKeepInv ==
  ASSUME IInv,
         UNCHANGED <<poolVars, job, raising, stolen, signalVars, coroVars, graphVars, mainVars>>,
         wpc' \in [Workers -> WorkerPC],
         \A v \in Workers : Moves(v)
  PROVE  IInv'
<1> USE DEF poolVars, signalVars, coroVars, graphVars, mainVars
<1>1. HandlesInv' /\ \A v \in Workers : wpc'[v] = "collect" <=> wpc[v] = "collect"
  BY MovesKeepHandles
<1>2. FieldTypes'
  BY DEF IInv, FieldTypes
<1>3. MainInv' /\ PendingInv'
  BY DEF IInv, MainInv, PendingInv, Unfinished
<1>4. ExceptionInv'
  BY <1>1 DEF IInv, ExceptionInv
<1> QED
  BY <1>1, <1>2, <1>3, <1>4 DEF IInv, HandlesInv

LEMMA LoopSteps ==
  ASSUME IInv, NEW w \in Workers,
         Sleep(w) \/ Exit(w) \/ SpuriousWake(w) \/ PokeSelf(w) \/ LeaveCallback(w)
                  \/ Poke(w) \/ Raised(w)
  PROVE  IInv'
<1>1. wpc \in [Workers -> WorkerPC]
  BY DEF IInv, FieldTypes
<1>2. wpc' \in [Workers -> WorkerPC] /\ \A v \in Workers : Moves(v)
  <2>1. CASE Sleep(w) \/ Exit(w) \/ SpuriousWake(w) \/ LeaveCallback(w) \/ Raised(w)
    BY <1>1, <2>1 DEF Sleep, Exit, SpuriousWake, LeaveCallback, Raised, Moves, Holding, WorkerPC
  <2>2. CASE PokeSelf(w)
    <3>1. [wpc EXCEPT ![w] = "idle"] \in [Workers -> WorkerPC]
      BY <1>1 DEF WorkerPC
    <3> QED
      BY <1>1, <2>2, <3>1, NotifyOneFacts DEF PokeSelf, Moves, Holding
  <2>3. CASE Poke(w)
    <3>1. [wpc EXCEPT ![w] = "wake"] \in [Workers -> WorkerPC]
      BY <1>1 DEF WorkerPC
    <3> QED
      BY <1>1, <2>3, <3>1, NotifyOneFacts DEF Poke, Moves, Holding
  <2> QED
    BY <2>1, <2>2, <2>3
<1>3. UNCHANGED <<poolVars, job, raising, stolen, signalVars, coroVars, graphVars, mainVars>>
  BY DEF Sleep, Exit, SpuriousWake, PokeSelf, LeaveCallback, Poke, Raised
<1> QED
  BY <1>2, <1>3, MovesKeepInv

-----------------------------------------------------------------------------
(* A worker takes a job, and executes its awaits                           *)

LEMMA TakeJobInv ==
  ASSUME IInv, NEW w \in Workers, TakeJob(w)
  PROVE  IInv'
<1> DEFINE t == Head(queue)
<1> USE DEF TakeJob, signalVars, graphVars, mainVars
<1>1. FieldTypes /\ queue # <<>> /\ wpc[w] = "idle"
  BY DEF IInv
<1>2. /\ t \in Tasks /\ Tail(queue) \in Seq(Tasks)
      /\ \A x : InSeq(x, queue) <=> InSeq(x, Tail(queue)) \/ x = t
      /\ NoDup(Tail(queue)) /\ ~InSeq(t, Tail(queue))
  BY <1>1, TailFacts DEF FieldTypes, IInv, QueueInv
<1>3. frame[t] = "queued"
  BY <1>2 DEF IInv, QueueInv
<1> HIDE DEF t
<1>4. FieldTypes'
  BY <1>1, <1>2 DEF FieldTypes, WorkerPC, FrameState, t
<1>5. /\ frame \in [Tasks -> FrameState] /\ frame' = [frame EXCEPT ![t] = "running"]
      /\ job' = [job EXCEPT ![w] = t] /\ queue' = Tail(queue)
      /\ wpc \in [Workers -> WorkerPC] /\ job \in [Workers -> Tasks \cup {Null}]
  BY <1>1 DEF FieldTypes, t
<1>6. QueueInv'
  BY <1>2, <1>3, <1>5 DEF IInv, QueueInv
<1>7. WaiterInv' /\ StolenInv' /\ FrameInv'
  BY <1>1, <1>2, <1>3, <1>5 DEF IInv, WaiterInv, StolenInv, FrameInv
<1>8. HoldInv'
  BY <1>1, <1>2, <1>3, <1>5 DEF IInv, HoldInv, Holding, NextOpIs, AtEnd
<1>9. MainInv'
  BY <1>2, <1>3, <1>5 DEF IInv, MainInv, FrameInv, InSeq, FieldTypes
<1>10. PendingInv'
  <2>1. \A i \in DOMAIN tasks : tasks[i] \in Tasks
    BY DEF IInv, FieldTypes
  <2>2. Unfinished' = Unfinished
    BY <1>2, <1>3, <1>5, <2>1 DEF Unfinished
  <2> QED
    BY <2>2 DEF IInv, PendingInv
<1>11. FinalInv' /\ NoMissedRaise'
  BY <1>1, <1>2, <1>3, <1>5 DEF IInv, FinalInv, AtEnd, NoMissedRaise
<1>12. ExceptionInv'
  BY <1>1, <1>2, <1>3, <1>5 DEF IInv, ExceptionInv
<1> QED
  BY <1>4, <1>6, <1>7, <1>8, <1>9, <1>10, <1>11, <1>12 DEF IInv

(* Facts about the coroutine a worker executes: it is the only one there.  *)
LEMMA HolderFacts ==
  ASSUME IInv, NEW w \in Workers, wpc[w] \in Holding
  PROVE  /\ job[w] \in Tasks
         /\ frame[job[w]] \in {"running", "final"}
         /\ wpc[w] \in {"run", "add", "collect"} => frame[job[w]] = "running"
         /\ \A v \in Workers : wpc[v] \in Holding /\ v # w => job[v] \in Tasks /\ job[v] # job[w]
  BY DEF IInv, HoldInv, Holding

LEMMA WaitReadyInv ==
  ASSUME IInv, NEW w \in Workers, WaitReady(w)
  PROVE  IInv'
<1> DEFINE t == job[w]
<1>1. FieldTypes /\ wpc[w] = "run" /\ NextOpIs(t, "wait")
  BY DEF IInv, WaitReady
<1>2. /\ UNCHANGED <<queue, shutdown, job, raising, stolen, signaled, waiters, frame, thrown>>
      /\ UNCHANGED <<tasks, pending, exceptions, mpc, nextTask, outcome>>
      /\ \/ wpc' = wpc /\ ip' = [ip EXCEPT ![t] = ip[t] + 1]
         \/ wpc' = [wpc EXCEPT ![w] = "add"] /\ ip' = ip
  BY DEF WaitReady, poolVars, signalVars, graphVars, mainVars
<1>3. /\ t \in Tasks /\ frame[t] = "running"
      /\ \A v \in Workers : wpc[v] \in Holding /\ v # w => job[v] \in Tasks /\ job[v] # t
  BY <1>1, HolderFacts DEF Holding
<1> HIDE DEF t
<1>4. wpc \in [Workers -> WorkerPC] /\ ip \in [Tasks -> Nat \ {0}]
  BY <1>1 DEF FieldTypes
<1>5. FieldTypes'
  <2>1. wpc' \in [Workers -> WorkerPC]
    BY <1>2, <1>4 DEF WorkerPC
  <2>2. ip' \in [Tasks -> Nat \ {0}]
    BY <1>2, <1>3, <1>4
  <2> QED
    BY <1>1, <1>2, <2>1, <2>2 DEF FieldTypes
<1>6. QueueInv' /\ WaiterInv' /\ FrameInv'
  BY <1>2 DEF IInv, QueueInv, WaiterInv, FrameInv
<1>7. StolenInv' /\ NoMissedRaise'
  BY <1>1, <1>2, <1>4 DEF IInv, StolenInv, NoMissedRaise
<1>8. HoldInv'
  <2>1. \A v \in Workers : v # w /\ wpc[v] \in Holding => ip'[job[v]] = ip[job[v]]
    BY <1>2, <1>3, <1>4
  <2>2. \A v \in Workers : wpc'[v] = "add" => NextOpIs(job[v], "wait")'
    BY <1>1, <1>2, <1>4, <2>1 DEF IInv, HoldInv, Holding, NextOpIs, AtEnd, t
  <2> QED
    BY <1>1, <1>2, <1>3, <1>4, <2>2 DEF IInv, HoldInv, Holding, t
<1>9. MainInv' /\ PendingInv'
  BY <1>2 DEF IInv, MainInv, PendingInv, Unfinished
<1>10. FinalInv'
  BY <1>2, <1>3, <1>4 DEF IInv, FinalInv, AtEnd
<1>11. ExceptionInv'
  BY <1>1, <1>2, <1>4 DEF IInv, ExceptionInv
<1> QED
  BY <1>5, <1>6, <1>7, <1>8, <1>9, <1>10, <1>11 DEF IInv

LEMMA AddWaiterInv ==
  ASSUME IInv, NEW w \in Workers, AddWaiter(w)
  PROVE  IInv'
<1> DEFINE t == job[w]
           s == NextSig(t)
<1> USE DEF AddWaiter, poolVars, graphVars, mainVars
<1>1. FieldTypes /\ wpc[w] = "add"
  BY DEF IInv
<1>2. t \in Tasks /\ frame[t] = "running" /\ NextOpIs(t, "wait")
  BY <1>1 DEF IInv, HoldInv, Holding
<1>3. s \in Signals
  <2>1. ip[t] \in Nat \ {0} /\ ip[t] <= Len(Script[t]) /\ Script[t] \in Seq(Op)
    BY <1>1, <1>2, ScriptAssumption, LenProperties DEF FieldTypes, NextOpIs, AtEnd
  <2>2. Script[t][ip[t]] \in Op
    BY <2>1, ElementOfSeq, LenProperties
  <2> QED
    BY <2>2 DEF Op, NextSig
<1>4. \A v \in Workers : wpc[v] \in Holding /\ v # w => job[v] # t
  BY <1>1 DEF IInv, HoldInv, Holding
<1>5. /\ ip' = [ip EXCEPT ![t] = ip[t] + 1]
      /\ UNCHANGED <<queue, shutdown, job, raising, stolen, signaled, thrown>>
      /\ UNCHANGED <<tasks, pending, exceptions, mpc, nextTask, outcome>>
  OBVIOUS
<1>6. CASE signaled[s]
  <2>1. wpc' = [wpc EXCEPT ![w] = "run"] /\ UNCHANGED <<waiters, frame>>
    BY <1>6
  <2> HIDE DEF t, s, AddWaiter
  <2>2. FieldTypes'
    BY <1>1, <1>2, <1>5, <2>1 DEF FieldTypes, WorkerPC
  <2>3. QueueInv' /\ WaiterInv' /\ FrameInv'
    BY <1>5, <2>1 DEF IInv, QueueInv, WaiterInv, FrameInv
  <2>4. StolenInv' /\ NoMissedRaise'
    BY <1>5, <1>1, <2>1 DEF IInv, FieldTypes, StolenInv, NoMissedRaise
  <2>5. HoldInv'
    <3>1. wpc \in [Workers -> WorkerPC] /\ ip \in [Tasks -> Nat \ {0}]
      BY <1>1 DEF FieldTypes
    <3>2. \A v \in Workers : v # w /\ wpc[v] \in Holding => ip'[job[v]] = ip[job[v]]
      BY <1>2, <1>4, <1>5, <3>1 DEF IInv, HoldInv
    <3>3. \A v \in Workers : wpc'[v] = "add" => NextOpIs(job[v], "wait")'
      BY <1>5, <2>1, <3>1, <3>2 DEF IInv, HoldInv, Holding, NextOpIs, AtEnd
    <3> QED
      BY <1>1, <1>2, <1>4, <1>5, <2>1, <3>1, <3>3 DEF IInv, HoldInv, Holding, t
  <2>6. MainInv' /\ PendingInv'
    BY <1>5, <2>1 DEF IInv, MainInv, PendingInv, Unfinished
  <2>7. FinalInv'
    BY <1>1, <1>2, <1>5, <2>1 DEF IInv, FieldTypes, FinalInv, AtEnd
  <2>8. ExceptionInv'
    BY <1>5, <1>1, <2>1 DEF IInv, FieldTypes, ExceptionInv
  <2> QED
    BY <2>2, <2>3, <2>4, <2>5, <2>6, <2>7, <2>8 DEF IInv
<1>7. CASE ~signaled[s]
  <2>1. /\ wpc' = [wpc EXCEPT ![w] = "idle"]
        /\ waiters' = [waiters EXCEPT ![s] = <<t>> \o waiters[s]]
        /\ frame' = [frame EXCEPT ![t] = "waiting"]
    BY <1>7
  <2> HIDE DEF t, s, AddWaiter
  <2>2. /\ <<t>> \o waiters[s] \in Seq(Tasks)
        /\ \A x : InSeq(x, <<t>> \o waiters[s]) <=> InSeq(x, waiters[s]) \/ x = t
        /\ NoDup(waiters[s]) /\ ~InSeq(t, waiters[s]) => NoDup(<<t>> \o waiters[s])
    BY <1>1, <1>2, <1>3, ConsFacts DEF FieldTypes
  <2>3. FieldTypes'
    BY <1>1, <1>2, <1>3, <1>5, <2>1, <2>2 DEF FieldTypes, WorkerPC, FrameState
  <2>4. /\ frame \in [Tasks -> FrameState] /\ wpc \in [Workers -> WorkerPC]
        /\ waiters \in [Signals -> Seq(Tasks)] /\ ip \in [Tasks -> Nat \ {0}]
    BY <1>1 DEF FieldTypes
  <2>5. QueueInv' /\ StolenInv' /\ FrameInv'
    BY <1>5, <1>1, <1>2, <2>1, <2>4 DEF IInv, QueueInv, StolenInv, FrameInv
  <2>6. WaiterInv'
    BY <1>5, <1>2, <1>3, <2>1, <2>2, <2>4 DEF IInv, WaiterInv
  <2>7. HoldInv'
    BY <1>1, <1>2, <1>4, <1>5, <2>1, <2>4 DEF IInv, HoldInv, Holding, NextOpIs, AtEnd, t
  <2>8. MainInv'
    BY <1>5, <1>2, <2>1, <2>4 DEF IInv, MainInv, FrameInv, InSeq
  <2>9. PendingInv'
    <3>1. Unfinished' = Unfinished
      BY <1>1, <1>2, <1>5, <2>1 DEF Unfinished, FieldTypes
    <3> QED
      BY <1>5, <3>1 DEF IInv, PendingInv
  <2>10. FinalInv'
    BY <1>2, <1>5, <2>1, <2>4 DEF IInv, FinalInv, AtEnd
  <2>11. ExceptionInv'
    BY <1>5, <1>1, <1>2, <2>1, <2>4 DEF IInv, ExceptionInv
  <2>12. NoMissedRaise'
    BY <1>5, <1>1, <1>3, <1>7, <2>1, <2>4 DEF IInv, NoMissedRaise
  <2> QED
    BY <2>3, <2>5, <2>6, <2>7, <2>8, <2>9, <2>10, <2>11, <2>12 DEF IInv
<1> QED
  BY <1>6, <1>7

-----------------------------------------------------------------------------
(* Signals, throws and completion                                          *)

LEMMA SigFacts ==
  ASSUME IInv, NEW t \in Tasks, NEW kind, NextOpIs(t, kind)
  PROVE  NextSig(t) \in Signals
<1>1. ip[t] \in Nat \ {0} /\ ip[t] <= Len(Script[t]) /\ Script[t] \in Seq(Op)
  BY ScriptAssumption, LenProperties DEF IInv, FieldTypes, NextOpIs, AtEnd
<1>2. Script[t][ip[t]] \in Op
  BY <1>1, ElementOfSeq, LenProperties
<1> QED
  BY <1>2 DEF Op, NextSig

LEMMA SignalInv ==
  ASSUME IInv, NEW w \in Workers, Signal(w)
  PROVE  IInv'
<1> DEFINE t == job[w]
           s == NextSig(t)
<1>1. FieldTypes /\ wpc[w] = "run" /\ NextOpIs(t, "signal")
  BY DEF IInv, Signal
<1>2. /\ UNCHANGED <<queue, shutdown, job, stolen, waiters, frame, thrown>>
      /\ UNCHANGED <<tasks, pending, exceptions, mpc, nextTask, outcome>>
      /\ signaled' = [signaled EXCEPT ![s] = TRUE]
      /\ raising' = [raising EXCEPT ![w] = s]
      /\ ip' = [ip EXCEPT ![t] = ip[t] + 1]
      /\ wpc' = [wpc EXCEPT ![w] = "steal"]
  BY DEF Signal, poolVars, graphVars, mainVars
<1>3. /\ t \in Tasks /\ frame[t] = "running"
      /\ \A v \in Workers : wpc[v] \in Holding /\ v # w => job[v] \in Tasks /\ job[v] # t
  BY <1>1, HolderFacts DEF Holding
<1>4. s \in Signals
  BY <1>1, <1>3, SigFacts
<1> HIDE DEF t, s
<1>5. /\ wpc \in [Workers -> WorkerPC] /\ ip \in [Tasks -> Nat \ {0}]
      /\ raising \in [Workers -> Signals] /\ signaled \in [Signals -> BOOLEAN]
  BY <1>1 DEF FieldTypes
<1>6. FieldTypes'
  <2>1. wpc' \in [Workers -> WorkerPC]
    BY <1>2, <1>5 DEF WorkerPC
  <2>2. ip' \in [Tasks -> Nat \ {0}] /\ raising' \in [Workers -> Signals]
    BY <1>2, <1>3, <1>4, <1>5
  <2>3. signaled' \in [Signals -> BOOLEAN]
    BY <1>2, <1>5
  <2> QED
    BY <1>1, <1>2, <2>1, <2>2, <2>3 DEF FieldTypes
<1>7. QueueInv' /\ WaiterInv' /\ FrameInv'
  BY <1>2 DEF IInv, QueueInv, WaiterInv, FrameInv
<1>8. StolenInv'
  BY <1>1, <1>2, <1>5 DEF IInv, StolenInv
<1>9. HoldInv'
  <2>1. \A v \in Workers : v # w /\ wpc[v] \in Holding => ip'[job[v]] = ip[job[v]]
    BY <1>2, <1>3, <1>5
  <2>2. \A v \in Workers : wpc'[v] = "add" => NextOpIs(job[v], "wait")'
    <3> SUFFICES ASSUME NEW v \in Workers, wpc'[v] = "add" PROVE NextOpIs(job[v], "wait")'
      OBVIOUS
    <3>1. v # w /\ wpc[v] = "add"
      BY <1>2, <1>5
    <3>2. NextOpIs(job[v], "wait") /\ ip'[job[v]] = ip[job[v]]
      BY <2>1, <3>1 DEF IInv, HoldInv, Holding
    <3> QED
      BY <1>2, <3>2 DEF NextOpIs, AtEnd
  <2> QED
    BY <1>1, <1>2, <1>3, <1>5, <2>2 DEF IInv, HoldInv, Holding, t
<1>10. MainInv' /\ PendingInv'
  BY <1>2 DEF IInv, MainInv, PendingInv, Unfinished
<1>11. FinalInv'
  <2>1. \A r \in Signals : signaled[r] => signaled'[r]
    BY <1>2, <1>5
  <2> QED
    BY <1>2, <1>3, <1>5, <2>1, IdOfAssumption DEF IInv, FinalInv, AtEnd
<1>12. ExceptionInv'
  BY <1>1, <1>2, <1>5 DEF IInv, ExceptionInv
<1>13. NoMissedRaise'
  BY <1>1, <1>2, <1>4, <1>5 DEF IInv, NoMissedRaise
<1> QED
  BY <1>6, <1>7, <1>8, <1>9, <1>10, <1>11, <1>12, <1>13 DEF IInv

LEMMA ThrowInv ==
  ASSUME IInv, NEW w \in Workers, Throw(w)
  PROVE  IInv'
<1> DEFINE t == job[w]
<1>1. FieldTypes /\ wpc[w] = "run"
  BY DEF IInv, Throw
<1>2. /\ UNCHANGED <<queue, shutdown, job, raising, stolen, signaled, waiters, frame, ip>>
      /\ UNCHANGED <<tasks, pending, exceptions, mpc, nextTask, outcome>>
      /\ thrown' = [thrown EXCEPT ![t] = TRUE]
      /\ wpc' = [wpc EXCEPT ![w] = "collect"]
  BY DEF Throw, poolVars, signalVars, graphVars, mainVars
<1>3. /\ t \in Tasks /\ frame[t] = "running"
      /\ \A v \in Workers : wpc[v] \in Holding /\ v # w => job[v] \in Tasks /\ job[v] # t
  BY <1>1, HolderFacts DEF Holding
<1> HIDE DEF t
<1>4. wpc \in [Workers -> WorkerPC] /\ thrown \in [Tasks -> BOOLEAN]
  BY <1>1 DEF FieldTypes
<1>5. FieldTypes'
  <2>1. wpc' \in [Workers -> WorkerPC]
    BY <1>2, <1>4 DEF WorkerPC
  <2>2. thrown' \in [Tasks -> BOOLEAN]
    BY <1>2, <1>4
  <2> QED
    BY <1>1, <1>2, <2>1, <2>2 DEF FieldTypes
<1>6. QueueInv' /\ WaiterInv' /\ FrameInv'
  BY <1>2 DEF IInv, QueueInv, WaiterInv, FrameInv
<1>7. StolenInv' /\ NoMissedRaise'
  BY <1>1, <1>2, <1>4 DEF IInv, StolenInv, NoMissedRaise
<1>8. HoldInv'
  <2>1. \A v \in Workers : v # w /\ wpc[v] \in Holding => thrown'[job[v]] = thrown[job[v]]
    BY <1>2, <1>3, <1>4
  <2>2. \A v \in Workers : wpc'[v] = "add" => NextOpIs(job[v], "wait")'
    <3> SUFFICES ASSUME NEW v \in Workers, wpc'[v] = "add" PROVE NextOpIs(job[v], "wait")'
      OBVIOUS
    <3>1. v # w /\ wpc[v] = "add"
      BY <1>2, <1>4
    <3>2. NextOpIs(job[v], "wait") /\ (thrown'[job[v]] = thrown[job[v]])
      BY <2>1, <3>1 DEF IInv, HoldInv, Holding
    <3> QED
      BY <1>2, <3>2 DEF NextOpIs, AtEnd
  <2>3. \A v \in Workers : wpc'[v] = "collect" => thrown'[job[v]]
    BY <1>2, <1>3, <1>4, <2>1 DEF IInv, HoldInv, Holding, t
  <2> QED
    BY <1>1, <1>2, <1>3, <1>4, <2>2, <2>3 DEF IInv, HoldInv, Holding, t
<1>9. MainInv' /\ PendingInv'
  BY <1>2 DEF IInv, MainInv, PendingInv, Unfinished
<1>10. FinalInv'
  BY <1>2, <1>3, <1>4 DEF IInv, FinalInv, AtEnd
<1>11. ExceptionInv'
  <2>1. mpc \in Scheduling
    BY <1>1, <1>3 DEF IInv, MainInv, FieldTypes, MainPC, Scheduling
  <2>2. \A u \in Tasks : u # t => thrown'[u] = thrown[u]
    BY <1>2, <1>4
  <2>3. wpc'[w] = "collect" /\ job'[w] = t /\ thrown'[t]
    BY <1>2, <1>3, <1>4 DEF t
  <2>4. \A u \in Tasks : InSeq(u, exceptions) => thrown'[u] /\ frame[u] # "none"
    BY <1>3, <2>2, <2>3 DEF IInv, ExceptionInv
  <2>5. \A u \in Tasks : frame[u] # "none" /\ thrown'[u] =>
          InSeq(u, exceptions) \/ \E v \in Workers : wpc'[v] = "collect" /\ job[v] = u
    BY <1>1, <1>2, <1>4, <2>1, <2>2, <2>3 DEF IInv, ExceptionInv
  <2> QED
    BY <1>2, <2>1, <2>4, <2>5 DEF ExceptionInv, Scheduling
<1> QED
  BY <1>5, <1>6, <1>7, <1>8, <1>9, <1>10, <1>11 DEF IInv

LEMMA CollectExceptionInv ==
  ASSUME IInv, NEW w \in Workers, CollectException(w)
  PROVE  IInv'
<1> DEFINE t == job[w]
<1>1. FieldTypes /\ wpc[w] = "collect"
  BY DEF IInv, CollectException
<1>2. /\ UNCHANGED <<queue, shutdown, job, raising, stolen, signaled, waiters, frame, ip, thrown>>
      /\ UNCHANGED <<tasks, pending, mpc, nextTask, outcome>>
      /\ exceptions' = Append(exceptions, t)
      /\ wpc' = [wpc EXCEPT ![w] = "run"]
  BY DEF CollectException, poolVars, signalVars, coroVars, mainVars
<1>3. /\ t \in Tasks /\ frame[t] = "running" /\ thrown[t]
      /\ \A v \in Workers : wpc[v] \in Holding /\ v # w => job[v] \in Tasks /\ job[v] # t
  BY <1>1, HolderFacts DEF Holding, IInv, HoldInv
<1>4. wpc \in [Workers -> WorkerPC]
  BY <1>1 DEF FieldTypes
<1>5. /\ exceptions' \in Seq(Tasks)
      /\ \A x : InSeq(x, exceptions') <=> InSeq(x, exceptions) \/ x = t
  BY <1>1, <1>2, <1>3, AppendFacts DEF FieldTypes
<1> HIDE DEF t
<1>6. FieldTypes'
  <2>1. wpc' \in [Workers -> WorkerPC]
    BY <1>2, <1>4 DEF WorkerPC
  <2> QED
    BY <1>1, <1>2, <1>5, <2>1 DEF FieldTypes
<1>7. QueueInv' /\ WaiterInv' /\ FrameInv'
  BY <1>2 DEF IInv, QueueInv, WaiterInv, FrameInv
<1>8. StolenInv' /\ NoMissedRaise'
  BY <1>1, <1>2, <1>4 DEF IInv, StolenInv, NoMissedRaise
<1>9. HoldInv'
  BY <1>1, <1>2, <1>3, <1>4 DEF IInv, HoldInv, Holding, NextOpIs, AtEnd, t
<1>10. MainInv' /\ PendingInv' /\ FinalInv'
  BY <1>2 DEF IInv, MainInv, PendingInv, Unfinished, FinalInv, AtEnd
<1>11. ExceptionInv'
  <2>1. mpc \in Scheduling
    BY <1>1, <1>3 DEF IInv, MainInv, FieldTypes, MainPC, Scheduling
  <2>2. \A v \in Workers : v # w => wpc'[v] = wpc[v]
    BY <1>2, <1>4
  <2>3. \A u \in Tasks : InSeq(u, exceptions') => thrown[u] /\ frame[u] # "none"
    BY <1>3, <1>5 DEF IInv, ExceptionInv
  <2>4. \A u \in Tasks : frame[u] # "none" /\ thrown[u] =>
          InSeq(u, exceptions') \/ \E v \in Workers : wpc'[v] = "collect" /\ job[v] = u
    BY <1>5, <2>1, <2>2 DEF IInv, ExceptionInv, t
  <2> QED
    BY <1>2, <2>1, <2>3, <2>4 DEF ExceptionInv, Scheduling
<1> QED
  BY <1>6, <1>7, <1>8, <1>9, <1>10, <1>11 DEF IInv

LEMMA CompleteInv ==
  ASSUME IInv, NEW w \in Workers, Complete(w)
  PROVE  IInv'
<1> DEFINE t == job[w]
           s == IdOf[t]
<1>1. FieldTypes /\ wpc[w] = "run" /\ AtEnd(t)
  BY DEF IInv, Complete
<1>2. /\ UNCHANGED <<queue, shutdown, job, stolen, waiters, ip, thrown>>
      /\ UNCHANGED <<tasks, pending, exceptions, mpc, nextTask, outcome>>
      /\ signaled' = [signaled EXCEPT ![s] = TRUE]
      /\ raising' = [raising EXCEPT ![w] = s]
      /\ frame' = [frame EXCEPT ![t] = "final"]
      /\ wpc' = [wpc EXCEPT ![w] = "steal"]
  BY DEF Complete, poolVars, graphVars, mainVars
<1>3. /\ t \in Tasks /\ frame[t] = "running" /\ s \in Signals
      /\ \A v \in Workers : wpc[v] \in Holding /\ v # w => job[v] \in Tasks /\ job[v] # t
  BY <1>1, HolderFacts, IdOfAssumption DEF Holding
<1>4. /\ wpc \in [Workers -> WorkerPC] /\ frame \in [Tasks -> FrameState]
      /\ raising \in [Workers -> Signals] /\ signaled \in [Signals -> BOOLEAN]
  BY <1>1 DEF FieldTypes
<1> HIDE DEF t, s
<1>5. FieldTypes'
  <2>1. wpc' \in [Workers -> WorkerPC] /\ frame' \in [Tasks -> FrameState]
    BY <1>2, <1>3, <1>4 DEF WorkerPC, FrameState
  <2>2. raising' \in [Workers -> Signals] /\ signaled' \in [Signals -> BOOLEAN]
    BY <1>2, <1>3, <1>4
  <2> QED
    BY <1>1, <1>2, <2>1, <2>2 DEF FieldTypes
<1>6. QueueInv' /\ FrameInv'
  BY <1>2, <1>3, <1>4 DEF IInv, QueueInv, FrameInv
<1>7. WaiterInv'
  BY <1>2, <1>3, <1>4 DEF IInv, WaiterInv
<1>8. StolenInv'
  BY <1>1, <1>2, <1>3, <1>4 DEF IInv, StolenInv
<1>9. HoldInv'
  BY <1>1, <1>2, <1>3, <1>4 DEF IInv, HoldInv, Holding, NextOpIs, AtEnd, t
<1>10. MainInv'
  BY <1>2, <1>3, <1>4 DEF IInv, MainInv, FrameInv, InSeq
<1>11. PendingInv'
  <2>1. Unfinished' = Unfinished
    BY <1>1, <1>2, <1>3 DEF Unfinished, FieldTypes
  <2> QED
    BY <1>2, <2>1 DEF IInv, PendingInv
<1>12. FinalInv'
  <2>1. \A r \in Signals : signaled[r] => signaled'[r]
    BY <1>2, <1>4
  <2>2. signaled'[IdOf[t]]
    BY <1>2, <1>3, <1>4 DEF s
  <2> QED
    BY <1>1, <1>2, <1>3, <1>4, <2>1, <2>2, IdOfAssumption DEF IInv, FinalInv, AtEnd
<1>13. ExceptionInv'
  <2>1. \A v \in Workers : wpc'[v] = "collect" <=> wpc[v] = "collect"
    BY <1>1, <1>2, <1>4
  <2>2. \A u \in Tasks : /\ frame'[u] = "none" <=> frame[u] = "none"
                         /\ frame'[u] = "created" <=> frame[u] = "created"
    BY <1>2, <1>3, <1>4
  <2> QED
    BY <1>2, <2>1, <2>2 DEF IInv, ExceptionInv
<1>14. NoMissedRaise'
  BY <1>1, <1>2, <1>3, <1>4 DEF IInv, NoMissedRaise
<1> QED
  BY <1>5, <1>6, <1>7, <1>8, <1>9, <1>10, <1>11, <1>12, <1>13, <1>14 DEF IInv

LEMMA StealWaitersInv ==
  ASSUME IInv, NEW w \in Workers, StealWaiters(w)
  PROVE  IInv'
<1> DEFINE s == raising[w]
           list == waiters[s]
<1>1. FieldTypes /\ wpc[w] = "steal"
  BY DEF IInv, StealWaiters
<1>2. /\ UNCHANGED <<queue, shutdown, job, raising, signaled, ip, thrown>>
      /\ UNCHANGED <<tasks, pending, exceptions, mpc, nextTask, outcome>>
      /\ stolen' = [stolen EXCEPT ![w] = list]
      /\ waiters' = [waiters EXCEPT ![s] = <<>>]
      /\ frame' = [t \in Tasks |-> IF InSeq(t, list) THEN "stolen" ELSE frame[t]]
      /\ wpc' = [wpc EXCEPT ![w] = "wake"]
  BY DEF StealWaiters, graphVars, mainVars, poolVars
<1>3. /\ wpc \in [Workers -> WorkerPC] /\ frame \in [Tasks -> FrameState]
      /\ raising \in [Workers -> Signals] /\ waiters \in [Signals -> Seq(Tasks)]
      /\ stolen \in [Workers -> Seq(Tasks)] /\ s \in Signals /\ list \in Seq(Tasks)
  BY <1>1 DEF FieldTypes
<1>4. \A t \in Tasks : InSeq(t, list) => frame[t] = "waiting"
  BY <1>3 DEF IInv, WaiterInv
<1>5. stolen[w] = <<>> /\ NoDup(list)
  BY <1>1, <1>3 DEF IInv, StolenInv, WaiterInv
<1>6. /\ \A t \in Tasks : InSeq(t, list) <=> frame'[t] = "stolen" /\ frame[t] # "stolen"
      /\ \A t \in Tasks : ~InSeq(t, list) => frame'[t] = frame[t]
  BY <1>2, <1>4
<1>7. /\ stolen'[w] = list /\ \A v \in Workers : v # w => stolen'[v] = stolen[v]
      /\ waiters'[s] = <<>> /\ \A r \in Signals : r # s => waiters'[r] = waiters[r]
  BY <1>2, <1>3
<1>8. \A t \in Tasks : InSeq(t, waiters[s]) <=> InSeq(t, list)
  OBVIOUS
<1> HIDE DEF list, s
<1>9. FieldTypes'
  <2>1. wpc' \in [Workers -> WorkerPC] /\ frame' \in [Tasks -> FrameState]
    BY <1>2, <1>3 DEF WorkerPC, FrameState
  <2>2. stolen' \in [Workers -> Seq(Tasks)] /\ waiters' \in [Signals -> Seq(Tasks)]
    BY <1>2, <1>3, EmptySeq
  <2> QED
    BY <1>1, <1>2, <2>1, <2>2 DEF FieldTypes
<1>10. QueueInv' /\ FrameInv'
  BY <1>2, <1>4, <1>6 DEF IInv, QueueInv, FrameInv
<1>11. WaiterInv'
  <2>1. \A r \in Signals : NoDup(waiters'[r])
    BY <1>7, EmptyFacts DEF IInv, WaiterInv
  <2>2. \A r \in Signals, t \in Tasks : InSeq(t, waiters'[r]) =>
          InSeq(t, waiters[r]) /\ r # s /\ ~InSeq(t, list)
    BY <1>3, <1>7, <1>8, EmptyFacts DEF IInv, WaiterInv
  <2>3. \A t \in Tasks : frame'[t] = "waiting" => \E r \in Signals : InSeq(t, waiters'[r])
    <3> SUFFICES ASSUME NEW t \in Tasks, frame'[t] = "waiting"
                 PROVE  \E r \in Signals : InSeq(t, waiters'[r])
      OBVIOUS
    <3>1. ~InSeq(t, list) /\ frame[t] = "waiting"
      BY <1>6
    <3>2. PICK r \in Signals : InSeq(t, waiters[r])
      BY <3>1 DEF IInv, WaiterInv
    <3> QED
      BY <3>1, <3>2, <1>7, <1>8
  <2> QED
    BY <1>6, <2>1, <2>2, <2>3 DEF IInv, WaiterInv
<1>12. StolenInv'
  <2>1. \A v \in Workers : NoDup(stolen'[v])
    BY <1>5, <1>7 DEF IInv, StolenInv
  <2>2. \A v \in Workers : wpc'[v] \notin {"wake", "poke"} => stolen'[v] = <<>>
    BY <1>2, <1>3, <1>7 DEF IInv, StolenInv
  <2>3. \A v \in Workers, t \in Tasks : InSeq(t, stolen'[v]) => frame'[t] = "stolen"
    BY <1>4, <1>6, <1>7 DEF IInv, StolenInv
  <2>4. \A t \in Tasks : frame'[t] = "stolen" => \E v \in Workers : InSeq(t, stolen'[v])
    <3> SUFFICES ASSUME NEW t \in Tasks, frame'[t] = "stolen", ~InSeq(t, list)
                 PROVE  \E v \in Workers : InSeq(t, stolen'[v])
      BY <1>7
    <3>1. PICK v \in Workers : InSeq(t, stolen[v])
      BY <1>6 DEF IInv, StolenInv
    <3> QED
      BY <3>1, <1>5, <1>7, EmptyFacts
  <2>5. \A t \in Tasks : \A u, v \in Workers :
          InSeq(t, stolen'[u]) /\ InSeq(t, stolen'[v]) => u = v
    BY <1>4, <1>7 DEF IInv, StolenInv
  <2> QED
    BY <2>1, <2>2, <2>3, <2>4, <2>5 DEF StolenInv
<1>13. HoldInv'
  <2>1. \A v \in Workers : wpc[v] \in Holding => frame'[job[v]] = frame[job[v]]
    BY <1>4, <1>6, HolderFacts
  <2>2. \A t \in Tasks : frame'[t] \in {"running", "final"} => frame[t] = frame'[t]
    BY <1>6
  <2> QED
    <3>1. \A v \in Workers : v # w => wpc'[v] = wpc[v]
      BY <1>2, <1>3
    <3>2. /\ wpc'[w] = "wake" /\ wpc[w] = "steal"
      BY <1>1, <1>2, <1>3
    <3>3. \A v \in Workers : wpc'[v] \in Holding <=> wpc[v] \in Holding
      BY <3>1, <3>2 DEF Holding
    <3>4. \A v \in Workers : wpc'[v] = "add" => NextOpIs(job[v], "wait")'
      BY <1>2, <3>1, <3>2 DEF IInv, HoldInv, NextOpIs, AtEnd
    <3> QED
      BY <1>2, <2>1, <2>2, <3>1, <3>2, <3>3, <3>4 DEF IInv, HoldInv, Holding
<1>14. MainInv'
  <2>1. \A t \in Tasks : frame[t] \in {"none", "created", "finished"} <=> frame'[t] \in {"none", "created", "finished"}
    BY <1>4, <1>6
  <2>2. \A t \in Tasks : frame'[t] \in {"none", "created", "finished"} => frame[t] = frame'[t]
    BY <1>6
  <2>3. \A i \in DOMAIN tasks : tasks[i] \in Tasks
    BY <1>1 DEF FieldTypes
  <2> QED
    BY <1>2, <2>1, <2>2, <2>3 DEF IInv, MainInv
<1>15. PendingInv'
  <2>1. Unfinished' = Unfinished
    BY <1>1, <1>2, <1>4, <1>6 DEF Unfinished, FieldTypes
  <2> QED
    BY <1>2, <2>1 DEF IInv, PendingInv
<1>16. FinalInv'
  BY <1>2, <1>6 DEF IInv, FinalInv, AtEnd
<1>17. ExceptionInv'
  <2>1. \A v \in Workers : wpc'[v] = "collect" <=> wpc[v] = "collect"
    BY <1>1, <1>2, <1>3
  <2>2. \A u \in Tasks : /\ frame'[u] = "none" <=> frame[u] = "none"
                         /\ frame'[u] = "created" <=> frame[u] = "created"
    BY <1>4, <1>6
  <2> QED
    BY <1>2, <2>1, <2>2 DEF IInv, ExceptionInv
<1>18. NoMissedRaise'
  BY <1>1, <1>2, <1>3, <1>7 DEF IInv, NoMissedRaise, s
<1> QED
  BY <1>9, <1>10, <1>11, <1>12, <1>13, <1>14, <1>15, <1>16, <1>17, <1>18 DEF IInv

(* Putting a handle that nobody has in the queue's place: what a change of *)
(* one frame to "queued" leaves alone.                                     *)
LEMMA EnqueueFacts ==
  ASSUME IInv, NEW t \in Tasks, frame[t] \in {"created", "running", "stolen"},
         queue' = Append(queue, t),
         frame' = [frame EXCEPT ![t] = "queued"],
         UNCHANGED tasks
  PROVE  /\ queue' \in Seq(Tasks)
         /\ frame' \in [Tasks -> FrameState]
         /\ QueueInv' /\ FrameInv'
         /\ Unfinished' = Unfinished
         /\ frame'[t] = "queued" /\ \A u \in Tasks : u # t => frame'[u] = frame[u]
<1>1. /\ frame \in [Tasks -> FrameState] /\ queue \in Seq(Tasks) /\ tasks \in Seq(Tasks)
  BY DEF IInv, FieldTypes
<1>2. frame' \in [Tasks -> FrameState]
  BY <1>1 DEF FrameState
<1>3. frame'[t] = "queued" /\ \A u \in Tasks : u # t => frame'[u] = frame[u]
  BY <1>1
<1>4. ~InSeq(t, queue)
  BY DEF IInv, QueueInv
<1>5. /\ queue' \in Seq(Tasks) /\ NoDup(queue')
      /\ \A x : InSeq(x, queue') <=> InSeq(x, queue) \/ x = t
  BY <1>1, <1>4, AppendFacts DEF IInv, QueueInv
<1>6. QueueInv' /\ FrameInv'
  BY <1>3, <1>5 DEF IInv, QueueInv, FrameInv
<1>7. Unfinished' = Unfinished
  BY <1>1, <1>3 DEF Unfinished
<1> QED
  BY <1>2, <1>3, <1>5, <1>6, <1>7

LEMMA WakeWaiterInv ==
  ASSUME IInv, NEW w \in Workers, WakeWaiter(w)
  PROVE  IInv'
<1> DEFINE t == Head(stolen[w])
<1>1. FieldTypes /\ wpc[w] = "wake" /\ stolen[w] # <<>>
  BY DEF IInv, WakeWaiter
<1>2. /\ UNCHANGED <<shutdown, job, raising, signaled, waiters, ip, thrown>>
      /\ UNCHANGED <<tasks, pending, exceptions, mpc, nextTask, outcome>>
      /\ queue' = Append(queue, t)
      /\ frame' = [frame EXCEPT ![t] = "queued"]
      /\ stolen' = [stolen EXCEPT ![w] = Tail(stolen[w])]
      /\ wpc' = [wpc EXCEPT ![w] = "poke"]
  BY DEF WakeWaiter, signalVars, graphVars, mainVars
<1>3. /\ wpc \in [Workers -> WorkerPC] /\ stolen \in [Workers -> Seq(Tasks)]
      /\ stolen[w] \in Seq(Tasks)
  BY <1>1 DEF FieldTypes
<1>4. /\ t \in Tasks /\ Tail(stolen[w]) \in Seq(Tasks)
      /\ \A x : InSeq(x, stolen[w]) <=> InSeq(x, Tail(stolen[w])) \/ x = t
      /\ NoDup(Tail(stolen[w])) /\ ~InSeq(t, Tail(stolen[w]))
  BY <1>1, <1>3, TailFacts DEF IInv, StolenInv
<1>5. frame[t] = "stolen"
  BY <1>4 DEF IInv, StolenInv
<1>6. /\ stolen'[w] = Tail(stolen[w]) /\ wpc'[w] = "poke"
      /\ \A v \in Workers : v # w => stolen'[v] = stolen[v] /\ wpc'[v] = wpc[v]
  BY <1>2, <1>3
<1> HIDE DEF t
<1>7. /\ queue' \in Seq(Tasks)
      /\ frame' \in [Tasks -> FrameState]
      /\ QueueInv' /\ FrameInv'
      /\ Unfinished' = Unfinished
      /\ frame'[t] = "queued" /\ \A u \in Tasks : u # t => frame'[u] = frame[u]
  BY <1>2, <1>4, <1>5, EnqueueFacts
<1>8. FieldTypes'
  <2>1. wpc' \in [Workers -> WorkerPC] /\ stolen' \in [Workers -> Seq(Tasks)]
    BY <1>2, <1>3, <1>4 DEF WorkerPC
  <2> QED
    BY <1>1, <1>2, <1>7, <2>1 DEF FieldTypes
<1>9. WaiterInv'
  BY <1>2, <1>4, <1>5, <1>7 DEF IInv, WaiterInv
<1>10. StolenInv'
  <2>1. \A v \in Workers : NoDup(stolen'[v])
    BY <1>4, <1>6 DEF IInv, StolenInv
  <2>2. \A v \in Workers : wpc'[v] \notin {"wake", "poke"} => stolen'[v] = <<>>
    BY <1>6 DEF IInv, StolenInv
  <2>3. \A v \in Workers, u \in Tasks : InSeq(u, stolen'[v]) => InSeq(u, stolen[v]) /\ u # t
    BY <1>4, <1>6 DEF IInv, StolenInv
  <2>4. \A v \in Workers, u \in Tasks : InSeq(u, stolen[v]) /\ u # t => InSeq(u, stolen'[v])
    BY <1>4, <1>6
  <2>5. \A u \in Tasks : frame'[u] = "stolen" => \E v \in Workers : InSeq(u, stolen'[v])
    BY <1>7, <2>4 DEF IInv, StolenInv
  <2> QED
    BY <1>7, <2>1, <2>2, <2>3, <2>5 DEF IInv, StolenInv
<1>11. HoldInv'
  <2>1. \A v \in Workers : wpc[v] \in Holding => frame'[job[v]] = frame[job[v]]
    BY <1>5, <1>7, HolderFacts
  <2>2. \A v \in Workers : wpc'[v] \in Holding <=> wpc[v] \in Holding
    BY <1>1, <1>6 DEF Holding
  <2>3. \A v \in Workers : wpc'[v] = "add" => NextOpIs(job[v], "wait")'
    BY <1>2, <1>6 DEF IInv, HoldInv, NextOpIs, AtEnd
  <2> QED
    BY <1>1, <1>2, <1>5, <1>6, <1>7, <2>1, <2>2, <2>3 DEF IInv, HoldInv, Holding
<1>12. MainInv'
  <2>1. \A i \in DOMAIN tasks : tasks[i] \in Tasks
    BY <1>1 DEF FieldTypes
  <2> QED
    BY <1>2, <1>4, <1>5, <1>7, <2>1 DEF IInv, MainInv
<1>13. PendingInv' /\ FinalInv'
  BY <1>2, <1>7 DEF IInv, PendingInv, FinalInv, AtEnd
<1>14. ExceptionInv'
  <2>1. \A v \in Workers : wpc'[v] = "collect" <=> wpc[v] = "collect"
    BY <1>1, <1>6
  <2>2. \A u \in Tasks : /\ frame'[u] = "none" <=> frame[u] = "none"
                         /\ frame'[u] = "created" <=> frame[u] = "created"
    BY <1>5, <1>7
  <2> QED
    BY <1>2, <2>1, <2>2 DEF IInv, ExceptionInv
<1>15. NoMissedRaise'
  BY <1>1, <1>2, <1>6 DEF IInv, NoMissedRaise
<1> QED
  BY <1>7, <1>8, <1>9, <1>10, <1>11, <1>12, <1>13, <1>14, <1>15 DEF IInv

LEMMA RequeueSelfInv ==
  ASSUME IInv, NEW w \in Workers, RequeueSelf(w)
  PROVE  IInv'
<1> DEFINE t == job[w]
<1>1. FieldTypes /\ wpc[w] = "wake" /\ stolen[w] = <<>> /\ frame[t] = "running"
  BY DEF IInv, RequeueSelf
<1>2. /\ UNCHANGED <<shutdown, job, raising, stolen, signaled, waiters, ip, thrown>>
      /\ UNCHANGED <<tasks, pending, exceptions, mpc, nextTask, outcome>>
      /\ queue' = Append(queue, t)
      /\ frame' = [frame EXCEPT ![t] = "queued"]
      /\ wpc' = [wpc EXCEPT ![w] = "pokeSelf"]
  BY DEF RequeueSelf, signalVars, graphVars, mainVars
<1>3. wpc \in [Workers -> WorkerPC]
  BY <1>1 DEF FieldTypes
<1>4. /\ t \in Tasks
      /\ \A v \in Workers : wpc[v] \in Holding /\ v # w => job[v] \in Tasks /\ job[v] # t
  BY <1>1, HolderFacts DEF Holding
<1>5. wpc'[w] = "pokeSelf" /\ \A v \in Workers : v # w => wpc'[v] = wpc[v]
  BY <1>2, <1>3
<1>6. /\ queue' \in Seq(Tasks)
      /\ frame' \in [Tasks -> FrameState]
      /\ QueueInv' /\ FrameInv'
      /\ Unfinished' = Unfinished
      /\ frame'[t] = "queued" /\ \A u \in Tasks : u # t => frame'[u] = frame[u]
  BY <1>1, <1>2, <1>4, EnqueueFacts
<1>7. FieldTypes'
  <2>1. wpc' \in [Workers -> WorkerPC]
    BY <1>2, <1>3 DEF WorkerPC
  <2> QED
    BY <1>1, <1>2, <1>6, <2>1 DEF FieldTypes
<1>8. WaiterInv'
  BY <1>1, <1>2, <1>4, <1>6 DEF IInv, WaiterInv
<1>9. StolenInv'
  BY <1>1, <1>2, <1>4, <1>5, <1>6 DEF IInv, StolenInv
<1>10. HoldInv'
  <2>1. \A v \in Workers : v # w /\ wpc[v] \in Holding => frame'[job[v]] = frame[job[v]]
    BY <1>4, <1>6
  <2>2. \A v \in Workers : wpc'[v] \in Holding <=> wpc[v] \in Holding /\ v # w
    BY <1>5 DEF Holding
  <2>3. \A v \in Workers : wpc'[v] = "add" => NextOpIs(job[v], "wait")'
    BY <1>2, <1>5 DEF IInv, HoldInv, NextOpIs, AtEnd
  <2>4. \A u \in Tasks : frame'[u] \in {"running", "final"} =>
          \E v \in Workers : wpc'[v] \in Holding /\ job[v] = u
    BY <1>6, <2>2 DEF IInv, HoldInv
  <2> QED
    BY <1>2, <1>5, <2>1, <2>2, <2>3, <2>4 DEF IInv, HoldInv, Holding
<1>11. MainInv'
  <2>1. \A i \in DOMAIN tasks : tasks[i] \in Tasks
    BY <1>1 DEF FieldTypes
  <2> QED
    BY <1>1, <1>2, <1>4, <1>6, <2>1 DEF IInv, MainInv
<1>12. PendingInv' /\ FinalInv'
  BY <1>2, <1>6 DEF IInv, PendingInv, FinalInv, AtEnd
<1>13. ExceptionInv'
  <2>1. \A v \in Workers : wpc'[v] = "collect" <=> wpc[v] = "collect"
    BY <1>1, <1>5
  <2>2. \A u \in Tasks : /\ frame'[u] = "none" <=> frame[u] = "none"
                         /\ frame'[u] = "created" <=> frame[u] = "created"
    BY <1>1, <1>6
  <2> QED
    BY <1>2, <2>1, <2>2 DEF IInv, ExceptionInv
<1>14. NoMissedRaise'
  BY <1>1, <1>2, <1>5 DEF IInv, NoMissedRaise
<1> QED
  BY <1>6, <1>7, <1>8, <1>9, <1>10, <1>11, <1>12, <1>13, <1>14 DEF IInv

LEMMA DecrementPendingInv ==
  ASSUME IInv, NEW w \in Workers, DecrementPending(w)
  PROVE  IInv'
<1> DEFINE t == job[w]
<1>1. FieldTypes /\ wpc[w] = "dec"
  BY DEF IInv, DecrementPending
<1>2. /\ UNCHANGED <<queue, shutdown, job, raising, stolen, signaled, waiters, ip, thrown>>
      /\ UNCHANGED <<tasks, exceptions, mpc, nextTask, outcome>>
      /\ pending' = pending - 1
      /\ frame' = [frame EXCEPT ![t] = "finished"]
      /\ wpc' = [wpc EXCEPT ![w] = IF pending = 1 THEN "notify" ELSE "leave"]
  BY DEF DecrementPending, poolVars, signalVars, mainVars
<1>3. wpc \in [Workers -> WorkerPC] /\ frame \in [Tasks -> FrameState] /\ tasks \in Seq(Tasks)
  BY <1>1 DEF FieldTypes
<1>4. /\ t \in Tasks /\ frame[t] = "final"
      /\ \A v \in Workers : wpc[v] \in Holding /\ v # w => job[v] \in Tasks /\ job[v] # t
  BY <1>1, HolderFacts DEF Holding, IInv, HoldInv
<1>5. wpc'[w] \in {"notify", "leave"} /\ \A v \in Workers : v # w => wpc'[v] = wpc[v]
  BY <1>2, <1>3
<1>6. frame'[t] = "finished" /\ \A u \in Tasks : u # t => frame'[u] = frame[u]
  BY <1>2, <1>3, <1>4
<1>7. FieldTypes'
  <2>1. wpc' \in [Workers -> WorkerPC]
    BY <1>2, <1>3 DEF WorkerPC
  <2>2. frame' \in [Tasks -> FrameState]
    BY <1>2, <1>3 DEF FrameState
  <2>3. pending' \in Int
    BY <1>1, <1>2 DEF FieldTypes
  <2> QED
    BY <1>1, <1>2, <2>1, <2>2, <2>3 DEF FieldTypes
<1>8. mpc \in Scheduling
  BY <1>1, <1>4 DEF IInv, MainInv, FieldTypes, MainPC, Scheduling
<1>9. QueueInv' /\ WaiterInv' /\ FrameInv'
  BY <1>2, <1>4, <1>6 DEF IInv, QueueInv, WaiterInv, FrameInv
<1>10. StolenInv'
  BY <1>1, <1>2, <1>4, <1>5, <1>6 DEF IInv, StolenInv
<1>11. HoldInv'
  <2>1. \A v \in Workers : v # w /\ wpc[v] \in Holding => frame'[job[v]] = frame[job[v]]
    BY <1>4, <1>6
  <2>2. \A v \in Workers : wpc'[v] \in Holding <=> wpc[v] \in Holding /\ v # w
    BY <1>5 DEF Holding
  <2>3. \A v \in Workers : wpc'[v] = "add" => NextOpIs(job[v], "wait")'
    BY <1>2, <1>5 DEF IInv, HoldInv, NextOpIs, AtEnd
  <2>4. \A u \in Tasks : frame'[u] \in {"running", "final"} =>
          \E v \in Workers : wpc'[v] \in Holding /\ job[v] = u
    BY <1>6, <2>2 DEF IInv, HoldInv
  <2> QED
    BY <1>2, <1>5, <2>1, <2>2, <2>3, <2>4 DEF IInv, HoldInv, Holding
<1>12. MainInv'
  <2>1. \A i \in DOMAIN tasks : tasks[i] \in Tasks
    BY <1>3
  <2> QED
    BY <1>2, <1>4, <1>6, <2>1 DEF IInv, MainInv
<1>13. PendingInv'
  <2>1. PICK k \in DOMAIN tasks : tasks[k] = t
    BY <1>4 DEF IInv, FrameInv, InSeq
  <2>2. \A i \in DOMAIN tasks : tasks[i] = t => i = k
    BY <2>1 DEF IInv, FrameInv, NoDup
  <2>3. k \in Unfinished /\ Unfinished' = Unfinished \ {k}
    BY <1>2, <1>3, <1>4, <1>6, <2>1, <2>2 DEF Unfinished
  <2>4. IsFiniteSet(Unfinished)
    <3>1. DOMAIN tasks = 1..Len(tasks) /\ Len(tasks) \in Nat
      BY <1>3, LenProperties
    <3>2. IsFiniteSet(1..Len(tasks))
      BY <3>1, FS_Interval
    <3> QED
      BY <3>1, <3>2, FS_Subset DEF Unfinished
  <2>5. Cardinality(Unfinished') = Cardinality(Unfinished) - 1
    BY <2>3, <2>4, FS_RemoveElement
  <2> QED
    BY <1>2, <1>8, <2>5 DEF IInv, PendingInv
<1>14. FinalInv'
  BY <1>2, <1>4, <1>6 DEF IInv, FinalInv, AtEnd
<1>15. ExceptionInv'
  <2>1. \A v \in Workers : wpc'[v] = "collect" <=> wpc[v] = "collect"
    BY <1>1, <1>5
  <2>2. \A u \in Tasks : /\ frame'[u] = "none" <=> frame[u] = "none"
                         /\ frame'[u] = "created" <=> frame[u] = "created"
    BY <1>4, <1>6
  <2> QED
    BY <1>2, <2>1, <2>2 DEF IInv, ExceptionInv
<1>16. NoMissedRaise'
  BY <1>1, <1>2, <1>5 DEF IInv, NoMissedRaise
<1> QED
  BY <1>7, <1>9, <1>10, <1>11, <1>12, <1>13, <1>14, <1>15, <1>16 DEF IInv

-----------------------------------------------------------------------------
(* Steps of Main that move no handle                                       *)

LEMMA NotifyDoneInv ==
  ASSUME IInv, NEW w \in Workers, NotifyDone(w)
  PROVE  IInv'
<1>1. FieldTypes /\ wpc[w] = "notify"
  BY DEF IInv, NotifyDone
<1>2. /\ UNCHANGED <<queue, shutdown, job, raising, stolen, signaled, waiters>>
      /\ UNCHANGED <<frame, ip, thrown, tasks, pending, exceptions, nextTask, outcome>>
      /\ mpc' = mpc \/ (mpc = "asleep" /\ mpc' = "check")
      /\ wpc' = [wpc EXCEPT ![w] = "leave"]
  BY DEF NotifyDone, poolVars, signalVars, coroVars, graphVars
<1>3. wpc' \in [Workers -> WorkerPC] /\ \A v \in Workers : Moves(v)
  BY <1>1, <1>2 DEF FieldTypes, WorkerPC, Moves, Holding
<1>4. HandlesInv' /\ \A v \in Workers : wpc'[v] = "collect" <=> wpc[v] = "collect"
  BY <1>2, <1>3, MovesKeepHandles DEF signalVars, coroVars, graphVars
<1>5. FieldTypes'
  BY <1>1, <1>2, <1>3 DEF FieldTypes, MainPC
<1>6. MainInv' /\ PendingInv'
  BY <1>2 DEF IInv, MainInv, PendingInv, Unfinished, Scheduling
<1>7. ExceptionInv'
  BY <1>2, <1>4 DEF IInv, ExceptionInv, Scheduling
<1> QED
  BY <1>4, <1>5, <1>6, <1>7 DEF IInv, HandlesInv

(* Run's last poke and its wait.                                           *)
LEMMA RunWaitInv ==
  ASSUME IInv, RunPoke \/ RunSleep \/ RunSpuriousWake
  PROVE  IInv'
<1>1. /\ wpc \in [Workers -> WorkerPC] /\ FieldTypes
      /\ nextTask \in Nat /\ Len(tasks) \in Nat
  BY LenProperties DEF IInv, FieldTypes
<1>2. /\ UNCHANGED <<queue, shutdown, job, raising, stolen, signaled, waiters>>
      /\ UNCHANGED <<frame, ip, thrown, tasks, pending, exceptions, nextTask, outcome>>
      /\ mpc \in Scheduling
      /\ \/ mpc' = "enqueue" /\ nextTask <= Len(tasks)
         \/ mpc' = "check" /\ nextTask > Len(tasks)
         \/ mpc' = "asleep" /\ nextTask > Len(tasks)
  BY <1>1 DEF RunPoke, RunSleep, RunSpuriousWake, poolVars, workerVars, signalVars,
              coroVars, graphVars, Scheduling, IInv, MainInv
<1>3. wpc' \in [Workers -> WorkerPC] /\ \A v \in Workers : Moves(v)
  BY <1>1, NotifyOneFacts DEF RunPoke, RunSleep, RunSpuriousWake, workerVars, Moves, Holding
<1>4. HandlesInv' /\ \A v \in Workers : wpc'[v] = "collect" <=> wpc[v] = "collect"
  BY <1>2, <1>3, MovesKeepHandles DEF signalVars, coroVars, graphVars
<1>5. FieldTypes'
  BY <1>1, <1>2, <1>3 DEF FieldTypes, MainPC
<1>6. MainInv' /\ PendingInv'
  BY <1>2 DEF IInv, MainInv, PendingInv, Unfinished, Scheduling
<1>7. ExceptionInv'
  BY <1>2, <1>4 DEF IInv, ExceptionInv, Scheduling
<1> QED
  BY <1>4, <1>5, <1>6, <1>7 DEF IInv, HandlesInv

(* The predicate: when nothing is pending every task is finished.          *)
LEMMA RunCheckInv ==
  ASSUME IInv, RunCheck
  PROVE  IInv'
<1>1. FieldTypes /\ mpc = "check" /\ wpc \in [Workers -> WorkerPC]
  BY DEF IInv, RunCheck, FieldTypes
<1>2. /\ UNCHANGED <<queue, shutdown, wpc, job, raising, stolen, signaled, waiters>>
      /\ UNCHANGED <<frame, ip, thrown, tasks, pending, exceptions, nextTask, outcome>>
      /\ mpc' = IF pending = 0 THEN "finish" ELSE "sleep"
  BY DEF RunCheck, poolVars, workerVars, signalVars, coroVars, graphVars
<1>3. wpc' \in [Workers -> WorkerPC] /\ \A v \in Workers : Moves(v)
  BY <1>1, <1>2 DEF Moves
<1>4. HandlesInv'
  BY <1>2, <1>3, MovesKeepHandles DEF signalVars, coroVars, graphVars
<1>5. FieldTypes'
  BY <1>1, <1>2 DEF FieldTypes, MainPC
<1>6. CASE pending = 0
  <2>1. IsFiniteSet(Unfinished)
    <3>1. tasks \in Seq(Tasks) /\ DOMAIN tasks = 1..Len(tasks) /\ Len(tasks) \in Nat
      BY <1>1, LenProperties DEF FieldTypes
    <3>2. IsFiniteSet(1..Len(tasks))
      BY <3>1, FS_Interval
    <3> QED
      BY <3>1, <3>2, FS_Subset DEF Unfinished
  <2>2. Unfinished = {}
    BY <1>1, <1>6, <2>1, FS_EmptySet DEF IInv, PendingInv, Scheduling
  <2>3. \A t \in Tasks : frame[t] \in {"none", "finished"}
    BY <2>2 DEF Unfinished, IInv, FrameInv, InSeq
  <2>4. MainInv' /\ PendingInv'
    BY <1>2, <1>6, <2>3 DEF MainInv, PendingInv, Scheduling
  <2>5. ExceptionInv'
    BY <1>1, <1>2, <1>6 DEF IInv, ExceptionInv, Scheduling
  <2> QED
    BY <1>4, <1>5, <2>4, <2>5 DEF IInv, HandlesInv
<1>7. CASE pending # 0
  <2>1. MainInv' /\ PendingInv'
    BY <1>1, <1>2, <1>7 DEF IInv, MainInv, PendingInv, Unfinished, Scheduling
  <2>2. ExceptionInv'
    BY <1>1, <1>2, <1>7 DEF IInv, ExceptionInv, Scheduling
  <2> QED
    BY <1>4, <1>5, <2>1, <2>2 DEF IInv, HandlesInv
<1> QED
  BY <1>6, <1>7

LEMMA RunFinishInv ==
  ASSUME IInv, RunFinish
  PROVE  IInv'
<1>1. FieldTypes /\ mpc = "finish"
  BY DEF IInv, RunFinish
<1>2. /\ UNCHANGED <<queue, shutdown, wpc, job, raising, stolen, signaled, waiters>>
      /\ UNCHANGED <<frame, ip, thrown, tasks, pending, nextTask>>
      /\ outcome' = IF exceptions = <<>> THEN Null ELSE Head(exceptions)
      /\ exceptions' = <<>> /\ mpc' = "returned"
  BY DEF RunFinish, poolVars, workerVars, signalVars, coroVars
<1>3. /\ exceptions \in Seq(Tasks)
      /\ exceptions # <<>> => Head(exceptions) \in Tasks /\ InSeq(Head(exceptions), exceptions)
  BY <1>1, TailFacts DEF FieldTypes
<1>4. FieldTypes'
  BY <1>1, <1>2, <1>3, EmptySeq DEF FieldTypes, MainPC
<1>5. QueueInv' /\ WaiterInv' /\ StolenInv' /\ FrameInv'
  BY <1>2 DEF IInv, QueueInv, WaiterInv, StolenInv, FrameInv
<1>6. HoldInv' /\ FinalInv' /\ NoMissedRaise'
  BY <1>2 DEF IInv, HoldInv, NextOpIs, AtEnd, FinalInv, NoMissedRaise
<1>7. MainInv' /\ PendingInv'
  BY <1>1, <1>2 DEF IInv, MainInv, PendingInv, Scheduling
<1>8. ExceptionInv'
  <2>1. \A w \in Workers : wpc[w] # "collect"
    BY <1>1 DEF IInv, HoldInv, MainInv, Holding
  <2>2. \A t \in Tasks : frame[t] # "none" /\ thrown[t] => InSeq(t, exceptions)
    BY <1>1, <2>1 DEF IInv, ExceptionInv
  <2>3. \A t \in Tasks : InSeq(t, exceptions) => frame[t] # "none" /\ thrown[t]
    BY DEF IInv, ExceptionInv
  <2>4. CASE exceptions = <<>>
    BY <1>2, <2>2, <2>4, EmptyFacts DEF ExceptionInv, Scheduling
  <2>5. CASE exceptions # <<>>
    BY <1>2, <1>3, <2>3, <2>5, EmptyFacts, TasksAssumption DEF ExceptionInv, Scheduling
  <2> QED
    BY <2>4, <2>5
<1> QED
  BY <1>4, <1>5, <1>6, <1>7, <1>8 DEF IInv

(* The destructor, once the tasks are destroyed.                           *)
LEMMA DtorInv ==
  ASSUME IInv, Shutdown \/ WakeAll \/ Join
  PROVE  IInv'
<1>1. wpc \in [Workers -> WorkerPC] /\ FieldTypes
  BY DEF IInv, FieldTypes
<1>2. /\ UNCHANGED <<queue, job, raising, stolen, signaled, waiters>>
      /\ UNCHANGED <<frame, ip, thrown, tasks, pending, exceptions, nextTask, outcome>>
      /\ mpc \in {"dtor", "wakeAll", "join"} /\ mpc' \in {"wakeAll", "join", "gone"}
      /\ shutdown' = shutdown \/ shutdown' = TRUE
  BY DEF Shutdown, WakeAll, Join, poolVars, workerVars, signalVars, coroVars, graphVars
<1>3. wpc' \in [Workers -> WorkerPC] /\ \A v \in Workers : Moves(v)
  BY <1>1 DEF Shutdown, WakeAll, Join, workerVars, Moves, Holding, WorkerPC
<1>4. HandlesInv' /\ \A v \in Workers : wpc'[v] = "collect" <=> wpc[v] = "collect"
  BY <1>2, <1>3, MovesKeepHandles DEF signalVars, coroVars, graphVars
<1>5. FieldTypes'
  <2>1. shutdown' \in BOOLEAN
    BY <1>1, <1>2 DEF FieldTypes
  <2> QED
    BY <1>1, <1>2, <1>3, <2>1 DEF FieldTypes, MainPC
<1>6. MainInv' /\ PendingInv'
  BY <1>2 DEF IInv, MainInv, PendingInv, Scheduling
<1>7. ExceptionInv'
  BY <1>2 DEF IInv, ExceptionInv, Scheduling
<1> QED
  BY <1>4, <1>5, <1>6, <1>7 DEF IInv, HandlesInv

-----------------------------------------------------------------------------
(* Building, running and clearing a frame                                  *)

(* While the client builds, no worker holds anything.                      *)
LEMMA QuietFacts ==
  ASSUME IInv, \A t \in Tasks : frame[t] \in {"none", "created", "finished"}
  PROVE  /\ queue = <<>>
         /\ \A s \in Signals : waiters[s] = <<>>
         /\ \A w \in Workers : stolen[w] = <<>>
         /\ \A w \in Workers : wpc[w] \notin Holding
<1>1. /\ queue \in Seq(Tasks) /\ waiters \in [Signals -> Seq(Tasks)]
      /\ stolen \in [Workers -> Seq(Tasks)]
  BY DEF IInv, FieldTypes
<1>2. queue = <<>>
  <2>1. \A t \in Tasks : ~InSeq(t, queue)
    BY DEF IInv, QueueInv
  <2> QED
    BY <1>1, <2>1, MemberFacts
<1>3. ASSUME NEW s \in Signals PROVE waiters[s] = <<>>
  <2>1. waiters[s] \in Seq(Tasks) /\ \A t \in Tasks : ~InSeq(t, waiters[s])
    BY <1>1 DEF IInv, WaiterInv
  <2> QED
    BY <2>1, MemberFacts
<1>4. ASSUME NEW w \in Workers PROVE stolen[w] = <<>>
  <2>1. stolen[w] \in Seq(Tasks) /\ \A t \in Tasks : ~InSeq(t, stolen[w])
    BY <1>1 DEF IInv, StolenInv
  <2> QED
    BY <2>1, MemberFacts
<1>5. \A w \in Workers : wpc[w] \notin Holding
  BY HolderFacts
<1> QED
  BY <1>2, <1>3, <1>4, <1>5

(* Add names a task that is not in the frame yet.                          *)
LEMMA AddIsNew ==
  ASSUME IInv, NEW t \in Tasks, Add(t)
  PROVE  NoDup(tasks') /\ ~InSeq(t, tasks) /\ frame[t] = "none"
<1>1. tasks' = Append(tasks, t) /\ tasks \in Seq(Tasks)
  BY DEF IInv, FieldTypes, Add
<1>2. NoDup(tasks') /\ ~InSeq(t, tasks)
  <2>1. PICK p \in Programs : Len(tasks) < Len(p) /\ tasks' = SubSeq(p, 1, Len(tasks) + 1)
    BY <1>1 DEF Add
  <2>2. /\ p \in Seq(Tasks) /\ Len(p) \in Nat /\ Len(tasks) \in Nat /\ DOMAIN p = 1..Len(p)
        /\ DOMAIN tasks = 1..Len(tasks)
        /\ \A i, j \in 1..Len(p) : p[i] = p[j] => i = j
    BY <1>1, <2>1, LenProperties, ProgramsAssumption
  <2>3. /\ tasks' \in Seq(Tasks) /\ Len(tasks') = Len(tasks) + 1
        /\ \A i \in 1..Len(tasks) : tasks'[i] = tasks[i]
        /\ tasks'[Len(tasks) + 1] = t /\ DOMAIN tasks' = 1..(Len(tasks) + 1)
    BY <1>1, AppendProperties, LenProperties
  <2>4. \A i \in 1..(Len(tasks) + 1) : i \in 1..Len(p) /\ tasks'[i] = p[i]
    <3>1. \A i \in 1..(Len(tasks) + 1) : p[i] \in Tasks /\ i \in 1..Len(p)
      BY <2>1, <2>2, ElementOfSeq
    <3> QED
      BY <2>1, <2>2, <3>1, SubSeqProperties
  <2>5. \A i, j \in 1..(Len(tasks) + 1) : tasks'[i] = tasks'[j] => i = j
    BY <2>2, <2>4
  <2> QED
    BY <2>2, <2>3, <2>5 DEF NoDup, InSeq
<1> QED  BY <1>2 DEF IInv, FrameInv

LEMMA AddInv ==
  ASSUME IInv, NEW t \in Tasks, Add(t)
  PROVE  IInv'
<1>1. FieldTypes /\ mpc = "client"
  BY DEF IInv, Add
<1>2. /\ UNCHANGED <<queue, shutdown, wpc, job, raising, stolen, signaled, waiters>>
      /\ UNCHANGED <<pending, exceptions, mpc, nextTask, outcome>>
      /\ tasks' = Append(tasks, t)
      /\ frame' = [frame EXCEPT ![t] = "created"]
      /\ ip' = [ip EXCEPT ![t] = 1]
      /\ thrown' = [thrown EXCEPT ![t] = FALSE]
  BY DEF Add, poolVars, workerVars, signalVars, mainVars
<1>3. /\ tasks \in Seq(Tasks) /\ frame \in [Tasks -> FrameState]
      /\ ip \in [Tasks -> Nat \ {0}] /\ thrown \in [Tasks -> BOOLEAN]
  BY <1>1 DEF FieldTypes
<1>4. NoDup(tasks') /\ ~InSeq(t, tasks)
  BY AddIsNew
<1>5. frame[t] = "none"
  BY <1>4 DEF IInv, FrameInv
<1>6. /\ frame'[t] = "created" /\ thrown'[t] = FALSE
      /\ \A u \in Tasks : u # t => frame'[u] = frame[u] /\ ip'[u] = ip[u] /\ thrown'[u] = thrown[u]
  BY <1>2, <1>3
<1>7. /\ tasks' \in Seq(Tasks)
      /\ \A x : InSeq(x, tasks') <=> InSeq(x, tasks) \/ x = t
  BY <1>2, <1>3, AppendFacts
<1>8. \A u \in Tasks : frame'[u] \in {"none", "created"} /\ frame[u] \in {"none", "created"}
  BY <1>1, <1>6 DEF IInv, MainInv
<1>9. \A w \in Workers : wpc[w] \notin Holding
  BY <1>8, QuietFacts
<1>10. FieldTypes'
  <2>1. frame' \in [Tasks -> FrameState]
    BY <1>2, <1>3 DEF FrameState
  <2>2. ip' \in [Tasks -> Nat \ {0}]
    BY <1>2, <1>3
  <2>3. thrown' \in [Tasks -> BOOLEAN]
    BY <1>2, <1>3
  <2> QED
    BY <1>1, <1>2, <1>7, <2>1, <2>2, <2>3 DEF FieldTypes
<1>11. QueueInv' /\ WaiterInv' /\ StolenInv'
  BY <1>2, <1>8 DEF IInv, QueueInv, WaiterInv, StolenInv
<1>12. HoldInv'
  BY <1>2, <1>8, <1>9 DEF HoldInv, Holding
<1>13. FrameInv'
  BY <1>4, <1>6, <1>7 DEF IInv, FrameInv
<1>14. MainInv' /\ PendingInv' /\ FinalInv'
  BY <1>1, <1>2, <1>8 DEF IInv, MainInv, PendingInv, Scheduling, FinalInv
<1>15. ExceptionInv'
  BY <1>1, <1>2, <1>5, <1>6, EmptyFacts DEF IInv, ExceptionInv, Scheduling
<1>16. NoMissedRaise'
  BY <1>2 DEF IInv, NoMissedRaise
<1> QED
  BY <1>10, <1>11, <1>12, <1>13, <1>14, <1>15, <1>16 DEF IInv

LEMMA RunInv ==
  ASSUME IInv, Run
  PROVE  IInv'
<1>1. FieldTypes /\ mpc = "client"
  BY DEF IInv, Run
<1>2. /\ UNCHANGED <<queue, shutdown, wpc, job, raising, stolen, signaled, waiters>>
      /\ UNCHANGED <<frame, ip, thrown, tasks, exceptions>>
      /\ outcome' = Null
      /\ \/ tasks = <<>> /\ mpc' = "returned" /\ UNCHANGED <<pending, nextTask>>
         \/ tasks # <<>> /\ mpc' = "enqueue" /\ pending' = Len(tasks) /\ nextTask' = 1
  BY DEF Run, poolVars, workerVars, signalVars, coroVars
<1>3. /\ tasks \in Seq(Tasks) /\ DOMAIN tasks = 1..Len(tasks) /\ Len(tasks) \in Nat
      /\ tasks # <<>> => Len(tasks) >= 1
  BY <1>1, LenProperties, EmptySeq DEF FieldTypes
<1>4. FieldTypes'
  BY <1>1, <1>2, <1>3 DEF FieldTypes, MainPC
<1>5. QueueInv' /\ WaiterInv' /\ StolenInv' /\ FrameInv'
  BY <1>2 DEF IInv, QueueInv, WaiterInv, StolenInv, FrameInv
<1>6. HoldInv' /\ FinalInv' /\ NoMissedRaise'
  BY <1>2 DEF IInv, HoldInv, NextOpIs, AtEnd, FinalInv, NoMissedRaise
<1>7. CASE tasks = <<>>
  <2>1. \A t \in Tasks : frame[t] = "none"
    BY <1>7, EmptyFacts DEF IInv, FrameInv
  <2>2. MainInv' /\ PendingInv'
    BY <1>1, <1>2, <1>7, <2>1 DEF IInv, MainInv, PendingInv, Scheduling
  <2>3. ExceptionInv'
    BY <1>1, <1>2, <1>7, <2>1 DEF IInv, ExceptionInv, Scheduling
  <2> QED
    BY <1>4, <1>5, <1>6, <2>2, <2>3 DEF IInv
<1>8. CASE tasks # <<>>
  <2>1. \A i \in DOMAIN tasks : frame[tasks[i]] = "created"
    BY <1>1, <1>3 DEF IInv, FrameInv, MainInv, InSeq
  <2>2. Unfinished' = 1..Len(tasks)
    BY <1>2, <1>3, <2>1 DEF Unfinished
  <2>3. PendingInv'
    BY <1>2, <1>3, <1>8, <2>2, FS_Interval DEF PendingInv, Scheduling
  <2>4. MainInv'
    BY <1>2, <1>3, <1>8, <2>1 DEF MainInv, Scheduling
  <2>5. ExceptionInv'
    BY <1>1, <1>2, <1>8 DEF IInv, MainInv, ExceptionInv, Scheduling
  <2> QED
    BY <1>4, <1>5, <1>6, <2>3, <2>4, <2>5 DEF IInv
<1> QED
  BY <1>7, <1>8

LEMMA RunEnqueueInv ==
  ASSUME IInv, RunEnqueue
  PROVE  IInv'
<1> DEFINE t == tasks[nextTask]
<1>1. FieldTypes /\ mpc = "enqueue" /\ nextTask <= Len(tasks)
  BY DEF IInv, RunEnqueue
<1>2. /\ UNCHANGED <<shutdown, wpc, job, raising, stolen, signaled, waiters, ip, thrown>>
      /\ UNCHANGED <<tasks, pending, exceptions, outcome>>
      /\ queue' = Append(queue, t)
      /\ frame' = [frame EXCEPT ![t] = "queued"]
      /\ nextTask' = nextTask + 1 /\ mpc' = "poke"
  BY DEF RunEnqueue, workerVars, signalVars, graphVars
<1>3. /\ tasks \in Seq(Tasks) /\ DOMAIN tasks = 1..Len(tasks) /\ Len(tasks) \in Nat
      /\ nextTask \in DOMAIN tasks /\ nextTask \in Nat \ {0}
  BY <1>1, LenProperties DEF FieldTypes
<1>4. t \in Tasks /\ frame[t] = "created"
  BY <1>1, <1>3, ElementOfSeq DEF IInv, MainInv, Scheduling
<1>5. \A i \in DOMAIN tasks : i # nextTask => tasks[i] # t /\ tasks[i] \in Tasks
  BY <1>3 DEF IInv, FrameInv, NoDup
<1>6. /\ tasks[nextTask] = t
      /\ nextTask' = nextTask + 1
  BY <1>2
<1> HIDE DEF t
<1>7. /\ queue' \in Seq(Tasks)
      /\ frame' \in [Tasks -> FrameState]
      /\ QueueInv' /\ FrameInv'
      /\ Unfinished' = Unfinished
      /\ frame'[t] = "queued" /\ \A u \in Tasks : u # t => frame'[u] = frame[u]
  BY <1>2, <1>4, EnqueueFacts
<1>8. FieldTypes'
  <2>1. nextTask' \in Nat \ {0} /\ mpc' \in MainPC
    BY <1>2, <1>3 DEF MainPC
  <2> QED
    BY <1>1, <1>2, <1>7, <2>1 DEF FieldTypes
<1>9. WaiterInv' /\ StolenInv'
  BY <1>2, <1>4, <1>7 DEF IInv, WaiterInv, StolenInv
<1>10. HoldInv'
  <2>1. \A v \in Workers : wpc[v] \in Holding => frame'[job[v]] = frame[job[v]]
    BY <1>4, <1>7, HolderFacts
  <2> QED
    BY <1>2, <1>7, <2>1 DEF IInv, HoldInv, Holding, NextOpIs, AtEnd
<1>11. MainInv'
  <2>1. ASSUME NEW i \in DOMAIN tasks
        PROVE  frame'[tasks[i]] = "created" <=> i >= nextTask + 1
    <3>1. CASE i = nextTask
      BY <1>3, <1>6, <1>7, <3>1
    <3>2. CASE i # nextTask
      <4>1. frame'[tasks[i]] = frame[tasks[i]]
        BY <1>5, <1>7, <3>2
      <4>2. frame[tasks[i]] = "created" <=> i >= nextTask
        BY <1>1 DEF IInv, MainInv, Scheduling
      <4> QED
        BY <1>3, <3>2, <4>1, <4>2
    <3> QED
      BY <3>1, <3>2
  <2> QED
    BY <1>2, <2>1 DEF MainInv, Scheduling
<1>12. PendingInv' /\ FinalInv'
  BY <1>1, <1>2, <1>4, <1>7 DEF IInv, PendingInv, Scheduling, FinalInv, AtEnd
<1>13. ExceptionInv'
  <2>1. \A u \in Tasks : frame'[u] = "none" <=> frame[u] = "none"
    BY <1>4, <1>7
  <2> QED
    BY <1>1, <1>2, <2>1 DEF IInv, ExceptionInv, Scheduling
<1>14. NoMissedRaise'
  BY <1>2 DEF IInv, NoMissedRaise
<1> QED
  BY <1>7, <1>8, <1>9, <1>10, <1>11, <1>12, <1>13, <1>14 DEF IInv

(* Reset and ~Graph destroy every frame there is.                          *)
LEMMA ClearInv ==
  ASSUME IInv, Reset \/ Destroy
  PROVE  IInv'
<1>1. FieldTypes /\ mpc \in {"client", "returned"}
  BY DEF IInv, Reset, Destroy
<1>2. /\ UNCHANGED <<queue, shutdown, wpc, job, raising, stolen, ip, thrown, nextTask, outcome>>
      /\ tasks' = <<>> /\ exceptions' = <<>> /\ mpc' \in {"client", "dtor"}
      /\ frame' = [t \in Tasks |-> IF InSeq(t, tasks) THEN "none" ELSE frame[t]]
      /\ pending' = 0 \/ pending' = pending
      /\ \/ UNCHANGED <<signaled, waiters>>
         \/ /\ signaled' = [s \in Signals |-> FALSE]
            /\ waiters' = [s \in Signals |-> <<>>]
  BY DEF Reset, Destroy, poolVars, workerVars, signalVars
<1>3. \A t \in Tasks : frame'[t] = "none"
  BY <1>2 DEF IInv, FrameInv
<1>4. /\ queue = <<>>
      /\ \A s \in Signals : waiters[s] = <<>>
      /\ \A w \in Workers : stolen[w] = <<>>
      /\ \A w \in Workers : wpc[w] \notin Holding
  <2>1. \A t \in Tasks : frame[t] \in {"none", "created", "finished"}
    BY <1>1 DEF IInv, MainInv
  <2> QED
    BY <2>1, QuietFacts
<1>5. \A s \in Signals : waiters'[s] = <<>>
  BY <1>2, <1>4
<1>6. FieldTypes'
  <2>1. frame' \in [Tasks -> FrameState]
    BY <1>1, <1>2 DEF FieldTypes, FrameState
  <2>2. signaled' \in [Signals -> BOOLEAN]
    BY <1>1, <1>2 DEF FieldTypes
  <2>3. tasks' \in Seq(Tasks) /\ exceptions' \in Seq(Tasks)
    BY <1>2, EmptySeq
  <2>5. waiters' \in [Signals -> Seq(Tasks)]
    <3>1. CASE waiters' = waiters
      BY <1>1, <3>1 DEF FieldTypes
    <3>2. CASE waiters' = [s \in Signals |-> <<>>]
      <4>1. <<>> \in Seq(Tasks)
        BY EmptySeq
      <4> QED
        BY <3>2, <4>1
    <3> QED
      BY <1>2, <3>1, <3>2
  <2>4. pending' \in Int /\ mpc' \in MainPC
    BY <1>1, <1>2 DEF FieldTypes, MainPC
  <2> QED
    BY <1>1, <1>2, <2>1, <2>2, <2>3, <2>4, <2>5 DEF FieldTypes
<1>7. QueueInv' /\ WaiterInv' /\ StolenInv' /\ FrameInv'
  BY <1>2, <1>3, <1>4, <1>5, EmptyFacts DEF IInv, QueueInv, WaiterInv, StolenInv, FrameInv
<1>8. HoldInv'
  BY <1>2, <1>3, <1>4 DEF HoldInv, Holding
<1>9. MainInv' /\ FinalInv'
  BY <1>2, <1>3 DEF MainInv, Scheduling, FinalInv
<1>10. PendingInv'
  BY <1>1, <1>2 DEF IInv, PendingInv, Scheduling
<1>11. ExceptionInv'
  BY <1>2, <1>3, EmptyFacts DEF ExceptionInv, Scheduling
<1>12. NoMissedRaise'
  BY <1>5 DEF NoMissedRaise
<1> QED
  BY <1>6, <1>7, <1>8, <1>9, <1>10, <1>11, <1>12 DEF IInv

-----------------------------------------------------------------------------
(* The theorems                                                            *)

LEMMA NextInv == IInv /\ [Next]_vars => IInv'
<1> SUFFICES ASSUME IInv, [Next]_vars PROVE IInv'
  OBVIOUS
<1>1. CASE \E w \in Workers : Worker(w) \/ SpuriousWake(w)
  <2> SUFFICES ASSUME NEW w \in Workers, Worker(w) \/ SpuriousWake(w) PROVE IInv'
    BY <1>1
  <2>1. CASE WorkerLoop(w) \/ SpuriousWake(w)
    BY <2>1, TakeJobInv, LoopSteps DEF WorkerLoop
  <2>2. CASE WorkerAwait(w)
    BY <2>2, WaitReadyInv, AddWaiterInv, SignalInv, ThrowInv DEF WorkerAwait
  <2>3. CASE WorkerRaise(w)
    BY <2>3, StealWaitersInv, WakeWaiterInv, RequeueSelfInv, LoopSteps DEF WorkerRaise
  <2>4. CASE WorkerFinal(w)
    BY <2>4, CollectExceptionInv, CompleteInv, DecrementPendingInv, NotifyDoneInv, LoopSteps
       DEF WorkerFinal
  <2> QED
    BY <2>1, <2>2, <2>3, <2>4 DEF Worker
<1>2. CASE RunStep \/ RunSpuriousWake
  BY <1>2, RunEnqueueInv, RunWaitInv, RunCheckInv, RunFinishInv DEF RunStep
<1>3. CASE DtorStep
  BY <1>3, DtorInv DEF DtorStep
<1>4. CASE Client
  BY <1>4, AddInv, RunInv, ClearInv DEF Client
<1>5. CASE Gone \/ UNCHANGED vars
  <2>1. UNCHANGED vars
    BY <1>5 DEF Gone
  <2>2. /\ UNCHANGED <<poolVars, job, raising, stolen, signalVars, coroVars, graphVars, mainVars>>
        /\ wpc' = wpc
    BY <2>1 DEF vars, workerVars
  <2>3. wpc' \in [Workers -> WorkerPC] /\ \A v \in Workers : Moves(v)
    BY <2>2 DEF IInv, FieldTypes, Moves
  <2> QED
    BY <2>2, <2>3, MovesKeepInv
<1> QED
  BY <1>1, <1>2, <1>3, <1>4, <1>5 DEF Next

(* The inductive invariant holds in every reachable state, for any set of  *)
(* workers, tasks and signals.                                             *)
THEOREM Invariance == Spec => []IInv
<1>1. Init => IInv
  BY InitInv
<1>2. IInv /\ [Next]_vars => IInv'
  BY NextInv
<1> QED
  BY <1>1, <1>2, PTL DEF Spec

(* Types, and a count of pending tasks that never falls below zero         *)
(* (Graph::m_pending).                                                     *)
THEOREM TypeCorrect == Spec => []TypeOK
<1>1. IInv => TypeOK
  <2> SUFFICES ASSUME IInv PROVE TypeOK
    OBVIOUS
  <2>1. tasks \in Seq(Tasks) /\ DOMAIN tasks = 1..Len(tasks) /\ Len(tasks) \in Nat
    BY LenProperties DEF IInv, FieldTypes
  <2>2. IsFiniteSet(1..Len(tasks))
    BY <2>1, FS_Interval
  <2>3. IsFiniteSet(Unfinished)
    BY <2>1, <2>2, FS_Subset DEF Unfinished
  <2>4. Cardinality(Unfinished) \in Nat
    BY <2>3, FS_CardinalityType
  <2> QED
    BY <2>4 DEF IInv, PendingInv, TypeOK
<1> QED
  BY <1>1, Invariance, PTL

(* No coroutine handle is ever in two places, whatever the interleaving of *)
(* Wait, Signal, Raise and the pool.                                       *)
THEOREM SingleResume == Spec => []NoDoubleResume
<1>1. IInv => NoDoubleResume
  <2> SUFFICES ASSUME IInv, NEW t \in Tasks
               PROVE  NoDoubleResume!(t)
    BY DEF NoDoubleResume
  <2>1. \A v, w \in Workers : Holds(v, t) /\ Holds(w, t) => v = w
    BY DEF IInv, HoldInv, Holding, Holds
  <2>2. \A w \in Workers : Holds(w, t) => frame[t] \in {"running", "final"}
    BY HolderFacts DEF Holds, Holding
  <2>3. /\ Queued(t) => frame[t] = "queued"
        /\ \A s \in Signals : Waiting(t, s) => frame[t] = "waiting"
        /\ \A w \in Workers : Taken(t, w) => frame[t] = "stolen"
    BY DEF IInv, QueueInv, WaiterInv, StolenInv, Queued, Waiting, Taken
  <2>4. /\ \A r, s \in Signals : Waiting(t, r) /\ Waiting(t, s) => r = s
        /\ \A v, w \in Workers : Taken(t, v) /\ Taken(t, w) => v = w
        /\ NoDup(queue)
    BY DEF IInv, QueueInv, WaiterInv, StolenInv, Waiting, Taken
  <2> QED
    BY <2>1, <2>2, <2>3, <2>4
<1> QED
  BY <1>1, Invariance, PTL

(* A scheduled task can always be found until it is counted out.           *)
THEOREM NothingLost == Spec => []NoLostTask
<1>1. IInv => NoLostTask
  <2> SUFFICES ASSUME IInv, mpc \in Scheduling \cup {"finish"},
                      NEW i \in DOMAIN tasks, i < nextTask, frame[tasks[i]] # "finished"
               PROVE  \/ Queued(tasks[i])
                      \/ \E s \in Signals : Waiting(tasks[i], s)
                      \/ \E w \in Workers : Taken(tasks[i], w) \/ Holds(w, tasks[i])
    BY DEF NoLostTask, Scheduling
  <2> DEFINE t == tasks[i]
  <2>1. /\ t \in Tasks /\ frame \in [Tasks -> FrameState] /\ frame[t] # "none"
        /\ i \in Nat /\ nextTask \in Nat
    BY LenProperties DEF IInv, FieldTypes, FrameInv, InSeq
  <2>2. frame[t] # "created"
    BY <2>1 DEF IInv, MainInv
  <2>3. frame[t] \in {"queued", "running", "waiting", "stolen", "final"}
    BY <2>1, <2>2 DEF FrameState
  <2> QED
    BY <2>1, <2>3 DEF IInv, QueueInv, WaiterInv, StolenInv, HoldInv, Holding,
                      Queued, Waiting, Taken, Holds
<1> QED
  BY <1>1, Invariance, PTL

(* A signal never leaves a waiter behind (SignalState::Raise against       *)
(* SignalState::AddWaiter).                                                *)
THEOREM NothingMissed == Spec => []NoMissedRaise
  BY Invariance, PTL DEF IInv

(* Run returns only when the frame is really over, with the exception of   *)
(* a task that threw.                                                      *)
THEOREM RunIsComplete == Spec => []RunComplete
<1>1. IInv => RunComplete
  <2> SUFFICES ASSUME IInv, mpc \in {"finish", "returned"}
               PROVE  RunComplete!2
    BY DEF RunComplete
  <2>1. \A t \in Tasks : frame[t] \in {"none", "finished"}
    BY DEF IInv, MainInv
  <2>2. \A i \in DOMAIN tasks : tasks[i] \in Tasks /\ frame[tasks[i]] = "finished"
    BY <2>1 DEF IInv, FieldTypes, FrameInv, InSeq
  <2>3. \A i \in DOMAIN tasks : AtEnd(tasks[i]) /\ signaled[IdOf[tasks[i]]]
    BY <2>2 DEF IInv, FinalInv
  <2>4. /\ queue = <<>>
        /\ \A s \in Signals : waiters[s] = <<>>
        /\ \A w \in Workers : stolen[w] = <<>> /\ \A t \in Tasks : ~Holds(w, t)
    BY <2>1, QuietFacts DEF Holds, Holding
  <2>5. mpc = "returned" => (outcome = Null <=> \A i \in DOMAIN tasks : ~thrown[tasks[i]])
    BY <2>2 DEF IInv, ExceptionInv, FrameInv, InSeq
  <2> QED
    BY <2>3, <2>4, <2>5
<1> QED
  BY <1>1, Invariance, PTL

-----------------------------------------------------------------------------
(* What a task may rely on: DependencyInv, kept on top of IInv             *)

(* Main in the destructor; a worker between a Raise and the hand-over of   *)
(* its own job.                                                            *)
Dead == {"dtor", "wakeAll", "join", "gone"}
Raising == {"steal", "wake", "poke"}

(* A step that hands one handle on, or none: scripts and signals stay.     *)
LEMMA HandOver ==
  ASSUME IInv, DependencyInv,
         UNCHANGED <<ip, thrown, signaled, waiters, raising>>,
         mpc' \notin Dead => mpc \notin Dead,
         \A u \in Tasks : frame'[u] # frame[u] =>
           /\ frame[u] \notin {"none", "waiting"} /\ frame'[u] \notin {"none", "waiting", "stolen"}
           /\ frame[u] \in {"final", "finished"} => frame'[u] \in {"final", "finished"}
           /\ frame'[u] \in {"created", "queued"} => ~thrown[u],
         \A u \in Tasks : frame[u] # "queued" /\ frame'[u] = "running" => frame[u] = "running",
         \A w \in Workers : wpc'[w] \in Raising => wpc[w] \in Raising /\ job'[w] = job[w],
         \A w \in Workers : wpc'[w] = "steal" => wpc[w] = "steal"
  PROVE  DependencyInv'
<1>1. SetByTask'
  BY DEF DependencyInv, SetByTask, Raiser, Dead
<1>2. PassedInv'
  BY DEF DependencyInv, PassedInv
<1>3. ParkedInv'
  BY DEF DependencyInv, ParkedInv
<1>4. RaisingInv'
  BY DEF DependencyInv, RaisingInv
<1>5. ASSUME NEW w \in Workers, wpc'[w] \in Raising, frame'[job'[w]] = "running"
      PROVE  ~thrown'[job'[w]]
  <2>1. wpc[w] \in Raising /\ job'[w] = job[w] /\ job[w] \in Tasks /\ frame[job[w]] # "queued"
    BY <1>5, HolderFacts DEF Raising, Holding
  <2> QED  BY <1>5, <2>1 DEF DependencyInv, ThrownInv, Raising
<1>6. ThrownInv'
  BY <1>5 DEF DependencyInv, ThrownInv, Raising
<1> QED  BY <1>1, <1>2, <1>3, <1>4, <1>6 DEF DependencyInv

(* The resume point and the elements of a script.                          *)
LEMMA ScriptFacts ==
  ASSUME IInv, NEW t \in Tasks
  PROVE  /\ Len(Script[t]) \in Nat /\ ip[t] \in Nat \ {0}
         /\ \A k \in 1..Len(Script[t]) : Script[t][k].sig \in Signals /\ Script[t][k] = [op |-> Script[t][k].op, sig |-> Script[t][k].sig]
<1>1. Script[t] \in Seq(Op)
  BY ScriptAssumption
<1>2. Len(Script[t]) \in Nat /\ \A k \in 1..Len(Script[t]) : Script[t][k] \in Op
  BY <1>1, LenProperties, ElementOfSeq
<1>3. ip[t] \in Nat \ {0}
  BY DEF IInv, FieldTypes
<1> QED  BY <1>2, <1>3 DEF Op

(* The steps that hand a handle on.                                        *)
LEMMA TakeJobDep ==
  ASSUME IInv, DependencyInv, NEW w \in Workers, TakeJob(w)
  PROVE  DependencyInv'
<1> DEFINE t == Head(queue)
<1>1. /\ wpc[w] = "idle" /\ t \in Tasks /\ frame[t] = "queued"
      /\ frame' = [frame EXCEPT ![t] = "running"] /\ job' = [job EXCEPT ![w] = t]
      /\ wpc' = [wpc EXCEPT ![w] = "run"]
      /\ UNCHANGED <<ip, thrown, signaled, waiters, raising, mpc>>
  <2>1. queue # <<>> /\ queue \in Seq(Tasks)
    BY DEF TakeJob, IInv, FieldTypes
  <2>2. InSeq(t, queue) /\ t \in Tasks
    BY <2>1, MemberFacts
  <2> QED  BY <2>2 DEF TakeJob, IInv, QueueInv, signalVars, mainVars
<1> HIDE DEF t
<1>2. /\ frame \in [Tasks -> FrameState] /\ wpc \in [Workers -> WorkerPC] /\ job \in [Workers -> Tasks \cup {Null}]
  BY DEF IInv, FieldTypes
<1>3. \A v \in Workers : /\ v # w => job'[v] = job[v] /\ wpc'[v] = wpc[v]
                         /\ wpc'[w] = "run"
  BY <1>1, <1>2
<1>4. \A u \in Tasks : frame'[u] = IF u = t THEN "running" ELSE frame[u]
  BY <1>1, <1>2
<1> QED  BY <1>1, <1>3, <1>4, HandOver DEF Raising

LEMMA WakeWaiterDep ==
  ASSUME IInv, DependencyInv, NEW w \in Workers, WakeWaiter(w)
  PROVE  DependencyInv'
<1> DEFINE t == Head(stolen[w])
<1>1. /\ wpc[w] = "wake" /\ t \in Tasks /\ frame[t] = "stolen"
      /\ frame' = [frame EXCEPT ![t] = "queued"]
      /\ wpc' = [wpc EXCEPT ![w] = "poke"]
      /\ UNCHANGED <<job, ip, thrown, signaled, waiters, raising, mpc>>
  <2>1. stolen[w] # <<>> /\ stolen[w] \in Seq(Tasks)
    BY DEF WakeWaiter, IInv, FieldTypes
  <2>2. InSeq(t, stolen[w]) /\ t \in Tasks
    BY <2>1, MemberFacts
  <2> QED  BY <2>2 DEF WakeWaiter, IInv, StolenInv, signalVars, mainVars
<1> HIDE DEF t
<1>2. frame \in [Tasks -> FrameState] /\ wpc \in [Workers -> WorkerPC]
  BY DEF IInv, FieldTypes
<1>3. \A v \in Workers : wpc'[v] = IF v = w THEN "poke" ELSE wpc[v]
  BY <1>1, <1>2
<1>4. \A u \in Tasks : frame'[u] = IF u = t THEN "queued" ELSE frame[u]
  BY <1>1, <1>2
<1>6. ~thrown[t]
  BY <1>1 DEF DependencyInv, ThrownInv
<1> QED  BY <1>1, <1>3, <1>4, <1>6, HandOver DEF Raising

LEMMA RequeueSelfDep ==
  ASSUME IInv, DependencyInv, NEW w \in Workers, RequeueSelf(w)
  PROVE  DependencyInv'
<1> DEFINE t == job[w]
<1>1. /\ wpc[w] = "wake" /\ frame[t] = "running"
      /\ frame' = [frame EXCEPT ![t] = "queued"]
      /\ wpc' = [wpc EXCEPT ![w] = "pokeSelf"]
      /\ UNCHANGED <<job, ip, thrown, signaled, waiters, raising, mpc>>
  BY DEF RequeueSelf, signalVars, mainVars
<1>2. frame \in [Tasks -> FrameState] /\ wpc \in [Workers -> WorkerPC]
  BY DEF IInv, FieldTypes
<1>3. t \in Tasks /\ ~thrown[t]
  BY <1>1, HolderFacts DEF Holding, DependencyInv, ThrownInv
<1> HIDE DEF t
<1>4. \A v \in Workers : wpc'[v] = IF v = w THEN "pokeSelf" ELSE wpc[v]
  BY <1>1, <1>2
<1>5. \A u \in Tasks : frame'[u] = IF u = t THEN "queued" ELSE frame[u]
  BY <1>1, <1>2, <1>3
<1> QED  BY <1>1, <1>3, <1>4, <1>5, HandOver DEF Raising

LEMMA DecrementPendingDep ==
  ASSUME IInv, DependencyInv, NEW w \in Workers, DecrementPending(w)
  PROVE  DependencyInv'
<1> DEFINE t == job[w]
<1>1. /\ wpc[w] = "dec"
      /\ frame' = [frame EXCEPT ![t] = "finished"]
      /\ wpc' = [wpc EXCEPT ![w] = IF pending = 1 THEN "notify" ELSE "leave"]
      /\ UNCHANGED <<job, ip, thrown, signaled, waiters, raising, mpc>>
  BY DEF DecrementPending, signalVars, mainVars
<1>2. frame \in [Tasks -> FrameState] /\ wpc \in [Workers -> WorkerPC]
  BY DEF IInv, FieldTypes
<1>3. t \in Tasks /\ frame[t] = "final"
  BY <1>1, HolderFacts DEF Holding, IInv, HoldInv
<1> HIDE DEF t
<1>4. \A v \in Workers : wpc'[v] = wpc[v] \/ wpc'[v] \in {"notify", "leave"}
  BY <1>1, <1>2
<1>5. \A u \in Tasks : frame'[u] = IF u = t THEN "finished" ELSE frame[u]
  BY <1>1, <1>2, <1>3
<1> QED  BY <1>1, <1>3, <1>4, <1>5, HandOver DEF Raising

LEMMA RunEnqueueDep ==
  ASSUME IInv, DependencyInv, RunEnqueue
  PROVE  DependencyInv'
<1> DEFINE t == tasks[nextTask]
<1>1. /\ mpc = "enqueue" /\ mpc' = "poke"
      /\ frame' = [frame EXCEPT ![t] = "queued"]
      /\ UNCHANGED <<wpc, job, ip, thrown, signaled, waiters, raising>>
  BY DEF RunEnqueue, workerVars, signalVars
<1>2. frame \in [Tasks -> FrameState]
  BY DEF IInv, FieldTypes
<1>3. t \in Tasks /\ frame[t] = "created" /\ ~thrown[t]
  <2>1. nextTask \in DOMAIN tasks /\ t \in Tasks
    BY LenProperties DEF RunEnqueue, IInv, FieldTypes
  <2>2. nextTask >= nextTask
    BY DEF IInv, FieldTypes
  <2> QED  BY <1>1, <2>1, <2>2 DEF IInv, MainInv, Scheduling, DependencyInv, ThrownInv
<1> HIDE DEF t
<1>5. \A u \in Tasks : frame'[u] = IF u = t THEN "queued" ELSE frame[u]
  BY <1>1, <1>2, <1>3
<1> QED  BY <1>1, <1>3, <1>5, HandOver DEF Raising, Dead

(* The task a worker executes, and the others.                             *)
LEMMA RunnerFacts ==
  ASSUME IInv, NEW w \in Workers, wpc[w] \in {"run", "add"}
  PROVE  /\ job[w] \in Tasks /\ frame[job[w]] = "running"
         /\ \A v \in Workers : wpc[v] \in Raising => v # w /\ job[v] \in Tasks /\ job[v] # job[w]
  BY HolderFacts DEF Holding, Raising

(* A running task goes past one of its awaits, or into the list of one.    *)
LEMMA AdvanceDep ==
  ASSUME IInv, DependencyInv, NEW t \in Tasks, frame[t] = "running", ~AtEnd(t),
         ip' = [ip EXCEPT ![t] = ip[t] + 1], UNCHANGED mpc,
         frame'[t] \in {"running", "waiting"}, \A u \in Tasks : u # t => frame'[u] = frame[u],
         \A s \in Signals : signaled[s] => signaled'[s],
         \A s \in Signals : signaled'[s] => signaled[s] \/ (NextOpIs(t, "signal") /\ s = NextSig(t)),
         NextOpIs(t, "wait") => signaled'[NextSig(t)] \/ frame'[t] = "waiting",
         frame'[t] = "waiting" => NextOpIs(t, "wait"),
         \A s \in Signals, u \in Tasks : InSeq(u, waiters'[s]) =>
           InSeq(u, waiters[s]) \/ (u = t /\ s = NextSig(t) /\ frame'[t] = "waiting")
  PROVE  SetByTask' /\ PassedInv' /\ ParkedInv'
<1> DEFINE e == Script[t][ip[t]]
<1>1. /\ Len(Script[t]) \in Nat /\ ip[t] \in Nat \ {0} /\ ip[t] <= Len(Script[t])
      /\ e.sig \in Signals /\ e = [op |-> e.op, sig |-> e.sig]
  <2>1. ip[t] <= Len(Script[t])
    BY ScriptFacts DEF AtEnd
  <2> QED  BY <2>1, ScriptFacts
<1>2. ip \in [Tasks -> Nat \ {0}]
  BY DEF IInv, FieldTypes
<1>3. ip'[t] = ip[t] + 1 /\ \A u \in Tasks : u # t => ip'[u] = ip[u]
  BY <1>2
<1>4. /\ \A u \in Tasks : ip[u] \in Nat \ {0} /\ ip'[u] \in Nat \ {0} /\ ip'[u] >= ip[u]
      /\ ip[t] \in 1..(ip'[t] - 1)
      /\ \A u \in Tasks : \A k \in 1..(ip[u] - 1) : k \in 1..(ip'[u] - 1)
  BY <1>1, <1>2, <1>3
<1>5. SetByTask'
  <2>1. ASSUME NEW s \in Signals, NEW u \in Tasks, Raiser(u, s) PROVE Raiser(u, s)'
    BY <1>4, <2>1 DEF Raiser
  <2>2. ASSUME NEW s \in Signals, NextOpIs(t, "signal"), s = NextSig(t) PROVE Raiser(t, s)'
    <3>1. e = [op |-> "signal", sig |-> s]
      BY <1>1, <2>2 DEF NextOpIs, NextSig
    <3> QED  BY <1>4, <3>1 DEF Raiser
  <2> QED  BY <2>1, <2>2 DEF DependencyInv, SetByTask
<1>6. PassedInv'
  <2> SUFFICES ASSUME NEW u \in Tasks, frame'[u] # "none"
               PROVE  /\ ip'[u] <= Len(Script[u]) + 1
                      /\ \A k \in 1..(ip'[u] - 1) :
                           Script[u][k].op = "wait" =>
                             signaled'[Script[u][k].sig] \/ (frame'[u] = "waiting" /\ k = ip'[u] - 1)
    BY DEF PassedInv
  <2>1. frame[u] # "none"
    OBVIOUS
  <2>2. /\ ip[u] <= Len(Script[u]) + 1 /\ Len(Script[u]) \in Nat
        /\ \A k \in 1..(ip[u] - 1) : /\ Script[u][k].sig \in Signals
                                     /\ Script[u][k].op = "wait" =>
                                          signaled[Script[u][k].sig] \/ (frame[u] = "waiting" /\ k = ip[u] - 1)
    <3>1. ip[u] <= Len(Script[u]) + 1 /\ Len(Script[u]) \in Nat
      BY <2>1, ScriptFacts DEF DependencyInv, PassedInv
    <3>2. \A k \in 1..(ip[u] - 1) : k \in 1..Len(Script[u])
      BY <1>4, <3>1
    <3> QED  BY <2>1, <3>1, <3>2, ScriptFacts DEF DependencyInv, PassedInv
  <2>3. CASE u # t
    BY <1>3, <2>2, <2>3
  <2>4. CASE u = t
    <3>1. ip'[t] <= Len(Script[t]) + 1
      BY <1>1, <1>3
    <3>2. ASSUME NEW k \in 1..(ip'[t] - 1), Script[t][k].op = "wait"
          PROVE  signaled'[Script[t][k].sig] \/ (frame'[t] = "waiting" /\ k = ip'[t] - 1)
      <4>1. CASE k = ip[t]
        <5>1. NextOpIs(t, "wait") /\ NextSig(t) = Script[t][k].sig /\ k = ip'[t] - 1
          BY <1>1, <1>3, <3>2, <4>1 DEF NextOpIs, NextSig
        <5> QED  BY <5>1
      <4>2. CASE k # ip[t]
        <5>1. k \in 1..(ip[t] - 1)
          BY <1>1, <1>3, <3>2, <4>2
        <5> QED  BY <2>2, <2>4, <3>2, <5>1
      <4> QED  BY <4>1, <4>2
    <3> QED  BY <2>4, <3>1, <3>2
  <2> QED  BY <2>3, <2>4
<1>7. ParkedInv'
  <2>1. ASSUME NEW u \in Tasks, frame'[u] \in {"waiting", "stolen"}
        PROVE  ip'[u] > 1 /\ Script[u][ip'[u] - 1].op = "wait"
    <3>1. CASE u # t
      BY <1>3, <2>1, <3>1 DEF DependencyInv, ParkedInv
    <3>2. CASE u = t
      <4>1. NextOpIs(t, "wait") /\ ip'[t] - 1 = ip[t] /\ ip'[t] > 1
        BY <1>1, <1>3, <2>1, <3>2
      <4> QED  BY <3>2, <4>1 DEF NextOpIs
    <3> QED  BY <3>1, <3>2
  <2>2. ASSUME NEW s \in Signals, NEW u \in Tasks, InSeq(u, waiters'[s])
        PROVE  Script[u][ip'[u] - 1].sig = s
    <3>1. CASE u = t
      <4>1. ~InSeq(t, waiters[s])
        BY DEF IInv, WaiterInv
      <4>2. s = NextSig(t) /\ ip'[t] - 1 = ip[t]
        BY <1>1, <1>3, <2>2, <3>1, <4>1
      <4> QED  BY <3>1, <4>2 DEF NextSig
    <3>2. CASE u # t
      BY <1>3, <2>2, <3>2 DEF DependencyInv, ParkedInv
    <3> QED  BY <3>1, <3>2
  <2> QED  BY <2>1, <2>2 DEF ParkedInv
<1> QED  BY <1>5, <1>6, <1>7

(* The two looks at the flag: neither lets a task past an unset signal.    *)
LEMMA WaitReadyDep ==
  ASSUME IInv, DependencyInv, NEW w \in Workers, WaitReady(w)
  PROVE  DependencyInv'
<1> DEFINE t == job[w]
<1>1. /\ wpc[w] = "run" /\ NextOpIs(t, "wait") /\ ~AtEnd(t)
      /\ UNCHANGED <<job, raising, signaled, waiters, frame, thrown, mpc>>
      /\ \/ ip' = [ip EXCEPT ![t] = ip[t] + 1] /\ wpc' = wpc /\ signaled[NextSig(t)]
         \/ ip' = ip /\ wpc' = [wpc EXCEPT ![w] = "add"]
  BY DEF WaitReady, NextOpIs, signalVars, mainVars
<1>2. t \in Tasks /\ frame[t] = "running"
  BY <1>1, RunnerFacts
<1> HIDE DEF t
<1>3. wpc \in [Workers -> WorkerPC]
  BY DEF IInv, FieldTypes
<1>4. CASE ip' = ip /\ wpc' = [wpc EXCEPT ![w] = "add"]
  <2>1. \A v \in Workers : wpc'[v] \in {wpc[v], "add"}
    BY <1>3, <1>4
  <2> QED  BY <1>1, <1>4, <2>1, HandOver DEF Raising
<1>5. CASE ip' = [ip EXCEPT ![t] = ip[t] + 1] /\ wpc' = wpc /\ signaled[NextSig(t)]
  <2>1. SetByTask' /\ PassedInv' /\ ParkedInv'
    BY <1>1, <1>2, <1>5, AdvanceDep
  <2>2. RaisingInv' /\ ThrownInv'
    BY <1>1, <1>5 DEF DependencyInv, RaisingInv, ThrownInv
  <2> QED  BY <2>1, <2>2 DEF DependencyInv
<1> QED  BY <1>1, <1>4, <1>5

LEMMA AddWaiterDep ==
  ASSUME IInv, DependencyInv, NEW w \in Workers, AddWaiter(w)
  PROVE  DependencyInv'
<1> DEFINE t == job[w]
           s == NextSig(t)
<1>1. /\ wpc[w] = "add" /\ NextOpIs(t, "wait") /\ ~AtEnd(t)
      /\ UNCHANGED <<job, raising, signaled, thrown, mpc>>
      /\ ip' = [ip EXCEPT ![t] = ip[t] + 1]
      /\ \/ wpc' = [wpc EXCEPT ![w] = "run"] /\ UNCHANGED <<waiters, frame>> /\ signaled[s]
         \/ /\ wpc' = [wpc EXCEPT ![w] = "idle"]
            /\ waiters' = [waiters EXCEPT ![s] = <<t>> \o waiters[s]]
            /\ frame' = [frame EXCEPT ![t] = "waiting"]
  BY DEF AddWaiter, IInv, HoldInv, NextOpIs, signalVars, mainVars
<1>2. /\ t \in Tasks /\ frame[t] = "running"
      /\ \A v \in Workers : wpc[v] \in Raising => v # w /\ job[v] \in Tasks /\ job[v] # t
  BY <1>1, RunnerFacts
<1>3. s \in Signals
  BY <1>1, <1>2, SigFacts
<1>4. NextOpIs(t, "wait") /\ s = NextSig(t)
  BY <1>1
<1> HIDE DEF t, s
<1>5. /\ wpc \in [Workers -> WorkerPC] /\ frame \in [Tasks -> FrameState]
      /\ waiters \in [Signals -> Seq(Tasks)] /\ waiters[s] \in Seq(Tasks)
  BY <1>3 DEF IInv, FieldTypes
<1>6. \A v \in Workers : wpc'[v] = wpc[v] \/ wpc'[v] \in {"run", "idle"}
  BY <1>1, <1>5
<1>7. RaisingInv'
  BY <1>1, <1>6 DEF DependencyInv, RaisingInv
<1>8. CASE wpc' = [wpc EXCEPT ![w] = "run"] /\ UNCHANGED <<waiters, frame>> /\ signaled[s]
  <2>1. SetByTask' /\ PassedInv' /\ ParkedInv'
    BY <1>1, <1>2, <1>4, <1>8, AdvanceDep
  <2>2. ThrownInv'
    BY <1>1, <1>6, <1>8 DEF DependencyInv, ThrownInv
  <2> QED  BY <1>7, <2>1, <2>2 DEF DependencyInv
<1>9. CASE /\ wpc' = [wpc EXCEPT ![w] = "idle"]
           /\ waiters' = [waiters EXCEPT ![s] = <<t>> \o waiters[s]]
           /\ frame' = [frame EXCEPT ![t] = "waiting"]
  <2>1. \A u \in Tasks : frame'[u] = IF u = t THEN "waiting" ELSE frame[u]
    BY <1>5, <1>9
  <2>2. \A r \in Signals, u \in Tasks : InSeq(u, waiters'[r]) => InSeq(u, waiters[r]) \/ (u = t /\ r = s)
    <3>1. \A u : InSeq(u, waiters'[s]) => InSeq(u, waiters[s]) \/ u = t
      BY <1>2, <1>3, <1>5, <1>9, ConsFacts
    <3>2. \A r \in Signals : r # s => waiters'[r] = waiters[r]
      BY <1>5, <1>9
    <3> QED  BY <3>1, <3>2
  <2>3. SetByTask' /\ PassedInv' /\ ParkedInv'
    <3>1. /\ frame'[t] = "waiting" /\ \A u \in Tasks : u # t => frame'[u] = frame[u]
          /\ \A r \in Signals, u \in Tasks : InSeq(u, waiters'[r]) =>
               InSeq(u, waiters[r]) \/ (u = t /\ r = NextSig(t) /\ frame'[t] = "waiting")
      BY <1>2, <1>4, <2>1, <2>2
    <3> QED  BY <1>1, <1>2, <3>1, AdvanceDep
  <2>4. ~thrown[t]
    BY <1>1 DEF AtEnd
  <2>5. ThrownInv'
    BY <1>1, <1>2, <1>6, <2>1, <2>4 DEF DependencyInv, ThrownInv, Raising
  <2> QED  BY <1>7, <2>3, <2>5 DEF DependencyInv
<1> QED  BY <1>1, <1>8, <1>9

(* A Signal counts as raised once its task is past it.                     *)
LEMMA SignalDep ==
  ASSUME IInv, DependencyInv, NEW w \in Workers, Signal(w)
  PROVE  DependencyInv'
<1> DEFINE t == job[w]
           s == NextSig(t)
<1>1. /\ wpc[w] = "run" /\ NextOpIs(t, "signal") /\ ~AtEnd(t)
      /\ UNCHANGED <<job, waiters, frame, thrown, mpc>>
      /\ signaled' = [signaled EXCEPT ![s] = TRUE]
      /\ raising' = [raising EXCEPT ![w] = s]
      /\ ip' = [ip EXCEPT ![t] = ip[t] + 1]
      /\ wpc' = [wpc EXCEPT ![w] = "steal"]
  BY DEF Signal, NextOpIs, mainVars
<1>2. /\ t \in Tasks /\ frame[t] = "running"
      /\ \A v \in Workers : wpc[v] \in Raising => v # w /\ job[v] \in Tasks /\ job[v] # t
  BY <1>1, RunnerFacts
<1>3. s \in Signals
  BY <1>1, <1>2, SigFacts
<1>4. NextOpIs(t, "signal") /\ s = NextSig(t) /\ ~NextOpIs(t, "wait") /\ job[w] = t
  BY <1>1 DEF NextOpIs
<1> HIDE DEF t, s
<1>5. /\ wpc \in [Workers -> WorkerPC] /\ raising \in [Workers -> Signals]
      /\ signaled \in [Signals -> BOOLEAN]
  BY DEF IInv, FieldTypes
<1>6. \A v \in Workers : /\ v # w => wpc'[v] = wpc[v] /\ raising'[v] = raising[v]
                         /\ raising'[w] = s
  BY <1>1, <1>5
<1>7. signaled'[s] /\ \A r \in Signals : r # s => signaled'[r] = signaled[r]
  BY <1>1, <1>3, <1>5, Zenon
<1>8. SetByTask' /\ PassedInv' /\ ParkedInv'
  <2>1. /\ \A r \in Signals : signaled[r] => signaled'[r]
        /\ \A r \in Signals : signaled'[r] => signaled[r] \/ (NextOpIs(t, "signal") /\ r = NextSig(t))
    BY <1>4, <1>7, Zenon
  <2> QED  BY <1>1, <1>2, <1>4, <2>1, AdvanceDep
<1>9. RaisingInv'
  <2> SUFFICES ASSUME NEW v \in Workers, wpc'[v] = "steal" PROVE signaled'[raising'[v]]
    BY DEF RaisingInv
  <2>1. CASE v = w
    BY <1>6, <1>7, <2>1
  <2>2. CASE v # w
    <3>1. raising[v] \in Signals /\ signaled[raising[v]] /\ raising'[v] = raising[v]
      BY <1>5, <1>6, <2>2 DEF DependencyInv, RaisingInv
    <3> QED  BY <1>7, <3>1
  <2> QED  BY <2>1, <2>2
<1>10. ThrownInv'
  <2>1. ~thrown[t]
    BY <1>1 DEF AtEnd
  <2>2. \A v \in Workers : wpc'[v] \in Raising /\ v # w => wpc[v] \in Raising
    BY <1>6
  <2> QED  BY <1>1, <1>4, <2>1, <2>2 DEF DependencyInv, ThrownInv, Raising
<1> QED  BY <1>8, <1>9, <1>10 DEF DependencyInv

(* A task throws once: nothing resumes it afterwards.                      *)
LEMMA ThrowDep ==
  ASSUME IInv, DependencyInv, NEW w \in Workers, Throw(w)
  PROVE  DependencyInv'
<1> DEFINE t == job[w]
<1>1. /\ wpc[w] = "run"
      /\ UNCHANGED <<job, raising, signaled, waiters, frame, ip, mpc>>
      /\ thrown' = [thrown EXCEPT ![t] = TRUE]
      /\ wpc' = [wpc EXCEPT ![w] = "collect"]
  BY DEF Throw, signalVars, mainVars
<1>2. /\ t \in Tasks /\ frame[t] = "running"
      /\ \A v \in Workers : wpc[v] \in Raising => v # w /\ job[v] \in Tasks /\ job[v] # t
  BY <1>1, RunnerFacts
<1> HIDE DEF t
<1>3. wpc \in [Workers -> WorkerPC] /\ thrown \in [Tasks -> BOOLEAN]
  BY DEF IInv, FieldTypes
<1>4. \A v \in Workers : wpc'[v] \in {wpc[v], "collect"}
  BY <1>1, <1>3
<1>5. \A u \in Tasks : u # t => thrown'[u] = thrown[u]
  BY <1>1, <1>3, Zenon
<1>6. SetByTask' /\ PassedInv' /\ ParkedInv' /\ RaisingInv'
  BY <1>1, <1>4 DEF DependencyInv, SetByTask, Raiser, PassedInv, ParkedInv, RaisingInv
<1>7. \A u \in Tasks : frame[u] \in {"created", "queued", "waiting", "stolen"} => ~thrown'[u]
  BY <1>2, <1>5 DEF DependencyInv, ThrownInv
<1>8. \A v \in Workers : wpc'[v] \in Raising /\ frame[job[v]] = "running" => ~thrown'[job[v]]
  <2> SUFFICES ASSUME NEW v \in Workers, wpc'[v] \in Raising, frame[job[v]] = "running"
               PROVE  ~thrown'[job[v]]
    OBVIOUS
  <2>1. wpc[v] \in Raising
    BY <1>4 DEF Raising
  <2>2. job[v] \in Tasks /\ job[v] # t /\ ~thrown[job[v]]
    BY <1>2, <2>1 DEF DependencyInv, ThrownInv, Raising
  <2> QED  BY <1>5, <2>2
<1> QED  BY <1>1, <1>6, <1>7, <1>8 DEF DependencyInv, ThrownInv, Raising

(* The end of a task raises its id.                                        *)
LEMMA CompleteDep ==
  ASSUME IInv, DependencyInv, NEW w \in Workers, Complete(w)
  PROVE  DependencyInv'
<1> DEFINE t == job[w]
           s == IdOf[t]
<1>1. /\ wpc[w] = "run" /\ UNCHANGED <<job, waiters, ip, thrown, mpc>>
      /\ frame' = [frame EXCEPT ![t] = "final"]
      /\ signaled' = [signaled EXCEPT ![s] = TRUE]
      /\ raising' = [raising EXCEPT ![w] = s]
      /\ wpc' = [wpc EXCEPT ![w] = "steal"]
  BY DEF Complete, mainVars
<1>2. /\ t \in Tasks /\ frame[t] = "running"
      /\ \A v \in Workers : wpc[v] \in Raising => v # w /\ job[v] \in Tasks /\ job[v] # t
  BY <1>1, RunnerFacts
<1>3. s \in Signals /\ s = IdOf[t] /\ job[w] = t
  BY <1>2, IdOfAssumption
<1> HIDE DEF t, s
<1>4. /\ wpc \in [Workers -> WorkerPC] /\ raising \in [Workers -> Signals]
      /\ signaled \in [Signals -> BOOLEAN] /\ frame \in [Tasks -> FrameState]
  BY DEF IInv, FieldTypes
<1>5. \A v \in Workers : /\ v # w => wpc'[v] = wpc[v] /\ raising'[v] = raising[v]
                         /\ raising'[w] = s
  BY <1>1, <1>4
<1>6. signaled'[s] /\ \A r \in Signals : r # s => signaled'[r] = signaled[r]
  BY <1>1, <1>3, <1>4, Zenon
<1>7. \A u \in Tasks : frame'[u] = IF u = t THEN "final" ELSE frame[u]
  BY <1>1, <1>4
<1>8. SetByTask'
  <2>1. ASSUME NEW r \in Signals, NEW u \in Tasks, Raiser(u, r) PROVE Raiser(u, r)'
    BY <1>1, <1>7, <2>1 DEF Raiser
  <2>2. ASSUME NEW u \in Tasks, u = t, NEW r \in Signals, r = s PROVE Raiser(u, r)'
    BY <1>2, <1>3, <1>7, <2>2 DEF Raiser
  <2>3. ASSUME mpc \notin Dead, NEW r \in Signals, signaled'[r] PROVE \E u \in Tasks : Raiser(u, r)'
    <3>1. CASE r = s
      BY <1>2, <2>2, <3>1
    <3>2. CASE r # s
      <4>1. signaled[r]
        BY <1>6, <2>3, <3>2
      <4>2. PICK u \in Tasks : Raiser(u, r)
        BY <2>3, <4>1 DEF DependencyInv, SetByTask, Dead
      <4> QED  BY <2>1, <4>2
    <3> QED  BY <3>1, <3>2
  <2> QED  BY <1>1, <2>3 DEF SetByTask, Dead
<1>9. PassedInv'
  <2> SUFFICES ASSUME NEW u \in Tasks, frame'[u] # "none"
               PROVE  /\ ip[u] <= Len(Script[u]) + 1
                      /\ \A k \in 1..(ip[u] - 1) :
                           Script[u][k].op = "wait" =>
                             signaled'[Script[u][k].sig] \/ (frame'[u] = "waiting" /\ k = ip[u] - 1)
    BY <1>1 DEF PassedInv
  <2>1. frame[u] # "none" /\ (frame[u] = "waiting" => frame'[u] = "waiting")
    BY <1>2, <1>7
  <2>2. ip[u] <= Len(Script[u]) + 1 /\ Len(Script[u]) \in Nat /\ ip[u] \in Nat \ {0}
    BY <2>1, ScriptFacts DEF DependencyInv, PassedInv
  <2>3. \A k \in 1..(ip[u] - 1) : Script[u][k].sig \in Signals
    <3>1. \A k \in 1..(ip[u] - 1) : k \in 1..Len(Script[u])
      BY <2>2
    <3> QED  BY <3>1, ScriptFacts
  <2>4. \A k \in 1..(ip[u] - 1) :
           Script[u][k].op = "wait" =>
             signaled[Script[u][k].sig] \/ (frame[u] = "waiting" /\ k = ip[u] - 1)
    BY <2>1 DEF DependencyInv, PassedInv
  <2> QED  BY <1>6, <2>1, <2>2, <2>3, <2>4
<1>10. ParkedInv'
  <2>1. \A u \in Tasks : frame'[u] \in {"waiting", "stolen"} => frame[u] = frame'[u]
    BY <1>7
  <2> QED  BY <1>1, <2>1 DEF DependencyInv, ParkedInv
<1>11. RaisingInv'
  <2> SUFFICES ASSUME NEW v \in Workers, wpc'[v] = "steal" PROVE signaled'[raising'[v]]
    BY DEF RaisingInv
  <2>1. CASE v = w
    BY <1>5, <1>6, <2>1
  <2>2. CASE v # w
    <3>1. raising[v] \in Signals /\ signaled[raising[v]] /\ raising'[v] = raising[v]
      BY <1>4, <1>5, <2>2 DEF DependencyInv, RaisingInv
    <3> QED  BY <1>6, <3>1
  <2> QED  BY <2>1, <2>2
<1>12. ThrownInv'
  <2>1. \A v \in Workers : wpc'[v] \in Raising /\ v # w => wpc[v] \in Raising
    BY <1>5
  <2>2. \A v \in Workers : wpc'[v] \in Raising /\ frame'[job[v]] = "running" => ~thrown[job[v]]
    <3> SUFFICES ASSUME NEW v \in Workers, wpc'[v] \in Raising, frame'[job[v]] = "running"
                 PROVE  ~thrown[job[v]]
      OBVIOUS
    <3>1. v # w
      BY <1>2, <1>3, <1>7
    <3> QED  BY <1>2, <1>7, <2>1, <3>1 DEF DependencyInv, ThrownInv, Raising
  <2>3. \A u \in Tasks : frame'[u] \in {"created", "queued", "waiting", "stolen"} => frame[u] = frame'[u]
    BY <1>7
  <2> QED  BY <1>1, <2>2, <2>3 DEF DependencyInv, ThrownInv, Raising
<1> QED  BY <1>8, <1>9, <1>10, <1>11, <1>12 DEF DependencyInv

(* The waiters a Raise takes are past a wait for a signal that is set.     *)
LEMMA StealWaitersDep ==
  ASSUME IInv, DependencyInv, NEW w \in Workers, StealWaiters(w)
  PROVE  DependencyInv'
<1> DEFINE s == raising[w]
           list == waiters[s]
<1>1. /\ wpc[w] = "steal" /\ UNCHANGED <<job, raising, signaled, ip, thrown, mpc>>
      /\ waiters' = [waiters EXCEPT ![s] = <<>>]
      /\ frame' = [t \in Tasks |-> IF InSeq(t, list) THEN "stolen" ELSE frame[t]]
      /\ wpc' = [wpc EXCEPT ![w] = "wake"]
  BY DEF StealWaiters, mainVars
<1>2. /\ wpc \in [Workers -> WorkerPC] /\ waiters \in [Signals -> Seq(Tasks)]
      /\ s \in Signals /\ signaled[s]
  BY <1>1 DEF IInv, FieldTypes, DependencyInv, RaisingInv
<1>3. \A t \in Tasks : InSeq(t, list) => frame[t] = "waiting" /\ Script[t][ip[t] - 1].sig = s
  BY <1>2 DEF IInv, WaiterInv, DependencyInv, ParkedInv
<1> HIDE DEF list, s
<1>4. /\ \A t \in Tasks : frame'[t] # frame[t] => frame[t] = "waiting" /\ frame'[t] = "stolen" /\ Script[t][ip[t] - 1].sig = s
  BY <1>1, <1>3
<1>5. \A v \in Workers : wpc'[v] = wpc[v] \/ (v = w /\ wpc'[v] = "wake")
  BY <1>1, <1>2
<1>6. \A r \in Signals, t \in Tasks : InSeq(t, waiters'[r]) => InSeq(t, waiters[r])
  <2>1. \A r \in Signals : waiters'[r] = waiters[r] \/ waiters'[r] = <<>>
    BY <1>1, <1>2
  <2> QED  BY <2>1, EmptyFacts
<1>7. SetByTask' /\ RaisingInv'
  BY <1>1, <1>4, <1>5 DEF DependencyInv, SetByTask, Raiser, RaisingInv
<1>8. PassedInv'
  <2> SUFFICES ASSUME NEW t \in Tasks, frame'[t] # "none"
               PROVE  /\ ip[t] <= Len(Script[t]) + 1
                      /\ \A k \in 1..(ip[t] - 1) :
                           Script[t][k].op = "wait" =>
                             signaled[Script[t][k].sig] \/ (frame'[t] = "waiting" /\ k = ip[t] - 1)
    BY <1>1 DEF PassedInv
  <2>1. frame[t] # "none"
    BY <1>4
  <2>2. /\ ip[t] <= Len(Script[t]) + 1
        /\ \A k \in 1..(ip[t] - 1) :
             Script[t][k].op = "wait" =>
               signaled[Script[t][k].sig] \/ (frame[t] = "waiting" /\ k = ip[t] - 1)
    BY <2>1 DEF DependencyInv, PassedInv
  <2>3. frame[t] = "waiting" => frame'[t] = "waiting" \/ signaled[Script[t][ip[t] - 1].sig]
    BY <1>2, <1>4
  <2> QED  BY <2>2, <2>3
<1>9. ParkedInv'
  BY <1>1, <1>4, <1>6 DEF DependencyInv, ParkedInv
<1>10. ThrownInv'
  <2>1. \A v \in Workers : wpc'[v] \in Raising => wpc[v] \in Raising /\ job[v] \in Tasks
    BY <1>1, <1>5, HolderFacts DEF Raising, Holding
  <2> QED  BY <1>1, <1>4, <2>1 DEF DependencyInv, ThrownInv, Raising
<1> QED  BY <1>7, <1>8, <1>9, <1>10 DEF DependencyInv

(* Building and clearing a frame.                                          *)
LEMMA AddDep ==
  ASSUME IInv, DependencyInv, NEW t \in Tasks, Add(t)
  PROVE  DependencyInv'
<1>1. /\ UNCHANGED <<wpc, job, raising, signaled, waiters, mpc>> /\ mpc = "client"
      /\ frame' = [frame EXCEPT ![t] = "created"]
      /\ ip' = [ip EXCEPT ![t] = 1]
      /\ thrown' = [thrown EXCEPT ![t] = FALSE]
      /\ tasks' = Append(tasks, t)
  BY DEF Add, workerVars, signalVars, mainVars
<1>2. /\ ip \in [Tasks -> Nat \ {0}] /\ thrown \in [Tasks -> BOOLEAN] /\ frame \in [Tasks -> FrameState]
      /\ tasks \in Seq(Tasks)
  BY DEF IInv, FieldTypes
<1>3. /\ \A s \in Signals : waiters[s] = <<>>
      /\ \A w \in Workers : wpc[w] \notin Holding
  <2>1. \A u \in Tasks : frame[u] \in {"none", "created", "finished"}
    BY <1>1 DEF IInv, MainInv
  <2> QED  BY <2>1, QuietFacts
<1>4. frame[t] = "none"
  BY AddIsNew
<1>5. /\ frame'[t] = "created" /\ ip'[t] = 1
      /\ \A u \in Tasks : u # t => frame'[u] = frame[u] /\ ip'[u] = ip[u]
  BY <1>1, <1>2
<1>6. ~thrown'[t] /\ \A u \in Tasks : u # t => thrown'[u] = thrown[u]
  BY <1>1, <1>2, Zenon
<1>7. SetByTask'
  <2>1. ASSUME NEW s \in Signals, NEW u \in Tasks, Raiser(u, s) PROVE Raiser(u, s)'
    BY <1>4, <1>5, <2>1 DEF Raiser
  <2> QED  BY <1>1, <2>1 DEF DependencyInv, SetByTask
<1>8. PassedInv'
  <2> SUFFICES ASSUME NEW u \in Tasks, frame'[u] # "none"
               PROVE  /\ ip'[u] <= Len(Script[u]) + 1
                      /\ \A k \in 1..(ip'[u] - 1) :
                           Script[u][k].op = "wait" =>
                             signaled[Script[u][k].sig] \/ (frame'[u] = "waiting" /\ k = ip'[u] - 1)
    BY <1>1 DEF PassedInv
  <2>1. CASE u = t
    <3>1. Len(Script[t]) \in Nat /\ 1..(ip'[t] - 1) = {}
      BY <1>5, ScriptFacts
    <3> QED  BY <1>5, <2>1, <3>1
  <2>2. CASE u # t
    BY <1>5, <2>2 DEF DependencyInv, PassedInv
  <2> QED  BY <2>1, <2>2
<1>9. ParkedInv'
  <2>1. \A s \in Signals, u \in Tasks : ~InSeq(u, waiters'[s])
    BY <1>1, <1>3, EmptyFacts
  <2> QED  BY <1>5, <2>1 DEF DependencyInv, ParkedInv
<1>10. RaisingInv'
  BY <1>1 DEF DependencyInv, RaisingInv
<1>11. ThrownInv'
  <2>1. \A u \in Tasks : frame'[u] \in {"created", "queued", "waiting", "stolen"} => ~thrown'[u]
    BY <1>5, <1>6 DEF DependencyInv, ThrownInv
  <2> QED  BY <1>1, <1>3, <2>1 DEF ThrownInv, Holding
<1> QED  BY <1>7, <1>8, <1>9, <1>10, <1>11 DEF DependencyInv

LEMMA ClearDep ==
  ASSUME IInv, DependencyInv, Reset \/ Destroy
  PROVE  DependencyInv'
<1>1. /\ UNCHANGED <<wpc, job, raising, ip, thrown>> /\ mpc \in {"client", "returned"}
      /\ frame' = [t \in Tasks |-> IF InSeq(t, tasks) THEN "none" ELSE frame[t]]
      /\ \/ signaled' = [s \in Signals |-> FALSE] /\ waiters' = [s \in Signals |-> <<>>]
         \/ UNCHANGED <<signaled, waiters>> /\ mpc' = "dtor"
  BY DEF Reset, Destroy, workerVars, signalVars
<1>2. \A t \in Tasks : frame'[t] = "none"
  BY <1>1 DEF IInv, FrameInv
<1>3. /\ \A s \in Signals : waiters[s] = <<>>
      /\ \A w \in Workers : wpc[w] \notin Holding
  <2>1. \A u \in Tasks : frame[u] \in {"none", "created", "finished"}
    BY <1>1 DEF IInv, MainInv
  <2> QED  BY <2>1, QuietFacts
<1>4. \A s \in Signals, u \in Tasks : ~InSeq(u, waiters'[s])
  <2>1. \A s \in Signals : waiters'[s] = <<>>
    BY <1>1, <1>3
  <2> QED  BY <2>1, EmptyFacts
<1>5. SetByTask'
  <2>1. CASE signaled' = [s \in Signals |-> FALSE]
    BY <2>1 DEF SetByTask
  <2>2. CASE mpc' = "dtor"
    BY <2>2 DEF SetByTask
  <2> QED  BY <1>1, <2>1, <2>2
<1>6. PassedInv' /\ ParkedInv'
  BY <1>2, <1>4 DEF PassedInv, ParkedInv
<1>7. RaisingInv' /\ ThrownInv'
  BY <1>1, <1>2, <1>3 DEF RaisingInv, ThrownInv, Holding
<1> QED  BY <1>5, <1>6, <1>7 DEF DependencyInv

(* Every step keeps DependencyInv.                                         *)
LEMMA NextDep == IInv /\ DependencyInv /\ [Next]_vars => DependencyInv'
<1> SUFFICES ASSUME IInv, DependencyInv, [Next]_vars PROVE DependencyInv'
  OBVIOUS
<1>1. ASSUME NEW w \in Workers, Sleep(w) \/ Exit(w) \/ SpuriousWake(w) \/ PokeSelf(w) \/ LeaveCallback(w)
                                 \/ Poke(w) \/ Raised(w) \/ NotifyDone(w) \/ CollectException(w)
      PROVE  DependencyInv'
  <2>1. /\ UNCHANGED <<job, raising, signaled, waiters, frame, ip, thrown>>
        /\ mpc' \notin Dead => mpc \notin Dead
    BY <1>1 DEF Sleep, Exit, SpuriousWake, PokeSelf, LeaveCallback, Poke, Raised, NotifyDone, CollectException,
                signalVars, coroVars, mainVars, Dead
  <2>2. \A v \in Workers : wpc'[v] = wpc[v] \/ wpc'[v] \notin Raising \/ (wpc[v] = "poke" /\ wpc'[v] = "wake")
    <3>1. wpc \in [Workers -> WorkerPC]
      BY DEF IInv, FieldTypes
    <3>2. CASE Poke(w)
      <4>1. [wpc EXCEPT ![w] = "wake"] \in [Workers -> WorkerPC]
        BY <3>1 DEF WorkerPC
      <4> QED  BY <3>1, <3>2, <4>1, NotifyOneFacts DEF Poke, Raising
    <3>3. CASE PokeSelf(w)
      <4>1. [wpc EXCEPT ![w] = "idle"] \in [Workers -> WorkerPC]
        BY <3>1 DEF WorkerPC
      <4> QED  BY <3>1, <3>3, <4>1, NotifyOneFacts DEF PokeSelf, Raising
    <3>4. CASE \/ Sleep(w) \/ Exit(w) \/ SpuriousWake(w) \/ LeaveCallback(w) \/ Raised(w)
               \/ NotifyDone(w) \/ CollectException(w)
      BY <3>1, <3>4 DEF Sleep, Exit, SpuriousWake, LeaveCallback, Raised, NotifyDone, CollectException, Raising
    <3> QED  BY <1>1, <3>2, <3>3, <3>4
  <2> QED  BY <2>1, <2>2, HandOver DEF Raising
<1>2. CASE \E w \in Workers : Worker(w) \/ SpuriousWake(w)
  BY <1>1, <1>2, TakeJobDep, WaitReadyDep, AddWaiterDep, SignalDep, ThrowDep, StealWaitersDep, WakeWaiterDep,
     RequeueSelfDep, CompleteDep, DecrementPendingDep
     DEF Worker, WorkerLoop, WorkerAwait, WorkerRaise, WorkerFinal
<1>3. CASE RunPoke \/ RunCheck \/ RunSleep \/ RunSpuriousWake \/ RunFinish \/ DtorStep \/ Run \/ Gone \/ UNCHANGED vars
  <2>1. /\ UNCHANGED <<job, raising, signaled, waiters, frame, ip, thrown>>
        /\ mpc' \notin Dead => mpc \notin Dead
    BY <1>3 DEF RunPoke, RunCheck, RunSleep, RunSpuriousWake, RunFinish, DtorStep, Shutdown, WakeAll, Join, Run, Gone,
                vars, workerVars, signalVars, coroVars, mainVars, Dead
  <2>2. \A v \in Workers : wpc'[v] = wpc[v] \/ wpc'[v] \notin Raising
    <3>1. wpc \in [Workers -> WorkerPC]
      BY DEF IInv, FieldTypes
    <3>2. CASE RunPoke
      BY <3>1, <3>2, NotifyOneFacts DEF RunPoke, Raising
    <3>3. CASE WakeAll
      BY <3>1, <3>3 DEF WakeAll, Raising
    <3>4. CASE wpc' = wpc
      BY <3>4
    <3> QED
      BY <1>3, <3>2, <3>3, <3>4 DEF RunCheck, RunSleep, RunSpuriousWake, RunFinish, DtorStep, Shutdown, Join, Run, Gone,
                                    vars, workerVars
  <2> QED  BY <2>1, <2>2, HandOver DEF Raising
<1>4. CASE RunEnqueue \/ Reset \/ Destroy \/ \E t \in Tasks : Add(t)
  BY <1>4, RunEnqueueDep, ClearDep, AddDep
<1> QED  BY <1>2, <1>3, <1>4 DEF Next, RunStep, Client

LEMMA InitDep == Init => DependencyInv
<1> SUFFICES ASSUME Init PROVE DependencyInv
  OBVIOUS
<1>1. /\ \A t \in Tasks : frame[t] = "none"
      /\ \A s \in Signals : ~signaled[s] /\ waiters[s] = <<>>
      /\ \A w \in Workers : wpc[w] = "idle"
  BY DEF Init
<1>2. \A s \in Signals, t \in Tasks : ~InSeq(t, waiters[s])
  BY <1>1, EmptyFacts
<1> QED  BY <1>1, <1>2 DEF DependencyInv, SetByTask, PassedInv, ParkedInv, RaisingInv, ThrownInv

(* Signals that are set were raised in this frame, and tasks are past only *)
(* what was, in every reachable state.                                     *)
THEOREM DependencyInvariance == Spec => []DependencyInv
<1>1. Init => DependencyInv
  BY InitDep
<1>2. IInv /\ DependencyInv /\ [Next]_vars => DependencyInv'
  BY NextDep
<1> QED  BY <1>1, <1>2, Invariance, PTL DEF Spec

(* No task executes code behind co_await Wait(s) before s was raised in    *)
(* this frame, by the end of a task or by a Signal.                        *)
THEOREM DependenciesKept == Spec => []DependenciesHold
<1>1. IInv /\ DependencyInv => DependenciesHold
  <2> SUFFICES ASSUME IInv, DependencyInv, NEW w \in Workers, wpc[w] \in {"run", "add"},
                      NEW k \in 1..(ip[job[w]] - 1), Script[job[w]][k].op = "wait"
               PROVE  RaisedThisFrame(Script[job[w]][k].sig)
    BY DEF DependenciesHold
  <2> DEFINE t == job[w]
             s == Script[t][k].sig
  <2>1. t \in Tasks /\ frame[t] = "running"
    BY RunnerFacts
  <2>2. signaled[s] /\ s \in Signals
    <3>1. ip[t] <= Len(Script[t]) + 1 /\ Len(Script[t]) \in Nat /\ ip[t] \in Nat \ {0}
      BY <2>1, ScriptFacts DEF DependencyInv, PassedInv
    <3>2. k \in 1..Len(Script[t])
      BY <3>1
    <3> QED  BY <2>1, <3>2, ScriptFacts DEF DependencyInv, PassedInv
  <2>3. mpc \notin Dead
    BY <2>1 DEF IInv, MainInv, Dead
  <2>4. PICK u \in Tasks : Raiser(u, s)
    BY <2>2, <2>3 DEF DependencyInv, SetByTask, Dead
  <2>5. InSeq(u, tasks)
    BY <2>4 DEF Raiser, IInv, FrameInv
  <2> QED  BY <2>4, <2>5 DEF Raiser, RaisedThisFrame, InSeq
<1> QED  BY <1>1, Invariance, DependencyInvariance, PTL

-----------------------------------------------------------------------------
(* The refinement: every step maps to a step of TaskOrder, or to none      *)

(* What the client sees in each position of Main.                          *)
LEMMA PhaseFacts ==
  /\ mpc = "client" => PhaseOf = "build"
  /\ mpc = "returned" => PhaseOf = "returned"
  /\ mpc \in Dead => PhaseOf = "destroyed"
  /\ mpc \in Scheduling \cup {"finish"} => PhaseOf = "run"
  BY DEF PhaseOf, Dead, Scheduling

LEMMA PhaseFactsNext ==
  /\ mpc' = "client" => PhaseOf' = "build"
  /\ mpc' = "returned" => PhaseOf' = "returned"
  /\ mpc' \in Dead => PhaseOf' = "destroyed"
  /\ mpc' \in Scheduling \cup {"finish"} => PhaseOf' = "run"
  BY DEF PhaseOf, Dead, Scheduling

(* The mapped state as functions of the frames.                            *)
LEMMA MappedFacts ==
  /\ \A t \in Tasks : PosOf[t] = IF frame[t] \in {"waiting", "stolen"} THEN ip[t] - 1 ELSE ip[t]
  /\ \A t : t \in ThrewOf <=> t \in Tasks /\ frame[t] # "none" /\ thrown[t]
  /\ \A t : t \in EndedOf <=> t \in Tasks /\ frame[t] \in {"final", "finished"}
  /\ \A s : s \in RaisedOf <=> s \in Signals /\ signaled[s]
  BY DEF PosOf, ThrewOf, EndedOf, RaisedOf

(* A step the client cannot see: handles move, positions do not.           *)
LEMMA StutterSteps ==
  ASSUME IInv,
         UNCHANGED <<tasks, outcome, ip, thrown, signaled>>,
         PhaseOf' = PhaseOf,
         \A t \in Tasks : frame'[t] # frame[t] =>
           /\ frame[t] \in {"waiting", "stolen"} <=> frame'[t] \in {"waiting", "stolen"}
           /\ frame[t] \in {"final", "finished"} <=> frame'[t] \in {"final", "finished"}
           /\ frame[t] # "none" /\ frame'[t] # "none"
  PROVE  UNCHANGED Promise!vars
<1>1. PosOf' = PosOf
  BY DEF PosOf
<1>2. ThrewOf' = ThrewOf /\ EndedOf' = EndedOf /\ RaisedOf' = RaisedOf
  BY DEF ThrewOf, EndedOf, RaisedOf
<1> QED  BY <1>1, <1>2 DEF Promise!vars

(* A new graph is a new promise.                                           *)
LEMMA InitMaps == Init => Promise!Init
<1> SUFFICES ASSUME Init PROVE Promise!Init
  OBVIOUS
<1>1. PhaseOf = "build"
  BY PhaseFacts DEF Init
<1>2. PosOf = [t \in Tasks |-> 1]
  BY DEF Init, PosOf
<1>3. ThrewOf = {} /\ EndedOf = {} /\ RaisedOf = {}
  BY DEF Init, ThrewOf, EndedOf, RaisedOf
<1> QED  BY <1>1, <1>2, <1>3 DEF Init, Promise!Init

(* A task a worker runs or wakes takes part in the promised run.           *)
LEMMA ActiveFacts ==
  ASSUME IInv, NEW t \in Tasks, frame[t] \in {"queued", "running", "waiting", "stolen"}
  PROVE  /\ mpc \in Scheduling /\ PhaseOf = "run"
         /\ Promise!Active(t)
<1>1. mpc \in Scheduling
  BY DEF IInv, FieldTypes, MainPC, MainInv, Scheduling
<1>2. PhaseOf = "run"
  BY <1>1, PhaseFacts
<1>3. t \notin EndedOf
  BY MappedFacts
<1>4. \E i \in DOMAIN tasks : tasks[i] = t
  BY DEF IInv, FrameInv, InSeq
<1> QED  BY <1>1, <1>2, <1>3, <1>4 DEF Promise!Active, Promise!Listed

(* The position of one task moves on.                                      *)
LEMMA PosSteps ==
  ASSUME IInv, NEW t \in Tasks, NEW n \in Nat, PosOf[t] = n, PosOf'[t] = n + 1,
         \A u \in Tasks : u # t => PosOf'[u] = PosOf[u]
  PROVE  PosOf' = [PosOf EXCEPT ![t] = PosOf[t] + 1]
<1>1. PosOf = [u \in Tasks |-> PosOf[u]] /\ PosOf' = [u \in Tasks |-> PosOf'[u]]
  BY DEF PosOf
<1> HIDE DEF PosOf
<1> QED  BY <1>1

(* What the running task does next.                                        *)
LEMMA AtFacts ==
  ASSUME IInv, NEW t \in Tasks, NEW kind, NextOpIs(t, kind), frame[t] \notin {"waiting", "stolen"}
  PROVE  /\ Promise!At(t, kind) /\ PosOf[t] = ip[t]
         /\ Script[t][PosOf[t]].sig = NextSig(t)
<1>1. PosOf[t] = ip[t]
  BY MappedFacts
<1>2. t \notin ThrewOf
  BY MappedFacts DEF NextOpIs, AtEnd
<1> QED  BY <1>1, <1>2 DEF NextOpIs, NextSig, AtEnd, Promise!At, Promise!Finishing

(* A running task passes its wait, at either look at the flag.             *)
LEMMA PassMaps ==
  ASSUME IInv, NEW t \in Tasks, frame[t] = "running", NextOpIs(t, "wait"), signaled[NextSig(t)],
         ip' = [ip EXCEPT ![t] = ip[t] + 1],
         UNCHANGED <<frame, thrown, signaled, tasks, mpc, outcome>>
  PROVE  Promise!PassWait(t)
<1>1. Promise!Active(t) /\ Promise!At(t, "wait")
  BY ActiveFacts, AtFacts
<1>2. Script[t][PosOf[t]].sig \in RaisedOf
  BY AtFacts, SigFacts, MappedFacts
<1>3. PosOf' = [PosOf EXCEPT ![t] = PosOf[t] + 1]
  <2>1. ip \in [Tasks -> Nat \ {0}]
    BY DEF IInv, FieldTypes
  <2>2. /\ PosOf[t] = ip[t] /\ PosOf'[t] = ip[t] + 1 /\ ip[t] \in Nat
        /\ \A u \in Tasks : u # t => PosOf'[u] = PosOf[u]
    BY <2>1 DEF PosOf
  <2> QED  BY <2>2, PosSteps
<1>4. ThrewOf' = ThrewOf /\ EndedOf' = EndedOf /\ RaisedOf' = RaisedOf /\ PhaseOf' = PhaseOf
  BY DEF ThrewOf, EndedOf, RaisedOf, PhaseOf
<1> QED  BY <1>1, <1>2, <1>3, <1>4 DEF Promise!PassWait

(* A woken waiter passes the wait it was counted past.                     *)
LEMMA WakeMaps ==
  ASSUME IInv, DependencyInv, NEW w \in Workers, WakeWaiter(w)
  PROVE  \E t \in Tasks : Promise!PassWait(t)
<1> DEFINE t == Head(stolen[w])
<1>1. /\ t \in Tasks /\ frame[t] = "stolen"
      /\ frame' = [frame EXCEPT ![t] = "queued"]
      /\ UNCHANGED <<ip, thrown, signaled, tasks, mpc, outcome>>
  <2>1. stolen[w] # <<>> /\ stolen[w] \in Seq(Tasks)
    BY DEF WakeWaiter, IInv, FieldTypes
  <2>2. InSeq(t, stolen[w]) /\ t \in Tasks
    BY <2>1, MemberFacts
  <2> QED  BY <2>2 DEF WakeWaiter, IInv, StolenInv, signalVars, graphVars, mainVars
<1> HIDE DEF t
<1>2. frame \in [Tasks -> FrameState] /\ ip \in [Tasks -> Nat \ {0}]
  BY DEF IInv, FieldTypes
<1>3. frame'[t] = "queued" /\ \A u \in Tasks : u # t => frame'[u] = frame[u]
  BY <1>1, <1>2
<1>4. /\ ip[t] - 1 \in Nat \ {0} /\ ip[t] - 1 <= Len(Script[t]) /\ Len(Script[t]) \in Nat
      /\ Script[t][ip[t] - 1].op = "wait"
  <2>1. ip[t] <= Len(Script[t]) + 1 /\ ip[t] > 1 /\ Script[t][ip[t] - 1].op = "wait"
    BY <1>1 DEF DependencyInv, PassedInv, ParkedInv
  <2> QED  BY <1>1, <2>1, ScriptFacts
<1>5. PosOf[t] = ip[t] - 1 /\ PosOf'[t] = ip[t]
  BY <1>1, <1>3, MappedFacts DEF PosOf
<1>6. Promise!Active(t) /\ Promise!At(t, "wait")
  <2>1. t \notin ThrewOf
    BY <1>1, MappedFacts DEF DependencyInv, ThrownInv
  <2>2. ~(PosOf[t] > Len(Script[t]))
    BY <1>4, <1>5
  <2> QED  BY <1>1, <1>4, <1>5, <2>1, <2>2, ActiveFacts DEF Promise!At, Promise!Finishing
<1>7. Script[t][PosOf[t]].sig \in RaisedOf
  <2>1. ip[t] - 1 \in 1..(ip[t] - 1) /\ ip[t] - 1 \in 1..Len(Script[t])
    BY <1>1, <1>2, <1>4
  <2>2. signaled[Script[t][ip[t] - 1].sig]
    BY <1>1, <1>4, <2>1 DEF DependencyInv, PassedInv
  <2>3. Script[t][ip[t] - 1].sig \in Signals
    BY <1>1, <2>1, ScriptFacts
  <2> QED  BY <1>5, <2>2, <2>3, MappedFacts
<1>8. PosOf' = [PosOf EXCEPT ![t] = PosOf[t] + 1]
  <2>1. \A u \in Tasks : u # t => PosOf'[u] = PosOf[u]
    BY <1>1, <1>3 DEF PosOf
  <2>2. ip[t] - 1 \in Nat /\ PosOf[t] = ip[t] - 1 /\ PosOf'[t] = (ip[t] - 1) + 1
    BY <1>4, <1>5, <1>2, <1>1
  <2> HIDE DEF PosOf
  <2> QED  BY <1>1, <2>1, <2>2, PosSteps
<1>9. ThrewOf' = ThrewOf /\ EndedOf' = EndedOf /\ RaisedOf' = RaisedOf /\ PhaseOf' = PhaseOf
  BY <1>1, <1>3 DEF ThrewOf, EndedOf, RaisedOf, PhaseOf
<1> QED  BY <1>1, <1>6, <1>7, <1>8, <1>9 DEF Promise!PassWait

(* A Signal raises, and its task moves on, in one step.                    *)
LEMMA SignalMaps ==
  ASSUME IInv, NEW w \in Workers, Signal(w)
  PROVE  \E t \in Tasks : Promise!Signal(t)
<1> DEFINE t == job[w]
           s == NextSig(t)
<1>1. /\ wpc[w] = "run" /\ NextOpIs(t, "signal")
      /\ UNCHANGED <<frame, thrown, tasks, mpc, outcome>>
      /\ signaled' = [signaled EXCEPT ![s] = TRUE]
      /\ ip' = [ip EXCEPT ![t] = ip[t] + 1]
  BY DEF Signal, graphVars, mainVars
<1>2. t \in Tasks /\ frame[t] = "running"
  BY <1>1, RunnerFacts
<1>3. s \in Signals /\ s = NextSig(t)
  BY <1>1, <1>2, SigFacts
<1> HIDE DEF t, s
<1>4. Promise!Active(t) /\ Promise!At(t, "signal") /\ PosOf[t] = ip[t] /\ Script[t][PosOf[t]].sig = s
  BY <1>1, <1>2, <1>3, ActiveFacts, AtFacts
<1>5. PosOf' = [PosOf EXCEPT ![t] = PosOf[t] + 1]
  <2>1. ip \in [Tasks -> Nat \ {0}]
    BY DEF IInv, FieldTypes
  <2>2. /\ PosOf[t] = ip[t] /\ PosOf'[t] = ip[t] + 1 /\ ip[t] \in Nat
        /\ \A u \in Tasks : u # t => PosOf'[u] = PosOf[u]
    BY <1>1, <1>2, <2>1 DEF PosOf
  <2> QED  BY <1>2, <2>2, PosSteps
<1>6. RaisedOf' = RaisedOf \cup {s}
  <2>1. signaled \in [Signals -> BOOLEAN]
    BY DEF IInv, FieldTypes
  <2>2. signaled'[s] /\ \A r \in Signals : r # s => signaled'[r] = signaled[r]
    BY <1>1, <1>3, <2>1, Zenon
  <2>3. \A r : r \in RaisedOf' <=> r \in RaisedOf \/ r = s
    BY <1>3, <2>2, Zenon DEF RaisedOf
  <2> QED  BY <2>3
<1>7. ThrewOf' = ThrewOf /\ EndedOf' = EndedOf /\ PhaseOf' = PhaseOf
  BY <1>1 DEF ThrewOf, EndedOf, PhaseOf
<1> QED  BY <1>1, <1>2, <1>4, <1>5, <1>6, <1>7 DEF Promise!Signal

(* A throw.                                                                *)
LEMMA ThrowMaps ==
  ASSUME IInv, NEW w \in Workers, Throw(w)
  PROVE  \E t \in Tasks : Promise!Throw(t)
<1> DEFINE t == job[w]
<1>1. /\ wpc[w] = "run" /\ NextOpIs(t, "throw")
      /\ UNCHANGED <<frame, ip, signaled, tasks, mpc, outcome>>
      /\ thrown' = [thrown EXCEPT ![t] = TRUE]
  BY DEF Throw, signalVars, graphVars, mainVars
<1>2. t \in Tasks /\ frame[t] = "running"
  BY <1>1, RunnerFacts
<1> HIDE DEF t
<1>3. Promise!Active(t) /\ Promise!At(t, "throw")
  BY <1>1, <1>2, ActiveFacts, AtFacts
<1>4. ThrewOf' = ThrewOf \cup {t}
  <2>1. thrown \in [Tasks -> BOOLEAN]
    BY DEF IInv, FieldTypes
  <2>2. thrown'[t] /\ \A u \in Tasks : u # t => thrown'[u] = thrown[u]
    BY <1>1, <1>2, <2>1, Zenon
  <2>3. frame[t] # "none" /\ frame' = frame
    BY <1>1, <1>2
  <2>4. \A u : u \in ThrewOf' <=> u \in ThrewOf \/ u = t
    BY <1>2, <2>2, <2>3, Zenon DEF ThrewOf
  <2> QED  BY <2>4
<1>5. PosOf' = PosOf /\ RaisedOf' = RaisedOf /\ EndedOf' = EndedOf /\ PhaseOf' = PhaseOf
  BY <1>1 DEF PosOf, RaisedOf, EndedOf, PhaseOf
<1> QED  BY <1>1, <1>2, <1>3, <1>4, <1>5 DEF Promise!Throw

(* A task ends for its client when it raises its id.                       *)
LEMMA CompleteMaps ==
  ASSUME IInv, NEW w \in Workers, Complete(w)
  PROVE  \E t \in Tasks : Promise!End(t)
<1> DEFINE t == job[w]
           s == IdOf[t]
<1>1. /\ wpc[w] = "run" /\ AtEnd(t)
      /\ UNCHANGED <<ip, thrown, tasks, mpc, outcome>>
      /\ frame' = [frame EXCEPT ![t] = "final"]
      /\ signaled' = [signaled EXCEPT ![s] = TRUE]
  BY DEF Complete, graphVars, mainVars
<1>2. t \in Tasks /\ frame[t] = "running"
  BY <1>1, RunnerFacts
<1>3. s \in Signals /\ s = IdOf[t]
  BY <1>2, IdOfAssumption
<1> HIDE DEF t, s
<1>4. Promise!Active(t)
  BY <1>2, ActiveFacts
<1>5. Promise!Finishing(t)
  <2>1. PosOf[t] = ip[t] /\ (t \in ThrewOf <=> thrown[t])
    BY <1>2, MappedFacts
  <2> QED  BY <1>1, <2>1 DEF AtEnd, Promise!Finishing
<1>6. \A u \in Tasks : frame'[u] = IF u = t THEN "final" ELSE frame[u]
  <2>1. frame \in [Tasks -> FrameState]
    BY DEF IInv, FieldTypes
  <2> QED  BY <1>1, <2>1
<1>7. EndedOf' = EndedOf \cup {t} /\ ThrewOf' = ThrewOf /\ PosOf' = PosOf
  BY <1>1, <1>2, <1>6 DEF EndedOf, ThrewOf, PosOf
<1>8. RaisedOf' = RaisedOf \cup {s}
  <2>1. signaled \in [Signals -> BOOLEAN]
    BY DEF IInv, FieldTypes
  <2>2. signaled'[s] /\ \A r \in Signals : r # s => signaled'[r] = signaled[r]
    BY <1>1, <1>3, <2>1, Zenon
  <2>3. \A r : r \in RaisedOf' <=> r \in RaisedOf \/ r = s
    BY <1>3, <2>2, Zenon DEF RaisedOf
  <2> QED  BY <2>3
<1>9. PhaseOf' = PhaseOf
  BY <1>1 DEF PhaseOf
<1> QED  BY <1>1, <1>2, <1>3, <1>4, <1>5, <1>7, <1>8, <1>9 DEF Promise!End

(* The look under the mutex passes the wait, or parks a task the client    *)
(* sees still in front of it.                                              *)
LEMMA AddWaiterMaps ==
  ASSUME IInv, NEW w \in Workers, AddWaiter(w)
  PROVE  (\E t \in Tasks : Promise!PassWait(t)) \/ UNCHANGED Promise!vars
<1> DEFINE t == job[w]
<1>1. /\ wpc[w] = "add" /\ NextOpIs(t, "wait")
      /\ UNCHANGED <<thrown, signaled, tasks, mpc, outcome>>
      /\ ip' = [ip EXCEPT ![t] = ip[t] + 1]
      /\ (signaled[NextSig(t)] /\ frame' = frame) \/ frame' = [frame EXCEPT ![t] = "waiting"]
  BY DEF AddWaiter, IInv, HoldInv, graphVars, mainVars
<1>2. t \in Tasks /\ frame[t] = "running"
  BY <1>1, RunnerFacts
<1> HIDE DEF t
<1>3. CASE signaled[NextSig(t)] /\ frame' = frame
  BY <1>1, <1>2, <1>3, PassMaps
<1>4. CASE frame' = [frame EXCEPT ![t] = "waiting"]
  <2>1. frame \in [Tasks -> FrameState] /\ ip \in [Tasks -> Nat \ {0}]
    BY DEF IInv, FieldTypes
  <2>2. /\ frame'[t] = "waiting" /\ ip'[t] = ip[t] + 1 /\ ip[t] \in Nat
        /\ \A u \in Tasks : u # t => frame'[u] = frame[u] /\ ip'[u] = ip[u]
    BY <1>1, <1>2, <1>4, <2>1
  <2>3. PosOf' = PosOf
    <3>1. \A u \in Tasks : PosOf'[u] = PosOf[u]
      BY <1>2, <2>2 DEF PosOf
    <3> QED  BY <3>1 DEF PosOf
  <2>4. ThrewOf' = ThrewOf /\ EndedOf' = EndedOf /\ RaisedOf' = RaisedOf /\ PhaseOf' = PhaseOf
    BY <1>1, <1>2, <2>2 DEF ThrewOf, EndedOf, RaisedOf, PhaseOf
  <2> QED  BY <1>1, <2>3, <2>4 DEF Promise!vars
<1> QED  BY <1>1, <1>3, <1>4

(* The unlocked look passes the wait, or nothing happens.                  *)
LEMMA WaitReadyMaps ==
  ASSUME IInv, NEW w \in Workers, WaitReady(w)
  PROVE  (\E t \in Tasks : Promise!PassWait(t)) \/ UNCHANGED Promise!vars
<1> DEFINE t == job[w]
<1>1. /\ wpc[w] = "run" /\ NextOpIs(t, "wait")
      /\ UNCHANGED <<frame, thrown, signaled, tasks, mpc, outcome>>
      /\ \/ signaled[NextSig(t)] /\ ip' = [ip EXCEPT ![t] = ip[t] + 1]
         \/ ip' = ip
  BY DEF WaitReady, signalVars, graphVars, mainVars
<1>2. t \in Tasks /\ frame[t] = "running"
  BY <1>1, RunnerFacts
<1> HIDE DEF t
<1>3. CASE ip' = ip
  <2>1. PhaseOf' = PhaseOf
    BY <1>1 DEF PhaseOf
  <2> QED  BY <1>1, <1>3, <2>1, StutterSteps
<1>4. CASE signaled[NextSig(t)] /\ ip' = [ip EXCEPT ![t] = ip[t] + 1]
  BY <1>1, <1>2, <1>4, PassMaps
<1> QED  BY <1>1, <1>3, <1>4

(* Run's return: everything has ended and the exception is one of the      *)
(* frame's.                                                                *)
LEMMA ReturnMaps ==
  ASSUME IInv, RunFinish
  PROVE  Promise!Return
<1>1. /\ mpc = "finish" /\ mpc' = "returned"
      /\ UNCHANGED <<tasks, frame, ip, thrown, signaled>>
      /\ outcome' = IF exceptions = <<>> THEN Null ELSE Head(exceptions)
  BY DEF RunFinish, coroVars, signalVars
<1>2. PhaseOf = "run" /\ PhaseOf' = "returned"
  BY <1>1, PhaseFacts, PhaseFactsNext
<1>3. \A i \in DOMAIN tasks : tasks[i] \in EndedOf
  <2>1. ASSUME NEW i \in DOMAIN tasks PROVE tasks[i] \in Tasks /\ InSeq(tasks[i], tasks)
    <3>1. tasks \in Seq(Tasks)
      BY DEF IInv, FieldTypes
    <3>2. i \in 1..Len(tasks)
      BY <3>1, LenProperties
    <3>3. tasks[i] \in Tasks
      BY <3>1, <3>2, ElementOfSeq
    <3> QED  BY <3>3 DEF InSeq
  <2>2. ASSUME NEW i \in DOMAIN tasks PROVE frame[tasks[i]] = "finished" /\ tasks[i] \in Tasks
    BY <1>1, <2>1 DEF IInv, FrameInv, MainInv
  <2> QED  BY <2>2, MappedFacts
<1>4. \A t \in Tasks : InSeq(t, exceptions) => t \in ThrewOf
  BY MappedFacts DEF IInv, ExceptionInv
<1>5. \A t \in ThrewOf : InSeq(t, exceptions)
  <2>1. \A w \in Workers : wpc[w] # "collect"
    <3>1. \A t \in Tasks : frame[t] \in {"none", "created", "finished"}
      BY <1>1 DEF IInv, MainInv
    <3> QED  BY <3>1, QuietFacts DEF Holding
  <2> QED  BY <1>1, <2>1, MappedFacts DEF IInv, ExceptionInv
<1>6. IF ThrewOf = {} THEN outcome' = Null ELSE outcome' \in ThrewOf
  <2>1. CASE exceptions = <<>>
    BY <1>1, <1>5, <2>1, EmptyFacts
  <2>2. CASE exceptions # <<>>
    <3>1. exceptions \in Seq(Tasks)
      BY DEF IInv, FieldTypes
    <3>2. Head(exceptions) \in Tasks /\ InSeq(Head(exceptions), exceptions)
      BY <2>2, <3>1, MemberFacts
    <3> QED  BY <1>1, <1>4, <2>2, <3>2
  <2> QED  BY <2>1, <2>2
<1>7. PosOf' = PosOf /\ ThrewOf' = ThrewOf /\ EndedOf' = EndedOf /\ RaisedOf' = RaisedOf
  BY <1>1 DEF PosOf, ThrewOf, EndedOf, RaisedOf
<1> QED  BY <1>1, <1>2, <1>3, <1>6, <1>7 DEF Promise!Return

(* Run, of an empty frame or of a program.                                 *)
LEMMA RunMaps ==
  ASSUME IInv, Run
  PROVE  Promise!Run
<1>1. /\ mpc = "client" /\ UNCHANGED <<tasks, frame, ip, thrown, signaled>> /\ outcome' = Null
      /\ tasks = <<>> \/ tasks \in Programs
      /\ tasks = <<>> => mpc' = "returned"
      /\ tasks # <<>> => mpc' = "enqueue"
  BY DEF Run, coroVars, signalVars
<1>2. PhaseOf = "build" /\ PhaseOf' = IF tasks = <<>> THEN "returned" ELSE "run"
  BY <1>1, PhaseFacts, PhaseFactsNext DEF Scheduling
<1>3. PosOf' = PosOf /\ ThrewOf' = ThrewOf /\ EndedOf' = EndedOf /\ RaisedOf' = RaisedOf
  BY <1>1 DEF PosOf, ThrewOf, EndedOf, RaisedOf
<1> QED  BY <1>1, <1>2, <1>3 DEF Promise!Run

(* Add.                                                                    *)
LEMMA AddMaps ==
  ASSUME IInv, NEW t \in Tasks, Add(t)
  PROVE  Promise!Add(t)
<1>1. /\ mpc = "client" /\ UNCHANGED <<mpc, signaled, outcome>>
      /\ \E p \in Programs : Len(tasks) < Len(p) /\ Append(tasks, t) = SubSeq(p, 1, Len(tasks) + 1)
      /\ tasks' = Append(tasks, t)
      /\ frame' = [frame EXCEPT ![t] = "created"]
      /\ ip' = [ip EXCEPT ![t] = 1]
      /\ thrown' = [thrown EXCEPT ![t] = FALSE]
  BY DEF Add, signalVars, mainVars
<1>2. PhaseOf = "build" /\ PhaseOf' = PhaseOf
  BY <1>1, PhaseFacts, PhaseFactsNext
<1>3. frame[t] = "none"
  BY AddIsNew
<1>4. /\ ip \in [Tasks -> Nat \ {0}] /\ thrown \in [Tasks -> BOOLEAN] /\ frame \in [Tasks -> FrameState]
  BY DEF IInv, FieldTypes
<1>5. /\ frame'[t] = "created" /\ ip'[t] = 1
      /\ \A u \in Tasks : u # t => frame'[u] = frame[u] /\ ip'[u] = ip[u]
  BY <1>1, <1>4
<1>6. ~thrown'[t] /\ \A u \in Tasks : u # t => thrown'[u] = thrown[u]
  BY <1>1, <1>4, Zenon
<1>7. PosOf' = [PosOf EXCEPT ![t] = 1]
  BY <1>5 DEF PosOf
<1>8. EndedOf' = EndedOf /\ RaisedOf' = RaisedOf
  BY <1>1, <1>3, <1>5 DEF EndedOf, RaisedOf
<1>9. ThrewOf' = ThrewOf
  <2>1. \A u \in Tasks : (frame'[u] # "none" /\ thrown'[u]) <=> (frame[u] # "none" /\ thrown[u])
    BY <1>3, <1>5, <1>6
  <2> QED  BY <2>1 DEF ThrewOf
<1> QED  BY <1>1, <1>2, <1>7, <1>8, <1>9 DEF Promise!Add

(* Reset and ~Graph forget the frame.                                      *)
LEMMA ClearMaps ==
  ASSUME IInv, Reset \/ Destroy
  PROVE  Promise!Reset \/ Promise!Destroy
<1>1. /\ mpc \in {"client", "returned"} /\ UNCHANGED <<ip, thrown, outcome>> /\ tasks' = <<>>
      /\ frame' = [t \in Tasks |-> IF InSeq(t, tasks) THEN "none" ELSE frame[t]]
      /\ \/ signaled' = [s \in Signals |-> FALSE] /\ mpc' = "client"
         \/ signaled' = signaled /\ mpc' = "dtor"
  BY DEF Reset, Destroy, signalVars
<1>2. PhaseOf \in {"build", "returned"}
  BY <1>1, PhaseFacts
<1>3. \A t \in Tasks : frame'[t] = "none" /\ frame[t] \in {"none", "created", "finished"}
  <2>1. \A t \in Tasks : frame'[t] = "none"
    BY <1>1 DEF IInv, FrameInv
  <2>2. \A t \in Tasks : frame[t] \in {"none", "created", "finished"}
    BY <1>1 DEF IInv, MainInv
  <2> QED  BY <2>1, <2>2
<1>4. PosOf' = PosOf /\ ThrewOf' = {} /\ EndedOf' = {}
  BY <1>1, <1>3 DEF PosOf, ThrewOf, EndedOf
<1>5. CASE signaled' = [s \in Signals |-> FALSE] /\ mpc' = "client"
  <2>1. RaisedOf' = {}
    BY <1>5 DEF RaisedOf
  <2>2. PhaseOf' = "build"
    BY <1>5, PhaseFactsNext
  <2> QED  BY <1>1, <1>2, <1>4, <2>1, <2>2 DEF Promise!Reset, Promise!Clear
<1>6. CASE signaled' = signaled /\ mpc' = "dtor"
  <2>1. RaisedOf' = RaisedOf
    BY <1>6 DEF RaisedOf
  <2>2. PhaseOf' = "destroyed"
    BY <1>6, PhaseFactsNext DEF Dead
  <2> QED  BY <1>1, <1>2, <1>4, <2>1, <2>2 DEF Promise!Destroy, Promise!Clear
<1> QED  BY <1>1, <1>5, <1>6

(* The steps the client cannot see.                                        *)
LEMMA HandOnMaps ==
  ASSUME IInv,
         \/ \E w \in Workers : TakeJob(w) \/ StealWaiters(w) \/ RequeueSelf(w) \/ DecrementPending(w)
         \/ RunEnqueue
  PROVE  UNCHANGED Promise!vars
<1>1. UNCHANGED <<tasks, outcome, ip, thrown, signaled>>
  BY DEF TakeJob, StealWaiters, RequeueSelf, DecrementPending, RunEnqueue, signalVars, graphVars, mainVars
<1>2. PhaseOf' = PhaseOf
  <2>1. CASE mpc' = mpc
    BY <2>1 DEF PhaseOf
  <2>2. CASE RunEnqueue
    BY <2>2, PhaseFacts, PhaseFactsNext DEF RunEnqueue, Scheduling
  <2> QED
    BY <2>1, <2>2 DEF TakeJob, StealWaiters, RequeueSelf, DecrementPending, mainVars
<1>3. frame \in [Tasks -> FrameState]
  BY DEF IInv, FieldTypes
<1> DEFINE Quiet(u) ==
      /\ frame[u] \in {"waiting", "stolen"} <=> frame'[u] \in {"waiting", "stolen"}
      /\ frame[u] \in {"final", "finished"} <=> frame'[u] \in {"final", "finished"}
      /\ frame[u] # "none" /\ frame'[u] # "none"
<1>4. ASSUME NEW w \in Workers, TakeJob(w) PROVE \A u \in Tasks : frame'[u] # frame[u] => Quiet(u)
  <2>1. queue # <<>> /\ queue \in Seq(Tasks)
    BY <1>4 DEF TakeJob, IInv, FieldTypes
  <2>2. Head(queue) \in Tasks /\ frame[Head(queue)] = "queued"
    BY <2>1, MemberFacts DEF IInv, QueueInv
  <2> QED  BY <1>3, <1>4, <2>2 DEF TakeJob
<1>5. ASSUME NEW w \in Workers, StealWaiters(w) PROVE \A u \in Tasks : frame'[u] # frame[u] => Quiet(u)
  <2>1. raising[w] \in Signals
    BY DEF IInv, FieldTypes
  <2>2. \A u \in Tasks : InSeq(u, waiters[raising[w]]) => frame[u] = "waiting"
    BY <2>1 DEF IInv, WaiterInv
  <2>3. \A u \in Tasks : frame'[u] = IF InSeq(u, waiters[raising[w]]) THEN "stolen" ELSE frame[u]
    BY <1>5 DEF StealWaiters
  <2> QED  BY <2>2, <2>3
<1>6. ASSUME NEW w \in Workers, RequeueSelf(w) PROVE \A u \in Tasks : frame'[u] # frame[u] => Quiet(u)
  BY <1>3, <1>6, HolderFacts DEF RequeueSelf, Holding
<1>7. ASSUME NEW w \in Workers, DecrementPending(w) PROVE \A u \in Tasks : frame'[u] # frame[u] => Quiet(u)
  <2>1. job[w] \in Tasks /\ frame[job[w]] = "final"
    BY <1>7 DEF DecrementPending, IInv, HoldInv, Holding
  <2> QED  BY <1>3, <1>7, <2>1 DEF DecrementPending
<1>8. ASSUME RunEnqueue PROVE \A u \in Tasks : frame'[u] # frame[u] => Quiet(u)
  <2>1. tasks \in Seq(Tasks) /\ mpc = "enqueue" /\ nextTask <= Len(tasks) /\ nextTask \in Nat \ {0}
    BY <1>8 DEF RunEnqueue, IInv, FieldTypes
  <2>2. nextTask \in DOMAIN tasks /\ nextTask \in 1..Len(tasks)
    BY <2>1, LenProperties
  <2>3. tasks[nextTask] \in Tasks /\ frame[tasks[nextTask]] = "created"
    BY <2>1, <2>2, ElementOfSeq DEF IInv, MainInv, Scheduling
  <2> QED  BY <1>3, <1>8, <2>3 DEF RunEnqueue
<1>9. \A u \in Tasks : frame'[u] # frame[u] => Quiet(u)
  BY <1>4, <1>5, <1>6, <1>7, <1>8
<1> QED  BY <1>1, <1>2, <1>9, StutterSteps

(* Blocking, waking, notifying and shutting down.                          *)
LEMMA SilentMaps ==
  ASSUME IInv,
         \/ \E w \in Workers : \/ Sleep(w) \/ Exit(w) \/ SpuriousWake(w) \/ Poke(w) \/ PokeSelf(w)
                               \/ Raised(w) \/ CollectException(w) \/ NotifyDone(w) \/ LeaveCallback(w)
         \/ RunPoke \/ RunCheck \/ RunSleep \/ RunSpuriousWake \/ DtorStep \/ UNCHANGED vars
  PROVE  UNCHANGED Promise!vars
<1>1. UNCHANGED <<tasks, outcome, frame, ip, thrown, signaled>>
  BY DEF Sleep, Exit, SpuriousWake, Poke, PokeSelf, Raised, CollectException, NotifyDone, LeaveCallback,
         RunPoke, RunCheck, RunSleep, RunSpuriousWake, DtorStep, Shutdown, WakeAll, Join,
         vars, signalVars, coroVars, graphVars, mainVars
<1>2. \/ mpc' = mpc
      \/ mpc \in Scheduling /\ mpc' \in Scheduling \cup {"finish"}
      \/ mpc \in Dead /\ mpc' \in Dead
  BY DEF Sleep, Exit, SpuriousWake, Poke, PokeSelf, Raised, CollectException, NotifyDone, LeaveCallback,
         RunPoke, RunCheck, RunSleep, RunSpuriousWake, DtorStep, Shutdown, WakeAll, Join,
         vars, mainVars, Scheduling, Dead
<1>3. PhaseOf' = PhaseOf
  <2>1. CASE mpc' = mpc
    BY <2>1 DEF PhaseOf
  <2>2. CASE mpc' # mpc
    BY <1>2, <2>2, PhaseFacts, PhaseFactsNext
  <2> QED  BY <2>1, <2>2
<1> QED  BY <1>1, <1>3, StutterSteps

(* Every step of the graph is a step of the promise, or none.              *)
LEMMA NextMaps == IInv /\ DependencyInv /\ [Next]_vars => [Promise!Next]_(Promise!vars)
<1> SUFFICES ASSUME IInv, DependencyInv, [Next]_vars
             PROVE  Promise!Next \/ UNCHANGED Promise!vars
  OBVIOUS
<1>1. ASSUME NEW w \in Workers, WorkerAwait(w) \/ WakeWaiter(w) \/ Complete(w)
      PROVE  (\E t \in Tasks : Promise!Step(t)) \/ UNCHANGED Promise!vars
  BY <1>1, WaitReadyMaps, AddWaiterMaps, SignalMaps, ThrowMaps, WakeMaps, CompleteMaps
     DEF WorkerAwait, Promise!Step
<1>2. ASSUME NEW t \in Tasks, Add(t)
      PROVE  \E u \in Tasks : Promise!Step(u)
  BY <1>2, AddMaps DEF Promise!Step
<1>3. CASE \E w \in Workers : Worker(w) \/ SpuriousWake(w)
  BY <1>1, <1>3, HandOnMaps, SilentMaps
     DEF Worker, WorkerLoop, WorkerAwait, WorkerRaise, WorkerFinal, Promise!Next
<1>4. CASE RunStep \/ RunSpuriousWake \/ DtorStep \/ Gone \/ UNCHANGED vars
  BY <1>4, ReturnMaps, HandOnMaps, SilentMaps DEF RunStep, Gone, Promise!Next
<1>5. CASE Client
  BY <1>2, <1>5, RunMaps, ClearMaps DEF Client, Promise!Next
<1> QED  BY <1>3, <1>4, <1>5 DEF Next

(* The threaded graph keeps the promise TaskOrder makes to its client, for *)
(* any workers, tasks, signals and programs: a worker's step is one step   *)
(* of the promised run, or invisible to the client.                        *)
THEOREM ImplementsTaskOrder == Spec => KeepsPromise
<1>1. Init => Promise!Init
  BY InitMaps
<1>2. IInv /\ DependencyInv /\ [Next]_vars => [Promise!Next]_(Promise!vars)
  BY NextMaps
<1> QED  BY <1>1, <1>2, Invariance, DependencyInvariance, PTL DEF Spec, KeepsPromise, Promise!Spec

=============================================================================
