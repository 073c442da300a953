------------------------------ MODULE TaskGraph ------------------------------
(***************************************************************************)
(* The coroutine task graph of src/include/pr/common/task_graph.h.         *)
(*                                                                         *)
(* A client thread (Main) adds tasks to a Graph, calls Run, which blocks   *)
(* until the pending count is zero, and then Reset, once per frame.  The   *)
(* threads of the WorkerPool resume coroutine handles taken from a FIFO    *)
(* queue.  A task suspends in co_await ctx.Wait(id), continues others with *)
(* co_await ctx.Signal(id), and raises its own id when it ends.            *)
(*                                                                         *)
(* A coroutine is abstracted to its script: the sequence of its co_await   *)
(* expressions and throws.  One action is one access to shared state, or   *)
(* one critical section of a mutex that nothing inside can block.          *)
(***************************************************************************)
EXTENDS Integers, Sequences, FiniteSets

CONSTANTS
  Workers,      \* threads of the pool
  Tasks,        \* names of the coroutines a client may add
  Signals,      \* the values of TaskId
  IdOf,         \* IdOf[t]: the TaskId a task is added with
  Script,       \* Script[t]: the awaits and throws of the task's body
  Programs,     \* the task lists the client may run
  Null          \* "no handle", "no exception"

Op == [op : {"wait", "signal", "throw"}, sig : Signals]

ASSUME WorkersAssumption == IsFiniteSet(Workers) /\ Workers # {}
ASSUME TasksAssumption == Null \notin Tasks
ASSUME SignalsAssumption == Signals # {}
ASSUME IdOfAssumption == IdOf \in [Tasks -> Signals]
ASSUME ScriptAssumption == Script \in [Tasks -> Seq(Op)]
ASSUME ProgramsAssumption ==
  /\ Programs \subseteq Seq(Tasks)
  /\ \A p \in Programs : \A i, j \in 1..Len(p) : p[i] = p[j] => i = j

VARIABLES
  queue,        \* WorkerPool::m_queue
  shutdown,     \* WorkerPool::m_shutdown
  wpc,          \* where each worker is in its loop or in the code it resumed
  job,          \* the handle a worker resumed
  raising,      \* the signal a worker is raising
  stolen,       \* the waiter list a worker took in SignalState::Raise
  signaled,     \* SignalState::m_signaled
  waiters,      \* SignalState::m_waiters, head first
  tasks,        \* Graph::m_tasks
  frame,        \* the life of each task's coroutine frame
  ip,           \* resume point: index of the next element of the script
  thrown,       \* promise_type::m_exception is set
  pending,      \* Graph::m_pending
  exceptions,   \* Graph::m_exceptions, by the task that threw
  mpc,          \* where Main is in Graph's members
  nextTask,     \* the element of m_tasks Run enqueues next
  outcome       \* how the last Run ended: Null, or the task it rethrew

poolVars   == <<queue, shutdown>>
workerVars == <<wpc, job, raising, stolen>>
signalVars == <<signaled, waiters>>
coroVars   == <<frame, ip, thrown>>
graphVars  == <<tasks, pending, exceptions>>
mainVars   == <<mpc, nextTask, outcome>>
vars == <<poolVars, workerVars, signalVars, coroVars, graphVars, mainVars>>

WorkerPC ==
  {"idle",      \* at the top of the worker loop
   "asleep",    \* blocked in m_cv_work.wait
   "run",       \* executing the coroutine's body
   "add",       \* Wait: await_ready was false, AddWaiter comes next
   "collect",   \* final await, storing the exception comes next
   "steal",     \* Raise: flag set, waiter list not yet taken
   "wake",      \* Raise: enqueueing the taken waiters
   "poke",      \* Enqueue of a waiter: pushed, notify_one comes next
   "pokeSelf",  \* Enqueue of its own job: pushed, notify_one comes next
   "dec",       \* final await, DecrementPending comes next
   "notify",    \* DecrementPending: was last, lock and notify comes next
   "leave",     \* the completion callback is returning
   "exit"}      \* the thread has ended

MainPC ==
  {"client",    \* between calls: building the graph
   "enqueue",   \* Run: scheduling the tasks
   "poke",      \* Run: a task is pushed, notify_one comes next
   "check",     \* Run: about to evaluate the wait predicate under m_mutex
   "sleep",     \* Run: predicate was false, holds m_mutex, not yet waiting
   "asleep",    \* Run: blocked in m_cv_done.wait
   "finish",    \* Run: predicate was true, m_exceptions comes next
   "returned",  \* Run has returned or thrown
   "dtor",      \* ~Graph: m_exceptions .. m_signals destroyed
   "wakeAll",   \* ~WorkerPool: m_shutdown set, notify_all comes next
   "join",      \* ~WorkerPool: joining the threads
   "gone"}      \* the graph is destroyed

(* The life of a coroutine frame; "created" to "final" hold a handle that  *)
(* is still to be resumed or whose completion callback still counts.       *)
FrameState ==
  {"none",      \* not created, or destroyed
   "created",   \* suspended in initial_suspend, not scheduled
   "queued",    \* its handle is in the pool's queue
   "running",   \* a worker executes it or one of its awaiters
   "waiting",   \* its handle is in the waiter list of a signal
   "stolen",    \* its handle is in a list taken by Raise
   "final",     \* at final_suspend, the completion callback is raising
   "finished"}  \* counted out by DecrementPending

NoDup(s) == \A i, j \in DOMAIN s : s[i] = s[j] => i = j

InSeq(x, s) == \E i \in DOMAIN s : s[i] = x

AtEnd(t) == thrown[t] \/ ip[t] > Len(Script[t])

NextOpIs(t, kind) == ~AtEnd(t) /\ Script[t][ip[t]].op = kind

NextSig(t) == Script[t][ip[t]].sig

-----------------------------------------------------------------------------
Init ==
  /\ queue = <<>>
  /\ shutdown = FALSE
  /\ wpc = [w \in Workers |-> "idle"]
  /\ job = [w \in Workers |-> Null]
  /\ raising = [w \in Workers |-> CHOOSE s \in Signals : TRUE]
  /\ stolen = [w \in Workers |-> <<>>]
  /\ signaled = [s \in Signals |-> FALSE]
  /\ waiters = [s \in Signals |-> <<>>]
  /\ tasks = <<>>
  /\ frame = [t \in Tasks |-> "none"]
  /\ ip = [t \in Tasks |-> 1]
  /\ thrown = [t \in Tasks |-> FALSE]
  /\ pending = 0
  /\ exceptions = <<>>
  /\ mpc = "client"
  /\ nextTask = 1
  /\ outcome = Null

-----------------------------------------------------------------------------
(* The worker loop *)

(* The thread's new position, and m_cv_work.notify_one: one sleeping       *)
(* worker, if there is any, is moved back to the top of its loop.          *)
NotifyOne(pcs) ==
  \/ /\ \A v \in Workers : pcs[v] # "asleep"
     /\ wpc' = pcs
  \/ \E v \in Workers :
       /\ pcs[v] = "asleep"
       /\ wpc' = [pcs EXCEPT ![v] = "idle"]

(* The predicate holds: take the front handle and resume it.               *)
TakeJob(w) ==
  /\ wpc[w] = "idle"
  /\ queue # <<>>
  /\ job' = [job EXCEPT ![w] = Head(queue)]
  /\ frame' = [frame EXCEPT ![Head(queue)] = "running"]
  /\ queue' = Tail(queue)
  /\ wpc' = [wpc EXCEPT ![w] = "run"]
  /\ UNCHANGED <<shutdown, raising, stolen, signalVars, ip, thrown, graphVars, mainVars>>

(* The predicate is false: block, atomically with the release of m_mutex.  *)
Sleep(w) ==
  /\ wpc[w] = "idle"
  /\ queue = <<>>
  /\ ~shutdown
  /\ wpc' = [wpc EXCEPT ![w] = "asleep"]
  /\ UNCHANGED <<poolVars, job, raising, stolen, signalVars, coroVars, graphVars, mainVars>>

Exit(w) ==
  /\ wpc[w] = "idle"
  /\ queue = <<>>
  /\ shutdown
  /\ wpc' = [wpc EXCEPT ![w] = "exit"]
  /\ UNCHANGED <<poolVars, job, raising, stolen, signalVars, coroVars, graphVars, mainVars>>

(* A condition variable may wake without a notification.                   *)
SpuriousWake(w) ==
  /\ wpc[w] = "asleep"
  /\ wpc' = [wpc EXCEPT ![w] = "idle"]
  /\ UNCHANGED <<poolVars, job, raising, stolen, signalVars, coroVars, graphVars, mainVars>>

-----------------------------------------------------------------------------
(* co_await ctx.Wait(id) *)

(* await_ready: an unlocked read of the flag.  If it is set the coroutine  *)
(* goes on without suspending.                                             *)
WaitReady(w) ==
  /\ wpc[w] = "run"
  /\ NextOpIs(job[w], "wait")
  /\ IF signaled[NextSig(job[w])]
       THEN /\ ip' = [ip EXCEPT ![job[w]] = @ + 1]
            /\ wpc' = wpc
       ELSE /\ ip' = ip
            /\ wpc' = [wpc EXCEPT ![w] = "add"]
  /\ UNCHANGED <<poolVars, job, raising, stolen, signalVars, frame, thrown, graphVars, mainVars>>

(* Mutant: await_suspend tells the coroutine to go on although it has been *)
(* added.                                                                  *)
AddWaiterContinues(w) ==
  LET t == job[w]
      s == NextSig(t)
  IN /\ wpc[w] = "add"
     /\ ip' = [ip EXCEPT ![t] = @ + 1]
     /\ wpc' = [wpc EXCEPT ![w] = "run"]
     /\ waiters' = IF signaled[s] THEN waiters ELSE [waiters EXCEPT ![s] = <<t>> \o @]
     /\ UNCHANGED <<poolVars, job, raising, stolen, signaled, frame, thrown, graphVars, mainVars>>

(* Mutant: AddWaiter trusts await_ready and does not look again.           *)
AddWaiterNoRecheck(w) ==
  LET t == job[w]
  IN /\ wpc[w] = "add"
     /\ ip' = [ip EXCEPT ![t] = @ + 1]
     /\ waiters' = [waiters EXCEPT ![NextSig(t)] = <<t>> \o @]
     /\ frame' = [frame EXCEPT ![t] = "waiting"]
     /\ wpc' = [wpc EXCEPT ![w] = "idle"]
     /\ UNCHANGED <<poolVars, job, raising, stolen, signaled, thrown, graphVars, mainVars>>

(* await_suspend: the second look at the flag, under the signal's mutex.   *)
(* A waiter that is added gives up its worker.                             *)
AddWaiter(w) ==
  LET t == job[w]
      s == NextSig(t)
  IN /\ wpc[w] = "add"
     /\ ip' = [ip EXCEPT ![t] = @ + 1]
     /\ IF signaled[s]
          THEN /\ wpc' = [wpc EXCEPT ![w] = "run"]
               /\ UNCHANGED <<waiters, frame>>
          ELSE /\ waiters' = [waiters EXCEPT ![s] = <<t>> \o @]
               /\ frame' = [frame EXCEPT ![t] = "waiting"]
               /\ wpc' = [wpc EXCEPT ![w] = "idle"]
     /\ UNCHANGED <<poolVars, job, raising, stolen, signaled, thrown, graphVars, mainVars>>

-----------------------------------------------------------------------------
(* SignalState::Raise, from co_await ctx.Signal(id) and from the           *)
(* completion callback                                                     *)

(* Mid-task: the flag is stored before the list is taken.                  *)
Signal(w) ==
  LET t == job[w]
  IN /\ wpc[w] = "run"
     /\ NextOpIs(t, "signal")
     /\ signaled' = [signaled EXCEPT ![NextSig(t)] = TRUE]
     /\ raising' = [raising EXCEPT ![w] = NextSig(t)]
     /\ ip' = [ip EXCEPT ![t] = @ + 1]
     /\ wpc' = [wpc EXCEPT ![w] = "steal"]
     /\ UNCHANGED <<poolVars, job, stolen, waiters, frame, thrown, graphVars, mainVars>>

(* The body throws: unhandled_exception captures, final_suspend follows.   *)
Throw(w) ==
  /\ wpc[w] = "run"
  /\ NextOpIs(job[w], "throw")
  /\ thrown' = [thrown EXCEPT ![job[w]] = TRUE]
  /\ wpc' = [wpc EXCEPT ![w] = "collect"]
  /\ UNCHANGED <<poolVars, job, raising, stolen, signalVars, frame, ip, graphVars, mainVars>>

(* Mutant: the exception is captured and never handed to the graph.        *)
DropException(w) ==
  /\ wpc[w] = "collect"
  /\ mpc # "sleep"
  /\ wpc' = [wpc EXCEPT ![w] = "run"]
  /\ UNCHANGED <<poolVars, job, raising, stolen, signalVars, coroVars, graphVars, mainVars>>

(* m_on_complete, first part: push_back under Graph::m_mutex, which Main   *)
(* holds between its predicate and its wait.                               *)
CollectException(w) ==
  /\ wpc[w] = "collect"
  /\ mpc # "sleep"
  /\ exceptions' = Append(exceptions, job[w])
  /\ wpc' = [wpc EXCEPT ![w] = "run"]
  /\ UNCHANGED <<poolVars, job, raising, stolen, signalVars, coroVars, tasks, pending, mainVars>>

(* m_on_complete, second part: raise the id the task was added with.       *)
Complete(w) ==
  LET t == job[w]
  IN /\ wpc[w] = "run"
     /\ AtEnd(t)
     /\ signaled' = [signaled EXCEPT ![IdOf[t]] = TRUE]
     /\ raising' = [raising EXCEPT ![w] = IdOf[t]]
     /\ frame' = [frame EXCEPT ![t] = "final"]
     /\ wpc' = [wpc EXCEPT ![w] = "steal"]
     /\ UNCHANGED <<poolVars, job, stolen, waiters, ip, thrown, graphVars, mainVars>>

(* Take the whole waiter list under the signal's mutex.                    *)
StealWaiters(w) ==
  LET s == raising[w]
  IN /\ wpc[w] = "steal"
     /\ stolen' = [stolen EXCEPT ![w] = waiters[s]]
     /\ waiters' = [waiters EXCEPT ![s] = <<>>]
     /\ frame' = [t \in Tasks |-> IF InSeq(t, waiters[s]) THEN "stolen" ELSE frame[t]]
     /\ wpc' = [wpc EXCEPT ![w] = "wake"]
     /\ UNCHANGED <<poolVars, job, raising, signaled, ip, thrown, graphVars, mainVars>>

(* Mutant: only the head of the taken list is enqueued.                    *)
WakeFirstOnly(w) ==
  LET t == Head(stolen[w])
  IN /\ wpc[w] = "wake"
     /\ stolen[w] # <<>>
     /\ queue' = Append(queue, t)
     /\ frame' = [frame EXCEPT ![t] = "queued"]
     /\ stolen' = [stolen EXCEPT ![w] = <<>>]
     /\ wpc' = [wpc EXCEPT ![w] = "poke"]
     /\ UNCHANGED <<shutdown, job, raising, signalVars, ip, thrown, graphVars, mainVars>>

(* pool.Enqueue of the next taken waiter.                                  *)
WakeWaiter(w) ==
  LET t == Head(stolen[w])
  IN /\ wpc[w] = "wake"
     /\ stolen[w] # <<>>
     /\ queue' = Append(queue, t)
     /\ frame' = [frame EXCEPT ![t] = "queued"]
     /\ stolen' = [stolen EXCEPT ![w] = Tail(@)]
     /\ wpc' = [wpc EXCEPT ![w] = "poke"]
     /\ UNCHANGED <<shutdown, job, raising, signalVars, ip, thrown, graphVars, mainVars>>

Poke(w) ==
  /\ wpc[w] = "poke"
  /\ NotifyOne([wpc EXCEPT ![w] = "wake"])
  /\ UNCHANGED <<poolVars, job, raising, stolen, signalVars, coroVars, graphVars, mainVars>>

(* SignalAwaiter: the signalling task goes to the back of the queue; from  *)
(* here on another worker may resume it.                                   *)
RequeueSelf(w) ==
  LET t == job[w]
  IN /\ wpc[w] = "wake"
     /\ stolen[w] = <<>>
     /\ frame[t] = "running"
     /\ queue' = Append(queue, t)
     /\ frame' = [frame EXCEPT ![t] = "queued"]
     /\ wpc' = [wpc EXCEPT ![w] = "pokeSelf"]
     /\ UNCHANGED <<shutdown, job, raising, stolen, signalVars, ip, thrown, graphVars, mainVars>>

PokeSelf(w) ==
  /\ wpc[w] = "pokeSelf"
  /\ NotifyOne([wpc EXCEPT ![w] = "idle"])
  /\ UNCHANGED <<poolVars, job, raising, stolen, signalVars, coroVars, graphVars, mainVars>>

(* Raise has returned to the completion callback.                          *)
Raised(w) ==
  /\ wpc[w] = "wake"
  /\ stolen[w] = <<>>
  /\ frame[job[w]] = "final"
  /\ wpc' = [wpc EXCEPT ![w] = "dec"]
  /\ UNCHANGED <<poolVars, job, raising, stolen, signalVars, coroVars, graphVars, mainVars>>

-----------------------------------------------------------------------------
(* Graph::DecrementPending *)

DecrementPending(w) ==
  /\ wpc[w] = "dec"
  /\ pending' = pending - 1
  /\ frame' = [frame EXCEPT ![job[w]] = "finished"]
  /\ wpc' = [wpc EXCEPT ![w] = IF pending = 1 THEN "notify" ELSE "leave"]
  /\ UNCHANGED <<poolVars, job, raising, stolen, signalVars, ip, thrown, tasks, exceptions, mainVars>>

(* Mutant: notify_all without the lock.                                    *)
NotifyDoneUnlocked(w) ==
  /\ wpc[w] = "notify"
  /\ mpc' = IF mpc = "asleep" THEN "check" ELSE mpc
  /\ wpc' = [wpc EXCEPT ![w] = "leave"]
  /\ UNCHANGED <<poolVars, job, raising, stolen, signalVars, coroVars, graphVars, nextTask, outcome>>

(* Lock m_mutex, which Main holds in "sleep", and m_cv_done.notify_all.    *)
NotifyDone(w) ==
  /\ wpc[w] = "notify"
  /\ mpc # "sleep"
  /\ mpc' = IF mpc = "asleep" THEN "check" ELSE mpc
  /\ wpc' = [wpc EXCEPT ![w] = "leave"]
  /\ UNCHANGED <<poolVars, job, raising, stolen, signalVars, coroVars, graphVars, nextTask, outcome>>

(* The callback, await_suspend and resume return to the worker loop.       *)
LeaveCallback(w) ==
  /\ wpc[w] = "leave"
  /\ wpc' = [wpc EXCEPT ![w] = "idle"]
  /\ UNCHANGED <<poolVars, job, raising, stolen, signalVars, coroVars, graphVars, mainVars>>

-----------------------------------------------------------------------------
(* Graph, on Main *)

(* Add creates the coroutine, suspended at its start.  The client builds   *)
(* one of Programs, in its order.                                          *)
Add(t) ==
  /\ mpc = "client"
  /\ \E p \in Programs :
       /\ Len(tasks) < Len(p)
       /\ Append(tasks, t) = SubSeq(p, 1, Len(tasks) + 1)
  /\ tasks' = Append(tasks, t)
  /\ frame' = [frame EXCEPT ![t] = "created"]
  /\ ip' = [ip EXCEPT ![t] = 1]
  /\ thrown' = [thrown EXCEPT ![t] = FALSE]
  /\ UNCHANGED <<poolVars, workerVars, signalVars, pending, exceptions, mainVars>>

(* Mutant: one task too few is counted.                                    *)
RunOffByOne ==
  /\ mpc = "client"
  /\ tasks \in Programs
  /\ pending' = Len(tasks) - 1
  /\ nextTask' = 1
  /\ mpc' = "enqueue"
  /\ outcome' = Null
  /\ UNCHANGED <<poolVars, workerVars, signalVars, coroVars, tasks, exceptions>>

Run ==
  /\ mpc = "client"
  /\ tasks = <<>> \/ tasks \in Programs
  /\ IF tasks = <<>>
       THEN /\ mpc' = "returned"
            /\ UNCHANGED <<pending, nextTask>>
       ELSE /\ pending' = Len(tasks)
            /\ nextTask' = 1
            /\ mpc' = "enqueue"
  /\ outcome' = Null
  /\ UNCHANGED <<poolVars, workerVars, signalVars, coroVars, tasks, exceptions>>

RunEnqueue ==
  LET t == tasks[nextTask]
  IN /\ mpc = "enqueue"
     /\ nextTask <= Len(tasks)
     /\ queue' = Append(queue, t)
     /\ frame' = [frame EXCEPT ![t] = "queued"]
     /\ nextTask' = nextTask + 1
     /\ mpc' = "poke"
     /\ UNCHANGED <<shutdown, workerVars, signalVars, ip, thrown, graphVars, outcome>>

RunPoke ==
  /\ mpc = "poke"
  /\ NotifyOne(wpc)
  /\ mpc' = IF nextTask <= Len(tasks) THEN "enqueue" ELSE "check"
  /\ UNCHANGED <<poolVars, job, raising, stolen, signalVars, coroVars, graphVars, nextTask, outcome>>

(* The predicate of m_cv_done.wait, with m_mutex held.  m_pending changes  *)
(* without the mutex, so the wait itself is another step.                  *)
RunCheck ==
  /\ mpc = "check"
  /\ mpc' = IF pending = 0 THEN "finish" ELSE "sleep"
  /\ UNCHANGED <<poolVars, workerVars, signalVars, coroVars, graphVars, nextTask, outcome>>

RunSleep ==
  /\ mpc = "sleep"
  /\ mpc' = "asleep"
  /\ UNCHANGED <<poolVars, workerVars, signalVars, coroVars, graphVars, nextTask, outcome>>

RunSpuriousWake ==
  /\ mpc = "asleep"
  /\ mpc' = "check"
  /\ UNCHANGED <<poolVars, workerVars, signalVars, coroVars, graphVars, nextTask, outcome>>

(* Rethrow the first exception, or return.                                 *)
RunFinish ==
  /\ mpc = "finish"
  /\ outcome' = IF exceptions = <<>> THEN Null ELSE Head(exceptions)
  /\ exceptions' = <<>>
  /\ mpc' = "returned"
  /\ UNCHANGED <<poolVars, workerVars, signalVars, coroVars, tasks, pending, nextTask>>

(* Mutant: the signals stay raised for the next frame.                     *)
ResetKeepsSignals ==
  /\ mpc = "returned" \/ (mpc = "client" /\ tasks # <<>>)
  /\ tasks' = <<>>
  /\ frame' = [t \in Tasks |-> IF InSeq(t, tasks) THEN "none" ELSE frame[t]]
  /\ pending' = 0
  /\ exceptions' = <<>>
  /\ mpc' = "client"
  /\ UNCHANGED <<poolVars, workerVars, signalVars, ip, thrown, nextTask, outcome>>

(* Destroy the coroutines, reset every signal and the counters.            *)
Reset ==
  /\ mpc = "returned" \/ (mpc = "client" /\ tasks # <<>>)
  /\ tasks' = <<>>
  /\ frame' = [t \in Tasks |-> IF InSeq(t, tasks) THEN "none" ELSE frame[t]]
  /\ signaled' = [s \in Signals |-> FALSE]
  /\ waiters' = [s \in Signals |-> <<>>]
  /\ pending' = 0
  /\ exceptions' = <<>>
  /\ mpc' = "client"
  /\ UNCHANGED <<poolVars, workerVars, ip, thrown, nextTask, outcome>>

(* ~Graph destroys its members in reverse order: m_exceptions, m_cv_done,  *)
(* m_mutex, m_pending, m_tasks and m_signals before m_pool.                *)
Destroy ==
  /\ mpc \in {"client", "returned"}
  /\ tasks' = <<>>
  /\ frame' = [t \in Tasks |-> IF InSeq(t, tasks) THEN "none" ELSE frame[t]]
  /\ exceptions' = <<>>
  /\ mpc' = "dtor"
  /\ UNCHANGED <<poolVars, workerVars, signalVars, ip, thrown, pending, nextTask, outcome>>

Shutdown ==
  /\ mpc = "dtor"
  /\ shutdown' = TRUE
  /\ mpc' = "wakeAll"
  /\ UNCHANGED <<queue, workerVars, signalVars, coroVars, graphVars, nextTask, outcome>>

(* Mutant: notify_one.                                                     *)
WakeOne ==
  /\ mpc = "wakeAll"
  /\ NotifyOne(wpc)
  /\ mpc' = "join"
  /\ UNCHANGED <<poolVars, job, raising, stolen, signalVars, coroVars, graphVars, nextTask, outcome>>

WakeAll ==
  /\ mpc = "wakeAll"
  /\ wpc' = [w \in Workers |-> IF wpc[w] = "asleep" THEN "idle" ELSE wpc[w]]
  /\ mpc' = "join"
  /\ UNCHANGED <<poolVars, job, raising, stolen, signalVars, coroVars, graphVars, nextTask, outcome>>

Join ==
  /\ mpc = "join"
  /\ \A w \in Workers : wpc[w] = "exit"
  /\ mpc' = "gone"
  /\ UNCHANGED <<poolVars, workerVars, signalVars, coroVars, graphVars, nextTask, outcome>>

(* Nothing is left to do: not a deadlock.                                  *)
Gone == mpc = "gone" /\ UNCHANGED vars

-----------------------------------------------------------------------------
WorkerLoop(w) == TakeJob(w) \/ Sleep(w) \/ Exit(w)

WorkerAwait(w) == WaitReady(w) \/ AddWaiter(w) \/ Signal(w) \/ Throw(w)

WorkerRaise(w) ==
  \/ StealWaiters(w) \/ WakeWaiter(w) \/ Poke(w)
  \/ RequeueSelf(w) \/ PokeSelf(w) \/ Raised(w)

WorkerFinal(w) ==
  \/ CollectException(w) \/ Complete(w)
  \/ DecrementPending(w) \/ NotifyDone(w) \/ LeaveCallback(w)

Worker(w) == WorkerLoop(w) \/ WorkerAwait(w) \/ WorkerRaise(w) \/ WorkerFinal(w)

RunStep == RunEnqueue \/ RunPoke \/ RunCheck \/ RunSleep \/ RunFinish

DtorStep == Shutdown \/ WakeAll \/ Join

Client == (\E t \in Tasks : Add(t)) \/ Run \/ Reset \/ Destroy

Next ==
  \/ \E w \in Workers : Worker(w) \/ SpuriousWake(w)
  \/ RunStep \/ RunSpuriousWake \/ DtorStep \/ Client \/ Gone

Spec == Init /\ [][Next]_vars

(* Every thread is scheduled by the system, and a worker that blocks on    *)
(* m_mutex gets it in the end even if Main keeps waking spuriously and     *)
(* taking it; the client decides freely whether it adds, runs, resets or   *)
(* destroys.                                                               *)
Fairness ==
  /\ \A w \in Workers : WF_vars(Worker(w))
  /\ \A w \in Workers : SF_vars(CollectException(w) \/ NotifyDone(w))
  /\ WF_vars(RunStep)
  /\ WF_vars(DtorStep)

FairSpec == Spec /\ Fairness

-----------------------------------------------------------------------------
(* Properties *)

(* Places where a task's handle can be found.  A worker holds its job from *)
(* the moment it takes it until it has suspended it in a waiter list,      *)
(* requeued it, or counted it out.                                         *)
Holds(w, t) ==
  /\ job[w] = t
  /\ wpc[w] \in {"run", "add", "collect", "steal", "wake", "poke", "dec"}

Queued(t) == InSeq(t, queue)
Waiting(t, s) == InSeq(t, waiters[s])
Taken(t, w) == InSeq(t, stolen[w])

FieldTypes ==
  /\ queue \in Seq(Tasks)
  /\ shutdown \in BOOLEAN
  /\ wpc \in [Workers -> WorkerPC]
  /\ job \in [Workers -> Tasks \cup {Null}]
  /\ raising \in [Workers -> Signals]
  /\ stolen \in [Workers -> Seq(Tasks)]
  /\ signaled \in [Signals -> BOOLEAN]
  /\ waiters \in [Signals -> Seq(Tasks)]
  /\ tasks \in Seq(Tasks)
  /\ frame \in [Tasks -> FrameState]
  /\ ip \in [Tasks -> Nat \ {0}]
  /\ thrown \in [Tasks -> BOOLEAN]
  /\ pending \in Int
  /\ exceptions \in Seq(Tasks)
  /\ mpc \in MainPC
  /\ nextTask \in Nat \ {0}
  /\ outcome \in Tasks \cup {Null}

(* Every variable has its type, and m_pending is never driven below zero   *)
(* by more completions than Run counted.                                   *)
TypeOK == FieldTypes /\ pending \in Nat

(* A handle is never in two places: no coroutine is resumed by two workers *)
(* at once, resumed while its own awaiter still needs the worker it ran    *)
(* on, or resumed twice for one suspension.                                *)
NoDoubleResume ==
  \A t \in Tasks :
    /\ \A v, w \in Workers : Holds(v, t) /\ Holds(w, t) => v = w
    /\ \A w \in Workers : Holds(w, t) =>
         /\ ~Queued(t)
         /\ \A s \in Signals : ~Waiting(t, s)
         /\ \A v \in Workers : ~Taken(t, v)
    /\ Queued(t) => \A s \in Signals : ~Waiting(t, s)
    /\ \A w \in Workers : Taken(t, w) => ~Queued(t) /\ \A s \in Signals : ~Waiting(t, s)
    /\ \A r, s \in Signals : Waiting(t, r) /\ Waiting(t, s) => r = s
    /\ \A v, w \in Workers : Taken(t, v) /\ Taken(t, w) => v = w
    /\ NoDup(queue)

(* A task that Run has scheduled and that is not yet counted out is always *)
(* somewhere it can be resumed from: Raise, AddWaiter and the pool never   *)
(* drop a handle.                                                          *)
NoLostTask ==
  mpc \in {"enqueue", "poke", "check", "sleep", "asleep", "finish"} =>
    \A i \in DOMAIN tasks :
      i < nextTask /\ frame[tasks[i]] # "finished" =>
        \/ Queued(tasks[i])
        \/ \E s \in Signals : Waiting(tasks[i], s)
        \/ \E w \in Workers : Taken(tasks[i], w) \/ Holds(w, tasks[i])

(* Signal s has really been raised in this frame: by the end of a task     *)
(* added with that id, or by a task that is past a Signal(s).              *)
RaisedThisFrame(s) ==
  \E i \in DOMAIN tasks :
    LET u == tasks[i] IN
    \/ IdOf[u] = s /\ frame[u] \in {"final", "finished"}
    \/ \E k \in 1..(ip[u] - 1) : Script[u][k] = [op |-> "signal", sig |-> s]

(* A task that executes code after co_await Wait(s) does so after s was    *)
(* raised in this frame, whichever of the two looks at the flag let it     *)
(* through, and whatever the previous frame left behind.                   *)
DependenciesHold ==
  \A w \in Workers :
    wpc[w] \in {"run", "add"} =>
      \A k \in 1..(ip[job[w]] - 1) :
        Script[job[w]][k].op = "wait" => RaisedThisFrame(Script[job[w]][k].sig)

(* A raised signal keeps a waiter only while the worker that raised it has *)
(* yet to take the list: AddWaiter's second look at the flag closes the    *)
(* race with Raise, which stores the flag outside the mutex.               *)
NoMissedRaise ==
  \A s \in Signals :
    signaled[s] /\ waiters[s] # <<>> =>
      \E w \in Workers : wpc[w] = "steal" /\ raising[w] = s

(* When Run is past its wait nothing of the frame is left anywhere: every  *)
(* task has ended, no handle is queued or waiting (so Reset frees no live  *)
(* waiter and destroys no scheduled coroutine), and Run throws exactly     *)
(* when a task of the frame threw.                                         *)
RunComplete ==
  mpc \in {"finish", "returned"} =>
    /\ \A i \in DOMAIN tasks : AtEnd(tasks[i]) /\ signaled[IdOf[tasks[i]]]
    /\ queue = <<>>
    /\ \A s \in Signals : waiters[s] = <<>>
    /\ \A w \in Workers : stolen[w] = <<>> /\ \A t \in Tasks : ~Holds(w, t)
    /\ mpc = "returned" =>
         (outcome = Null <=> \A i \in DOMAIN tasks : ~thrown[tasks[i]])

(* The refinement of TaskOrder.  A waiter passes its Wait when Raise puts  *)
(* its handle back in the queue; a task ends when it raises its id.        *)
PhaseOf ==
  CASE mpc = "client" -> "build"
    [] mpc = "returned" -> "returned"
    [] mpc \in {"dtor", "wakeAll", "join", "gone"} -> "destroyed"
    [] OTHER -> "run"

PosOf == [t \in Tasks |-> IF frame[t] \in {"waiting", "stolen"} THEN ip[t] - 1 ELSE ip[t]]

ThrewOf == {t \in Tasks : frame[t] # "none" /\ thrown[t]}

EndedOf == {t \in Tasks : frame[t] \in {"final", "finished"}}

RaisedOf == {s \in Signals : signaled[s]}

Promise == INSTANCE TaskOrder WITH
  phase <- PhaseOf, list <- tasks, pos <- PosOf, threw <- ThrewOf,
  ended <- EndedOf, raised <- RaisedOf, result <- outcome

(* The threaded graph implements the promise made to its client.           *)
KeepsPromise == Promise!Spec

(* Run returns, or throws: with the predicate evaluated under m_mutex, the *)
(* last DecrementPending cannot slip between Main's check and its wait.    *)
RunReturns == mpc = "enqueue" ~> mpc = "returned"

(* ~WorkerPool ends every thread, wherever it was when m_shutdown was set. *)
DestructorJoins == mpc = "dtor" ~> mpc = "gone"

(* Two statements that do NOT hold, stated for the record.                 *)

(* The mutex and condition variable of the graph exist whenever a worker   *)
(* is about to use them: refuted, ~Graph destroys both before m_pool (498) *)
(* joins the worker that took m_pending to zero and has still to notify.   *)
CallbackInLifetime ==
  mpc \in {"dtor", "wakeAll", "join", "gone"} =>
    \A w \in Workers : wpc[w] # "notify"

(* An exception captured in a task reaches Run's caller: refuted by a task *)
(* that throws before it signals a phase another waits for; Run is blocked.*)
ExceptionPropagates == exceptions # <<>> ~> mpc = "returned" /\ outcome # Null

=============================================================================
