-------------------------- MODULE TaskGraphInvariant --------------------------
(***************************************************************************)
(* The inductive invariant of TaskGraph.  frame[t] names the one place     *)
(* where the handle of t is; each conjunct ties one part of the code's     *)
(* state to it.                                                            *)
(***************************************************************************)
EXTENDS TaskGraph

Holding == {"run", "add", "collect", "steal", "wake", "poke", "dec"}
Scheduling == {"enqueue", "poke", "check", "sleep", "asleep"}

QueueInv ==
  /\ NoDup(queue)
  /\ \A t \in Tasks : InSeq(t, queue) <=> frame[t] = "queued"

WaiterInv ==
  /\ \A s \in Signals : NoDup(waiters[s])
  /\ \A s \in Signals, t \in Tasks : InSeq(t, waiters[s]) => frame[t] = "waiting"
  /\ \A t \in Tasks : frame[t] = "waiting" => \E s \in Signals : InSeq(t, waiters[s])
  /\ \A t \in Tasks : \A r, s \in Signals :
       InSeq(t, waiters[r]) /\ InSeq(t, waiters[s]) => r = s

StolenInv ==
  /\ \A w \in Workers : NoDup(stolen[w])
  /\ \A w \in Workers : wpc[w] \notin {"wake", "poke"} => stolen[w] = <<>>
  /\ \A w \in Workers, t \in Tasks : InSeq(t, stolen[w]) => frame[t] = "stolen"
  /\ \A t \in Tasks : frame[t] = "stolen" => \E w \in Workers : InSeq(t, stolen[w])
  /\ \A t \in Tasks : \A v, w \in Workers :
       InSeq(t, stolen[v]) /\ InSeq(t, stolen[w]) => v = w

(* A worker between TakeJob and the step that gives its job away.          *)
HoldInv ==
  /\ \A w \in Workers : wpc[w] \in Holding => job[w] \in Tasks
  /\ \A w \in Workers : wpc[w] \in {"run", "add", "collect"} => frame[job[w]] = "running"
  /\ \A w \in Workers : wpc[w] \in {"steal", "wake", "poke"} => frame[job[w]] \in {"running", "final"}
  /\ \A w \in Workers : wpc[w] = "dec" => frame[job[w]] = "final"
  /\ \A v, w \in Workers : wpc[v] \in Holding /\ wpc[w] \in Holding /\ job[v] = job[w] => v = w
  /\ \A t \in Tasks : frame[t] \in {"running", "final"} =>
       \E w \in Workers : wpc[w] \in Holding /\ job[w] = t
  /\ \A w \in Workers : wpc[w] = "add" => NextOpIs(job[w], "wait")
  /\ \A w \in Workers : wpc[w] = "collect" => thrown[job[w]]

FrameInv ==
  /\ NoDup(tasks)
  /\ \A t \in Tasks : InSeq(t, tasks) <=> frame[t] # "none"

(* What Main may assume in each of its positions.                          *)
MainInv ==
  /\ mpc = "client" => \A t \in Tasks : frame[t] \in {"none", "created"}
  /\ mpc \in {"finish", "returned"} => \A t \in Tasks : frame[t] \in {"none", "finished"}
  /\ mpc \in {"dtor", "wakeAll", "join", "gone"} => \A t \in Tasks : frame[t] = "none"
  /\ mpc \in Scheduling =>
       \A i \in DOMAIN tasks : frame[tasks[i]] = "created" <=> i >= nextTask
  /\ mpc = "enqueue" => nextTask <= Len(tasks)
  /\ mpc \in {"check", "sleep", "asleep"} => nextTask > Len(tasks)

Unfinished == {i \in DOMAIN tasks : frame[tasks[i]] # "finished"}

PendingInv ==
  pending = IF mpc \in Scheduling THEN Cardinality(Unfinished) ELSE 0

(* A completed task has raised its id, and signals stay raised until Reset *)
FinalInv ==
  \A t \in Tasks : frame[t] \in {"final", "finished"} => AtEnd(t) /\ signaled[IdOf[t]]

ExceptionInv ==
  /\ \A t \in Tasks : InSeq(t, exceptions) => thrown[t] /\ frame[t] # "none"
  /\ mpc = "client" =>
       /\ exceptions = <<>>
       /\ \A t \in Tasks : frame[t] = "created" => ~thrown[t]
  /\ mpc \in Scheduling \cup {"finish"} =>
       \A t \in Tasks : frame[t] # "none" /\ thrown[t] =>
         InSeq(t, exceptions) \/ \E w \in Workers : wpc[w] = "collect" /\ job[w] = t
  /\ mpc = "returned" =>
       (outcome = Null <=> \A t \in Tasks : frame[t] # "none" => ~thrown[t])

(* The inductive invariant: with it every step preserves each of its       *)
(* parts, and it implies NoDoubleResume, NoLostTask, NoMissedRaise and     *)
(* RunComplete.                                                            *)
IInv ==
  /\ FieldTypes
  /\ QueueInv
  /\ WaiterInv
  /\ StolenInv
  /\ HoldInv
  /\ FrameInv
  /\ MainInv
  /\ PendingInv
  /\ FinalInv
  /\ ExceptionInv
  /\ NoMissedRaise

(* A signal that is set was set by a task of this frame.                   *)
Raiser(u, s) ==
  /\ frame[u] # "none"
  /\ \/ IdOf[u] = s /\ frame[u] \in {"final", "finished"}
     \/ \E k \in 1..(ip[u] - 1) : Script[u][k] = [op |-> "signal", sig |-> s]

SetByTask ==
  mpc \notin {"dtor", "wakeAll", "join", "gone"} =>
    \A s \in Signals : signaled[s] => \E u \in Tasks : Raiser(u, s)

(* A task is past a wait for a signal that is set, except that it counts   *)
(* as past the one whose list it is in.                                    *)
PassedInv ==
  \A t \in Tasks : frame[t] # "none" =>
    /\ ip[t] <= Len(Script[t]) + 1
    /\ \A k \in 1..(ip[t] - 1) :
         Script[t][k].op = "wait" =>
           signaled[Script[t][k].sig] \/ (frame[t] = "waiting" /\ k = ip[t] - 1)

ParkedInv ==
  /\ \A t \in Tasks : frame[t] \in {"waiting", "stolen"} =>
       ip[t] > 1 /\ Script[t][ip[t] - 1].op = "wait"
  /\ \A s \in Signals, t \in Tasks : InSeq(t, waiters[s]) => Script[t][ip[t] - 1].sig = s

RaisingInv == \A w \in Workers : wpc[w] = "steal" => signaled[raising[w]]

(* A task that has thrown is not resumed again.                            *)
ThrownInv ==
  /\ \A t \in Tasks : frame[t] \in {"created", "queued", "waiting", "stolen"} => ~thrown[t]
  /\ \A w \in Workers : wpc[w] \in {"steal", "wake", "poke"} /\ frame[job[w]] = "running" => ~thrown[job[w]]

(* With IInv this is inductive; it implies DependenciesHold, and it is     *)
(* what the refinement of TaskOrder needs.                                 *)
DependencyInv == SetByTask /\ PassedInv /\ ParkedInv /\ RaisingInv /\ ThrownInv

=============================================================================
