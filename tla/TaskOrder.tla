------------------------------ MODULE TaskOrder ------------------------------
(***************************************************************************)
(* What the task graph promises its client, with no threads in sight: the  *)
(* tasks of a frame advance one await at a time, a task passes Wait(s)     *)
(* only once s has been raised in this frame, and Run returns only when    *)
(* every task has ended, rethrowing one of the exceptions if any task      *)
(* threw.  (Usage comment and Graph::Run of task_graph.h.)                 *)
(***************************************************************************)
EXTENDS Naturals, Sequences

CONSTANTS Tasks, Signals, IdOf, Script, Programs, Null

VARIABLES
  phase,    \* "build", "run", "returned" or "destroyed"
  list,     \* the frame's tasks
  pos,      \* next element of each task's script
  threw,    \* tasks of the frame that have thrown
  ended,    \* tasks of the frame that have ended
  raised,   \* signals raised in the frame
  result    \* how Run ended

vars == <<phase, list, pos, threw, ended, raised, result>>

Listed(t) == \E i \in DOMAIN list : list[i] = t

Init ==
  /\ phase = "build"
  /\ list = <<>>
  /\ pos = [t \in Tasks |-> 1]
  /\ threw = {}
  /\ ended = {}
  /\ raised = {}
  /\ result = Null

Add(t) ==
  /\ phase = "build"
  /\ \E p \in Programs : Len(list) < Len(p) /\ Append(list, t) = SubSeq(p, 1, Len(list) + 1)
  /\ list' = Append(list, t)
  /\ pos' = [pos EXCEPT ![t] = 1]
  /\ UNCHANGED <<phase, threw, ended, raised, result>>

Run ==
  /\ phase = "build"
  /\ list = <<>> \/ list \in Programs
  /\ phase' = IF list = <<>> THEN "returned" ELSE "run"
  /\ result' = Null
  /\ UNCHANGED <<list, pos, threw, ended, raised>>

Active(t) == phase = "run" /\ Listed(t) /\ t \notin ended

Finishing(t) == t \in threw \/ pos[t] > Len(Script[t])

At(t, kind) == ~Finishing(t) /\ Script[t][pos[t]].op = kind

PassWait(t) ==
  /\ Active(t) /\ At(t, "wait")
  /\ Script[t][pos[t]].sig \in raised
  /\ pos' = [pos EXCEPT ![t] = @ + 1]
  /\ UNCHANGED <<phase, list, threw, ended, raised, result>>

Signal(t) ==
  /\ Active(t) /\ At(t, "signal")
  /\ raised' = raised \cup {Script[t][pos[t]].sig}
  /\ pos' = [pos EXCEPT ![t] = @ + 1]
  /\ UNCHANGED <<phase, list, threw, ended, result>>

Throw(t) ==
  /\ Active(t) /\ At(t, "throw")
  /\ threw' = threw \cup {t}
  /\ UNCHANGED <<phase, list, pos, ended, raised, result>>

End(t) ==
  /\ Active(t) /\ Finishing(t)
  /\ ended' = ended \cup {t}
  /\ raised' = raised \cup {IdOf[t]}
  /\ UNCHANGED <<phase, list, pos, threw, result>>

Return ==
  /\ phase = "run"
  /\ \A i \in DOMAIN list : list[i] \in ended
  /\ IF threw = {} THEN result' = Null ELSE result' \in threw
  /\ phase' = "returned"
  /\ UNCHANGED <<list, pos, threw, ended, raised>>

Clear ==
  /\ list' = <<>>
  /\ threw' = {}
  /\ ended' = {}
  /\ UNCHANGED <<pos, result>>

Reset ==
  /\ phase \in {"build", "returned"}
  /\ phase' = "build"
  /\ raised' = {}
  /\ Clear

Destroy ==
  /\ phase \in {"build", "returned"}
  /\ phase' = "destroyed"
  /\ UNCHANGED raised
  /\ Clear

Step(t) == Add(t) \/ PassWait(t) \/ Signal(t) \/ Throw(t) \/ End(t)

Next == (\E t \in Tasks : Step(t)) \/ Run \/ Return \/ Reset \/ Destroy

Spec == Init /\ [][Next]_vars

=============================================================================
