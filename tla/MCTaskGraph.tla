----------------------------- MODULE MCTaskGraph -----------------------------
(***************************************************************************)
(* Small graphs for the runs of TaskGraph.                                 *)
(***************************************************************************)
EXTENDS TaskGraphInvariant, TLC

CONSTANTS w1, w2, a, b, c, phase1

OnWait(s) == [op |-> "wait", sig |-> s]
OnSignal(s) == [op |-> "signal", sig |-> s]
OnThrow == [op |-> "throw", sig |-> phase1]

MCWorkers == {w1, w2}
MCTasks == {a, b, c}
MCSignals == {a, b, c, phase1}
MCIdOf == [t \in MCTasks |-> t]

(* Fan-out from a phase and fan-in, as DoRender of lost_at_sea has them: a *)
(* signals the phase before it throws, b and c wait for it, b throws after *)
(* its second wait, which the end of a wakes.                              *)
FrameScript ==
  a :> <<OnSignal(phase1), OnThrow>> @@ b :> <<OnWait(phase1), OnWait(a), OnThrow>> @@ c :> <<OnWait(phase1)>>

(* Frames of two shapes alternate.                                         *)
FramePrograms == {<<a, b>>, <<b, c, a>>}

=============================================================================
