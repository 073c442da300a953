------------------------------- MODULE LogProofs -------------------------------
(***************************************************************************)
(* Proofs about the two ends of a log: the context that writes it          *)
(* (AsyncLog) and the line index of the viewer that reads it (LineIndex).  *)
(* The two share no state, and neither says anything of the other.         *)
(*                                                                         *)
(* Of the log: what is pushed comes out once and in order, for any number  *)
(* of writers, messages and events, and any size of a batch; the           *)
(* destructor leaves nothing behind; and Flush is a barrier while no fence *)
(* number is used twice.                                                   *)
(*                                                                         *)
(* Of the index: the reload flag is up exactly while a reload is, and the  *)
(* index knows the whole file once nothing more is to come, whichever      *)
(* lines the scans find; the lines it holds are in order; and they are the *)
(* last ones of the file it knows, as long as the file does not outgrow    *)
(* half the cache between two builds.  All of it for lines of any width,   *)
(* any cache, any lengths of the file and any number of builds.            *)
(***************************************************************************)
EXTENDS AsyncLog, LineIndex, TLAPS, WellFoundedInduction, SequenceTheorems, FiniteSetTheorems

-----------------------------------------------------------------------------
(* Induction over the numbers, with a set in place of a predicate.         *)
LEMMA LeastNumber ==
  ASSUME NEW T, T \subseteq Nat, T # {}
  PROVE  \E m \in T : \A k \in T : m <= k
<1> DEFINE R == OpToRel(<, Nat)
<1>1. IsWellFoundedOn(R, Nat)
  BY NatLessThanWellFounded
<1>2. \A x, y \in Nat : x < y => <<x, y>> \in R
  BY DEF OpToRel
<1> HIDE DEF R
<1>3. PICK m \in T : \A k \in T : ~(<<k, m>> \in R)
  BY <1>1, WFMin
<1>4. ASSUME NEW k \in T PROVE m <= k
  <2>1. k \in Nat /\ m \in Nat /\ ~(<<k, m>> \in R)
    BY <1>3
  <2>2. ~(k < m)
    BY <1>2, <2>1
  <2> QED  BY <2>1, <2>2
<1> QED  BY <1>4

(* What holds of 0 and of the next number whenever of a number.            *)
LEMMA Ascent ==
  ASSUME NEW S, 0 \in S, \A n \in Nat : n \in S => n + 1 \in S
  PROVE  \A n \in Nat : n \in S
<1> SUFFICES ASSUME {n \in Nat : n \notin S} # {} PROVE FALSE
  OBVIOUS
<1>1. PICK m \in {n \in Nat : n \notin S} : \A k \in {n \in Nat : n \notin S} : m <= k
  BY LeastNumber
<1>2. m \in Nat /\ m # 0 /\ m - 1 \in Nat
  BY <1>1
<1>3. m - 1 \in S
  BY <1>1, <1>2
<1> QED  BY <1>1, <1>2, <1>3

-----------------------------------------------------------------------------
(* Payload is a function by recursion; these are its equations.            *)
Step(q, f, i) ==
  IF i = 0 THEN <<>>
  ELSE IF q[i].type = "normal" THEN Append(f[i - 1], q[i].msg) ELSE f[i - 1]
IsPayload(q, n, f) == f = [i \in 0..n |-> Step(q, f, i)]

LEMMA PayloadStep ==
  ASSUME NEW q, NEW n, NEW f, IsPayload(q, n, f)
  PROVE  \A i \in 0..n : f[i] = Step(q, f, i)
<1> DEFINE F(i) == Step(q, f, i)
<1>1. f = [i \in 0..n |-> F(i)]
  BY DEF IsPayload
<1> HIDE DEF F
<1>2. \A i \in 0..n : f[i] = F(i)
  BY <1>1
<1> QED  BY <1>2 DEF F

(* There is such a function, ...                                           *)
LEMMA PayloadExists ==
  ASSUME NEW q, NEW n \in Nat
  PROVE  \E f : IsPayload(q, n, f)
<1> DEFINE S == {m \in Nat : \E f : IsPayload(q, m, f)}
<1>1. 0 \in S
  <2>1. IsPayload(q, 0, [i \in 0..0 |-> <<>>])
    BY DEF IsPayload, Step
  <2> QED  BY <2>1
<1>2. ASSUME NEW m \in Nat, m \in S PROVE m + 1 \in S
  <2>1. PICK f : IsPayload(q, m, f)
    BY <1>2
  <2> DEFINE g == [i \in 0..(m + 1) |-> IF i = m + 1 THEN Step(q, f, m + 1) ELSE f[i]]
  <2>2. \A i \in 0..m : g[i] = f[i] /\ f[i] = Step(q, f, i)
    BY <2>1 DEF IsPayload
  <2>3. \A i \in 0..(m + 1) : Step(q, g, i) = Step(q, f, i)
    <3> SUFFICES ASSUME NEW i \in 0..(m + 1), i # 0 PROVE g[i - 1] = f[i - 1]
      BY DEF Step
    <3> QED  BY <2>2
  <2>4. \A i \in 0..(m + 1) : g[i] = Step(q, g, i)
    BY <2>2, <2>3
  <2>5. IsPayload(q, m + 1, g)
    BY <2>4 DEF IsPayload
  <2> QED  BY <2>5
<1> HIDE DEF S
<1>3. \A m \in Nat : m \in S
  BY <1>1, <1>2, Ascent
<1> QED  BY <1>3 DEF S

(* ... and it is the same wherever the queues are.                         *)
LEMMA PayloadAgrees ==
  ASSUME NEW q, NEW r, NEW m \in Nat, NEW n \in Nat, NEW k \in Nat, k <= m, k <= n,
         NEW f, IsPayload(q, m, f), NEW g, IsPayload(r, n, g),
         \A i \in 1..k : q[i] = r[i]
  PROVE  f[k] = g[k]
<1> DEFINE S == {l \in Nat : l <= k => f[l] = g[l]}
<1>1. \A i \in 0..k : f[i] = Step(q, f, i) /\ g[i] = Step(r, g, i)
  <2>1. (\A i \in 0..m : f[i] = Step(q, f, i)) /\ \A i \in 0..n : g[i] = Step(r, g, i)
    BY PayloadStep
  <2>2. \A i \in 0..k : i \in 0..m /\ i \in 0..n
    OBVIOUS
  <2> QED  BY <2>1, <2>2
<1>2. 0 \in S
  BY <1>1 DEF Step
<1>3. ASSUME NEW l \in Nat, l \in S PROVE l + 1 \in S
  BY <1>1, <1>3 DEF Step
<1> HIDE DEF S
<1>4. \A l \in Nat : l \in S
  BY <1>2, <1>3, Ascent
<1> QED  BY <1>4 DEF S

(* So Payload is what its equations say.                                   *)
LEMMA PayloadDef ==
  ASSUME NEW S, NEW q \in Seq(S)
  PROVE  \E g : IsPayload(q, Len(q), g) /\ Payload(q) = g[Len(q)]
<1>1. \E f : IsPayload(q, Len(q), f)
  BY PayloadExists
<1> QED  BY <1>1 DEF Payload, IsPayload, Step

LEMMA PayloadEmpty == Payload(<<>>) = <<>>
<1>1. \E g : IsPayload(<<>>, 0, g) /\ Payload(<<>>) = g[0]
  BY PayloadDef, EmptySeq
<1> QED  BY <1>1 DEF IsPayload, Step

(* The messages of one event.                                              *)
Single(e) == IF e.type = "normal" THEN <<e.msg>> ELSE <<>>

LEMMA PayloadType ==
  ASSUME NEW q \in Seq(Event)
  PROVE  Payload(q) \in Seq(Messages)
<1>1. PICK g : IsPayload(q, Len(q), g) /\ Payload(q) = g[Len(q)]
  BY PayloadDef
<1> DEFINE S == {l \in Nat : l <= Len(q) => g[l] \in Seq(Messages)}
<1>2. \A i \in 0..Len(q) : g[i] = Step(q, g, i)
  BY <1>1, PayloadStep
<1>3. \A i \in 1..Len(q) : q[i].type = "normal" => q[i].msg \in Messages
  BY DEF Event, Normal
<1>4. 0 \in S
  <2>1. Len(q) \in Nat
    OBVIOUS
  <2>2. g[0] = Step(q, g, 0)
    BY <1>2, <2>1
  <2>3. g[0] \in Seq(Messages)
    BY <2>2, EmptySeq DEF Step
  <2> QED  BY <2>3
<1>5. ASSUME NEW l \in Nat, l \in S PROVE l + 1 \in S
  <2> SUFFICES ASSUME l + 1 <= Len(q) PROVE g[l + 1] \in Seq(Messages)
    OBVIOUS
  <2>1. g[l] \in Seq(Messages) /\ l + 1 \in 1..Len(q) /\ g[l + 1] = Step(q, g, l + 1)
    BY <1>2, <1>5
  <2> QED  BY <1>3, <2>1 DEF Step
<1> HIDE DEF S
<1>6. \A l \in Nat : l \in S
  BY <1>4, <1>5, Ascent
<1> QED  BY <1>1, <1>6 DEF S

(* A queue's last event comes last, ...                                    *)
LEMMA PayloadAppend ==
  ASSUME NEW q \in Seq(Event), NEW e \in Event
  PROVE  Payload(Append(q, e)) = Payload(q) \o Single(e)
<1> DEFINE r == Append(q, e)
           n == Len(q)
<1>1. r \in Seq(Event) /\ Len(r) = n + 1 /\ r[n + 1] = e /\ \A i \in 1..n : r[i] = q[i]
  BY AppendProperties
<1>2. n \in Nat
  OBVIOUS
<1>3. PICK f : IsPayload(q, n, f) /\ Payload(q) = f[n]
  BY PayloadDef
<1> HIDE DEF r, n
<1>4. PICK g : IsPayload(r, n + 1, g) /\ Payload(r) = g[n + 1]
  BY <1>1, PayloadDef
<1>5. f[n] = g[n]
  BY <1>1, <1>2, <1>3, <1>4, PayloadAgrees
<1>6. g[n + 1] = Step(r, g, n + 1)
  BY <1>2, <1>4, PayloadStep
<1>7. g[n + 1] = IF e.type = "normal" THEN Append(g[n], e.msg) ELSE g[n]
  BY <1>1, <1>2, <1>6 DEF Step
<1>8. Payload(q) \in Seq(Messages) /\ (e.type = "normal" => e.msg \in Messages)
  BY PayloadType DEF Event, Normal
<1>9. Payload(r) = IF e.type = "normal" THEN Append(Payload(q), e.msg) ELSE Payload(q)
  BY <1>3, <1>4, <1>5, <1>7
<1>10. CASE e.type = "normal"
  BY <1>8, <1>9, <1>10, AppendIsConcat DEF Single, r
<1>11. CASE e.type # "normal"
  BY <1>8, <1>9, <1>11, ConcatEmptySeq DEF Single, r
<1> QED  BY <1>10, <1>11

(* A queue's first event comes first.                                      *)
LEMMA PayloadCons ==
  ASSUME NEW e \in Event, NEW q \in Seq(Event)
  PROVE  Payload(<<e>> \o q) = Single(e) \o Payload(q)
<1> DEFINE S == {n \in Nat : \A r \in Seq(Event) : Len(r) = n => Payload(<<e>> \o r) = Single(e) \o Payload(r)}
<1>1. Single(e) \in Seq(Messages) /\ <<e>> \in Seq(Event)
  BY DEF Single, Event, Normal
<1>2. 0 \in S
  <2> SUFFICES ASSUME NEW r \in Seq(Event), Len(r) = 0 PROVE Payload(<<e>> \o r) = Single(e) \o Payload(r)
    OBVIOUS
  <2>1. r = <<>> /\ <<e>> \o r = Append(<<>>, e)
    OBVIOUS
  <2>2. Payload(Append(<<>>, e)) = <<>> \o Single(e)
    BY PayloadAppend, PayloadEmpty, EmptySeq
  <2>3. <<>> \o Single(e) = Single(e) /\ Single(e) \o <<>> = Single(e)
    BY <1>1, ConcatEmptySeq
  <2> QED  BY <2>1, <2>2, <2>3, PayloadEmpty
<1>3. ASSUME NEW n \in Nat, n \in S PROVE n + 1 \in S
  <2> SUFFICES ASSUME NEW r \in Seq(Event), Len(r) = n + 1 PROVE Payload(<<e>> \o r) = Single(e) \o Payload(r)
    OBVIOUS
  <2>1. PICK s \in Seq(Event), x \in Event : r = Append(s, x)
    <3>1. r # <<>>
      OBVIOUS
    <3>2. SubSeq(r, 1, Len(r) - 1) \in Seq(Event) /\ r[Len(r)] \in Event
          /\ r = Append(SubSeq(r, 1, Len(r) - 1), r[Len(r)])
      BY <3>1
    <3> QED  BY <3>2
  <2>2. Len(s) = n
    BY <2>1
  <2>3. Payload(<<e>> \o s) = Single(e) \o Payload(s)
    BY <1>3, <2>2
  <2>4. <<e>> \o r = Append(<<e>> \o s, x) /\ <<e>> \o s \in Seq(Event)
    BY <1>1, <2>1
  <2>5. Payload(<<e>> \o r) = Payload(<<e>> \o s) \o Single(x)
    BY <2>4, PayloadAppend
  <2>6. Payload(r) = Payload(s) \o Single(x)
    BY <2>1, PayloadAppend
  <2>7. Payload(s) \in Seq(Messages) /\ Single(x) \in Seq(Messages)
    BY PayloadType DEF Single, Event, Normal
  <2>8. (Single(e) \o Payload(s)) \o Single(x) = Single(e) \o (Payload(s) \o Single(x))
    <3> DEFINE a == Single(e)
               b == Payload(s)
               c == Single(x)
    <3>1. a \in Seq(Messages) /\ b \in Seq(Messages) /\ c \in Seq(Messages)
      BY <1>1, <2>7
    <3> HIDE DEF a, b, c
    <3>2. (a \o b) \o c = a \o (b \o c)
      BY <3>1, ConcatAssociative
    <3> QED  BY <3>2 DEF a, b, c
  <2> QED  BY <2>3, <2>5, <2>6, <2>8
<1> HIDE DEF S
<1>4. \A n \in Nat : n \in S
  BY <1>2, <1>3, Ascent
<1>5. Len(q) \in Nat
  OBVIOUS
<1> QED  BY <1>4, <1>5 DEF S

(* What is held back and what is in hand are messages.                     *)
HandInv ==
  /\ prev.count > 0 => prev.msg \in Messages
  /\ cpc = "handle" => ev \in Event

(* The sentinel is the last of the queue, and nothing is left behind it.   *)
EndInv ==
  /\ life # "open" => \A w \in Writers : pc[w] = "out"
  /\ \A i \in 1..Len(queue) : queue[i].type = "sentinel" => i = Len(queue) /\ life # "open"
  /\ cpc = "handle" /\ ev.type = "sentinel" => queue = <<>> /\ life # "open"
  /\ cpc \in {"last", "ended"} => queue = <<>> /\ prev.count = 0 /\ life # "open"
  /\ life = "gone" => cpc = "ended"

(* The inductive invariant: a batch held back, the event in hand and the   *)
(* queue, in that order, are what is still to come of the history.         *)
IInv == TypeOK /\ HandInv /\ EndInv /\ InOrder

-----------------------------------------------------------------------------
(* Concatenations of messages.                                             *)

LEMMA FunctionIsSeq ==
  ASSUME NEW S, NEW n \in Nat, NEW a \in [1..n -> S]
  PROVE  a \in Seq(S) /\ Len(a) = n
  OBVIOUS

LEMMA HeldType ==
  ASSUME TypeOK, HandInv
  PROVE  /\ Held \in Seq(Messages) /\ Len(Held) = prev.count /\ prev.count \in Nat
         /\ output \o Held \in Seq(Messages) /\ Len(output \o Held) = Len(output) + prev.count
<1>1. prev.count \in Nat /\ output \in Seq(Messages)
  BY BatchAssumption DEF TypeOK
<1>2. Held \in Seq(Messages) /\ Len(Held) = prev.count
  <2>1. CASE prev.count = 0
    <3>1. Held = <<>>
      BY <2>1 DEF Held
    <3> QED  BY <2>1, <3>1
  <2>2. CASE prev.count # 0
    <3>1. prev.msg \in Messages
      BY <1>1, <2>2 DEF HandInv
    <3>2. Held \in [1..prev.count -> Messages]
      BY <3>1 DEF Held
    <3> QED  BY <1>1, <3>2
  <2> QED  BY <2>1, <2>2
<1> QED  BY <1>1, <1>2, ConcatProperties

LEMMA SingleType ==
  ASSUME NEW e \in Event
  PROVE  /\ Single(e) \in Seq(Messages) /\ Payload(<<e>>) = Single(e)
         /\ e.type \in {"normal", "fence", "sentinel"}
         /\ e.type = "normal" => e.msg \in Messages /\ Single(e) = <<e.msg>> /\ Len(Single(e)) = 1
         /\ e.type # "normal" => e.id \in 0..(FenceRange - 1) /\ Single(e) = <<>> /\ Len(Single(e)) = 0
<1>1. /\ e.type \in {"normal", "fence", "sentinel"}
      /\ e.type = "normal" => e.msg \in Messages
      /\ e.type # "normal" => e.id \in 0..(FenceRange - 1)
  BY DEF Event, Normal
<1>2. Single(e) \in Seq(Messages)
  BY <1>1 DEF Single
<1>3. Payload(Append(<<>>, e)) = <<>> \o Single(e)
  BY PayloadAppend, PayloadEmpty, EmptySeq
<1>4. Append(<<>>, e) = <<e>> /\ <<>> \o Single(e) = Single(e)
  BY <1>2, ConcatEmptySeq
<1> QED  BY <1>1, <1>2, <1>3, <1>4 DEF Single

(* The messages in hand and in the queue.                                  *)
LEMMA RestType ==
  ASSUME TypeOK, HandInv
  PROVE  /\ Payload(InHand) \in Seq(Messages) /\ Payload(queue) \in Seq(Messages)
         /\ cpc = "handle" => Payload(InHand) = Single(ev)
         /\ cpc # "handle" => Payload(InHand) = <<>>
<1>1. CASE cpc = "handle"
  BY <1>1, SingleType, PayloadType DEF InHand, HandInv, TypeOK
<1>2. CASE cpc # "handle"
  BY <1>2, PayloadEmpty, PayloadType, EmptySeq DEF InHand, TypeOK
<1> QED  BY <1>1, <1>2

-----------------------------------------------------------------------------
(* The steps, by what they do to the messages.                             *)

(* A step that moves no message.                                           *)
Still == UNCHANGED <<queue, ev, prev, output, history>> /\ (cpc' = "handle" <=> cpc = "handle")

(* An event is pushed.                                                     *)
Pushes(e) == queue' = Append(queue, e) /\ UNCHANGED <<cpc, ev, prev, output>> /\ history' = history \o Single(e)

(* The event in hand is counted, and nothing else.                         *)
Counts ==
  /\ cpc = "handle" /\ cpc' # "handle" /\ UNCHANGED <<queue, history>>
  /\ output' \o Held' = (output \o Held) \o Single(ev)

(* Every step is of one of these kinds, or Pop.                            *)
LEMMA StepKinds ==
  ASSUME IInv, Next
  PROVE  \/ Still
         \/ \E e \in Event : Pushes(e)
         \/ Pop
         \/ Counts
<1>0. TypeOK /\ HandInv
  BY DEF IInv
<1>1. /\ Held \in Seq(Messages) /\ output \in Seq(Messages) /\ output \o Held \in Seq(Messages)
      /\ cpc = "handle" => ev \in Event
  BY <1>0, HeldType DEF TypeOK, HandInv
<1>2. CASE Pop
  BY <1>2
<1>3. CASE FindEmpty \/ ConsumerSleep \/ PublishFence \/ ConsumerEnd \/ ConsumerSpuriousWake
  BY <1>3 DEF FindEmpty, ConsumerSleep, PublishFence, ConsumerEnd, ConsumerSpuriousWake, Still
<1>4. CASE JoinBatch
  <2>1. /\ cpc = "handle" /\ ev.type = "normal" /\ ev.msg = prev.msg /\ prev' = [prev EXCEPT !.count = @ + 1]
        /\ cpc' = "test" /\ UNCHANGED <<queue, history, output>>
    BY <1>4 DEF JoinBatch, JoinBatchTo, Same
  <2>2. prev'.msg = prev.msg /\ prev'.count = prev.count + 1 /\ prev.count \in Nat
    BY <1>0, <2>1, HeldType DEF TypeOK
  <2>3. Held' = [i \in 1..(prev.count + 1) |-> prev.msg]
    BY <2>2 DEF Held
  <2>4. Single(ev) = <<prev.msg>> /\ prev.msg \in Messages
    BY <1>1, <2>1, SingleType
  <2>5. Held' = Held \o Single(ev)
    <3>1. Held' \in Seq(Messages) /\ Len(Held') = prev.count + 1 /\ \A i \in 1..(prev.count + 1) : Held'[i] = prev.msg
      <4>1. Held' \in [1..(prev.count + 1) -> Messages]
        BY <2>3, <2>4
      <4> QED  BY <2>2, <2>3, <4>1
    <3>2. Len(Held) = prev.count /\ \A i \in 1..prev.count : Held[i] = prev.msg
      BY <1>0, HeldType DEF Held
    <3> DEFINE a == Held'
               b == Held
    <3>3. a \in Seq(Messages) /\ b \in Seq(Messages) /\ Len(a) = Len(b) + 1 /\ prev.count = Len(b)
      BY <1>1, <3>1, <3>2
    <3>4. b \o <<prev.msg>> \in Seq(Messages) /\ Len(b \o <<prev.msg>>) = Len(b) + 1
          /\ \A i \in 1..(Len(b) + 1) : (b \o <<prev.msg>>)[i] = IF i <= Len(b) THEN b[i] ELSE prev.msg
      BY <2>4, <3>3
    <3> HIDE DEF a, b
    <3>5. \A i \in 1..(Len(b) + 1) : (b \o <<prev.msg>>)[i] = a[i]
      BY <3>1, <3>2, <3>3, <3>4 DEF a, b
    <3>6. a = b \o <<prev.msg>>
      BY <3>3, <3>4, <3>5, SeqEqual
    <3> QED  BY <2>4, <3>6 DEF a, b
  <2>6. output' \o Held' = (output \o Held) \o Single(ev)
    <3> DEFINE a == output
               b == Held
               c == Single(ev)
    <3>1. a \in Seq(Messages) /\ b \in Seq(Messages) /\ c \in Seq(Messages)
      BY <1>1, <2>1, SingleType
    <3> HIDE DEF a, b, c
    <3>2. (a \o b) \o c = a \o (b \o c)
      BY <3>1, ConcatAssociative
    <3> QED  BY <2>1, <2>5, <3>2 DEF a, b, c
  <2> QED  BY <2>1, <2>6 DEF Counts
<1>5. CASE StartBatch
  <2>1. /\ cpc = "handle" /\ ev.type = "normal" /\ ev.msg = prev.msg /\ prev' = [prev EXCEPT !.count = 1]
        /\ cpc' = "test" /\ UNCHANGED <<queue, history>> /\ output' = output \o Held
    BY <1>5 DEF StartBatch, Same
  <2>2. prev'.msg = prev.msg /\ prev'.count = 1
    BY <1>0, <2>1 DEF TypeOK
  <2>3. Held' = [i \in 1..1 |-> prev.msg]
    BY <2>2 DEF Held
  <2>4. Single(ev) = <<prev.msg>> /\ prev.msg \in Messages
    BY <1>1, <2>1, SingleType
  <2>5. Held' = <<prev.msg>>
    <3> DEFINE a == Held'
    <3>1. a \in Seq(Messages) /\ Len(a) = 1 /\ a[1] = prev.msg
      <4>1. a \in [1..1 -> Messages] /\ DOMAIN a = 1..1
        BY <2>3, <2>4
      <4>2. a[1] = prev.msg
        BY <2>3
      <4> HIDE DEF a
      <4>3. a \in Seq(Messages) /\ Len(a) = 1
        BY <4>1, FunctionIsSeq
      <4> QED  BY <4>2, <4>3
    <3> HIDE DEF a
    <3>2. a = <<prev.msg>>
      BY <3>1
    <3> QED  BY <3>2 DEF a
  <2> QED  BY <2>1, <2>4, <2>5 DEF Counts
<1>6. CASE LogEvent
  <2>1. /\ cpc = "handle" /\ ev.type = "normal" /\ prev' = [msg |-> ev.msg, count |-> 0]
        /\ cpc' = "test" /\ UNCHANGED <<queue, history>> /\ output' = output \o Held \o <<ev.msg>>
    BY <1>6 DEF LogEvent, LogEventAfter
  <2>2. Held' = <<>>
    BY <2>1 DEF Held
  <2>3. Single(ev) = <<ev.msg>> /\ Single(ev) \in Seq(Messages)
    BY <1>1, <2>1, SingleType
  <2>4. output' \in Seq(Messages)
    BY <1>1, <2>1, <2>3, ConcatProperties
  <2> QED  BY <2>1, <2>2, <2>3, <2>4, ConcatEmptySeq DEF Counts
<1>7. CASE ReachFence \/ ReachSentinel
  <2>1. /\ cpc = "handle" /\ ev.type \in {"fence", "sentinel"} /\ prev' = [prev EXCEPT !.count = 0]
        /\ cpc' # "handle" /\ UNCHANGED <<queue, history>> /\ output' = output \o Held
    BY <1>7 DEF ReachFence, ReachSentinel, ReachSentinelAfter
  <2>2. prev'.count = 0
    BY <1>0, <2>1 DEF TypeOK
  <2>3. Held' = <<>>
    BY <2>2 DEF Held
  <2>4. Single(ev) = <<>>
    BY <1>1, <2>1, SingleType
  <2>5. output' \o Held' = output \o Held
    BY <1>1, <2>1, <2>3, ConcatEmptySeq
  <2>6. (output \o Held) \o Single(ev) = output \o Held
    BY <1>1, <2>4, ConcatEmptySeq
  <2> QED  BY <2>1, <2>5, <2>6 DEF Counts
<1>8. ASSUME NEW w \in Writers, Writer(w) PROVE Still \/ \E e \in Event : Pushes(e)
  <2>1. ASSUME NEW m \in Messages, Write(w, m) PROVE Pushes(Normal(m)) /\ Normal(m) \in Event
    <3>1. Normal(m) \in Event /\ Single(Normal(m)) = <<m>>
      BY DEF Event, Normal, Single
    <3>2. history' = history \o <<m>>
      BY <1>0, <2>1, AppendIsConcat DEF Write, TypeOK
    <3> QED  BY <2>1, <3>1, <3>2 DEF Write, Pushes, consumerVars
  <2>2. CASE PushFence(w)
    <3> DEFINE e == Control("fence", mine[w])
    <3>1. e \in Event /\ Single(e) = <<>>
      BY <1>0, RangeAssumption DEF TypeOK, Event, Control, Single
    <3>2. history \o <<>> = history
      BY <1>0, ConcatEmptySeq DEF TypeOK
    <3>3. Pushes(e)
      BY <2>2, <3>1, <3>2 DEF PushFence, Pushes, consumerVars
    <3> QED  BY <3>1, <3>3
  <2>3. CASE WriteNotify(w)
    BY <2>3 DEF WriteNotify, NotifyQueue, Still
  <2>4. CASE WriteDirect(w) \/ Flush(w) \/ WriteReturn(w) \/ TestFence(w) \/ FlushSleep(w) \/ FlushReturn(w) \/ FlushSpuriousWake(w)
    BY <2>4 DEF WriteDirect, Flush, WriteReturn, TestFence, FlushSleep, FlushReturn, FlushSpuriousWake, consumerVars, Still
  <2> QED  BY <1>8, <2>1, <2>2, <2>3, <2>4 DEF Writer, InCall
<1>9. CASE WriteMode
  BY <1>9 DEF WriteMode, consumerVars, Still
<1>10. CASE Close
  <2> DEFINE e == Control("sentinel", serial + 1)
  <2>1. e \in Event /\ Single(e) = <<>>
    BY <1>0, RangeAssumption DEF TypeOK, Event, Control, Single
  <2>2. history \o <<>> = history
    BY <1>0, ConcatEmptySeq DEF TypeOK
  <2>3. Pushes(e)
    BY <1>10, <2>1, <2>2 DEF Close, Pushes, consumerVars
  <2> QED  BY <2>1, <2>3
<1>11. CASE CloseNotify
  BY <1>11 DEF CloseNotify, NotifyQueue, Still
<1>12. CASE Join \/ Finished
  BY <1>12 DEF Join, Finished, consumerVars, vars, Still
<1> QED
  BY <1>2, <1>3, <1>4, <1>5, <1>6, <1>7, <1>8, <1>9, <1>10, <1>11, <1>12 DEF Next, Consumer, Destructor

-----------------------------------------------------------------------------
(* Pop puts the batch out when the next event differs, or starts another.  *)
LEMMA OrderKept ==
  ASSUME IInv, Next
  PROVE  InOrder'
<1> DEFINE out == output \o Held
           hand == Payload(InHand)
           rest == Payload(queue)
<1>0. TypeOK /\ HandInv /\ (out \o hand) \o rest = history
  BY DEF IInv, InOrder
<1>1. /\ out \in Seq(Messages) /\ hand \in Seq(Messages) /\ rest \in Seq(Messages) /\ history \in Seq(Messages)
      /\ queue \in Seq(Event)
      /\ cpc = "handle" => hand = Single(ev)
      /\ cpc # "handle" => hand = <<>>
  BY <1>0, HeldType, RestType DEF TypeOK
<1>2. CASE Still
  <2>1. Held' = Held /\ InHand' = InHand
    BY <1>2 DEF Still, Held, InHand
  <2> QED  BY <1>0, <1>2, <2>1 DEF Still, InOrder
<1>3. ASSUME NEW e \in Event, Pushes(e) PROVE InOrder'
  <2>1. Held' = Held /\ InHand' = InHand /\ output' = output
    BY <1>3 DEF Pushes, Held, InHand
  <2>2. Payload(queue') = rest \o Single(e) /\ Single(e) \in Seq(Messages)
    BY <1>1, <1>3, PayloadAppend, SingleType DEF Pushes
  <2>3. out \o hand \in Seq(Messages)
    BY <1>1, ConcatProperties
  <2> HIDE DEF out, hand, rest
  <2>4. ((out \o hand) \o rest) \o Single(e) = (out \o hand) \o (rest \o Single(e))
    <3> DEFINE a == out \o hand
               b == rest
               c == Single(e)
    <3>1. a \in Seq(Messages) /\ b \in Seq(Messages) /\ c \in Seq(Messages)
      BY <1>1, <2>2, <2>3
    <3> HIDE DEF a, b, c
    <3>2. (a \o b) \o c = a \o (b \o c)
      BY <3>1, ConcatAssociative
    <3> QED  BY <3>2 DEF a, b, c
  <2>5. history' = history \o Single(e)
    BY <1>3 DEF Pushes
  <2> QED  BY <1>0, <2>1, <2>2, <2>4, <2>5 DEF InOrder, out, hand
<1>4. CASE Pop
  <2>1. /\ cpc = "test" /\ queue # <<>> /\ ev' = Head(queue) /\ queue' = Tail(queue) /\ cpc' = "handle"
        /\ UNCHANGED <<prev, output, history>>
    BY <1>4 DEF Pop
  <2>2. Head(queue) \in Event /\ Tail(queue) \in Seq(Event) /\ queue = <<Head(queue)>> \o Tail(queue)
    BY <1>1, <2>1
  <2>3. rest = Single(Head(queue)) \o Payload(Tail(queue))
    BY <2>2, PayloadCons
  <2>4. Held' = Held /\ InHand' = <<Head(queue)>>
    BY <2>1 DEF Held, InHand
  <2>5. Payload(InHand') = Single(Head(queue)) /\ Single(Head(queue)) \in Seq(Messages)
        /\ Payload(Tail(queue)) \in Seq(Messages)
    BY <2>2, <2>4, SingleType, PayloadType
  <2>6. out \o hand = out
    BY <1>1, <2>1, ConcatEmptySeq
  <2> HIDE DEF out
  <2>7. (out \o Single(Head(queue))) \o Payload(Tail(queue)) = out \o (Single(Head(queue)) \o Payload(Tail(queue)))
    <3> DEFINE a == out
               b == Single(Head(queue))
               c == Payload(Tail(queue))
    <3>1. a \in Seq(Messages) /\ b \in Seq(Messages) /\ c \in Seq(Messages)
      BY <1>1, <2>5
    <3> HIDE DEF a, b, c
    <3>2. (a \o b) \o c = a \o (b \o c)
      BY <3>1, ConcatAssociative
    <3> QED  BY <3>2 DEF a, b, c
  <2>8. out \o rest = history
    BY <1>0, <2>6
  <2> QED  BY <2>1, <2>3, <2>4, <2>5, <2>7, <2>8 DEF InOrder, out
<1>5. CASE Counts
  <2>1. /\ cpc = "handle" /\ cpc' # "handle" /\ queue' = queue /\ history' = history
        /\ output' \o Held' = out \o Single(ev)
    BY <1>5 DEF Counts
  <2>2. Payload(InHand') = <<>>
    BY <2>1, PayloadEmpty DEF InHand
  <2>3. out \o hand \in Seq(Messages) /\ (out \o hand) \o <<>> = out \o hand
    BY <1>1, ConcatProperties, ConcatEmptySeq
  <2>4. hand = Single(ev)
    BY <1>1, <2>1
  <2> HIDE DEF out, hand
  <2>5. ((output' \o Held') \o <<>>) \o rest = history
    BY <1>0, <2>1, <2>3, <2>4
  <2> QED  BY <2>1, <2>2, <2>5 DEF InOrder
<1> QED  BY <1>2, <1>3, <1>4, <1>5, StepKinds

(* Which steps change what.                                                *)
LEMMA StepFrames ==
  ASSUME Next
  PROVE  /\ ev' = ev \/ Pop
         /\ output' = output \/ output' = output \o Held \/ LogEvent
         /\ prev' = prev \/ JoinBatch \/ StartBatch \/ prev' = [prev EXCEPT !.count = 0] \/ LogEvent
         /\ fence' = fence \/ ReachFence \/ ReachSentinel
         /\ cpc' = cpc \/ Consumer \/ cpc' = "test"
         /\ mode' \in {mode, "async", "immediate"}
         /\ life' = life \/ Close \/ CloseNotify \/ Join
         /\ serial' = serial \/ (\E w \in Writers : Flush(w)) \/ Close
         /\ UNCHANGED <<mine, due>> \/ \E w \in Writers : Flush(w)
         /\ pc' = pc \/ NotifyFence \/ \E w \in Writers, x \in WriterPC : pc' = [pc EXCEPT ![w] = x]
<1>1. CASE Consumer
  <2>1. CASE Pop \/ FindEmpty \/ ConsumerSleep \/ PublishFence \/ ConsumerEnd
    BY <2>1 DEF Pop, FindEmpty, ConsumerSleep, PublishFence, ConsumerEnd, Consumer, threadVars
  <2>2. CASE JoinBatch \/ StartBatch \/ LogEvent
    BY <2>2 DEF JoinBatch, JoinBatchTo, StartBatch, LogEvent, LogEventAfter, Consumer, threadVars
  <2>3. CASE ReachFence \/ ReachSentinel
    BY <2>3 DEF ReachFence, ReachSentinel, ReachSentinelAfter, Consumer, threadVars
  <2> QED  BY <1>1, <2>1, <2>2, <2>3 DEF Consumer
<1>2. CASE ConsumerSpuriousWake
  BY <1>2 DEF ConsumerSpuriousWake, threadVars
<1>3. ASSUME NEW w \in Writers, Writer(w), ~Flush(w)
      PROVE  /\ UNCHANGED <<ev, output, prev, fence, mode, life, serial, mine, due>>
             /\ cpc' = cpc \/ cpc' = "test"
             /\ \E x \in WriterPC : pc' = [pc EXCEPT ![w] = x]
  <2>1. CASE \E m \in Messages : Write(w, m)
    BY <2>1 DEF Write, consumerVars, WriterPC
  <2>2. CASE WriteDirect(w) \/ WriteReturn(w) \/ PushFence(w) \/ FlushSleep(w) \/ FlushReturn(w) \/ FlushSpuriousWake(w)
    BY <2>2 DEF WriteDirect, WriteReturn, PushFence, FlushSleep, FlushReturn, FlushSpuriousWake, consumerVars, WriterPC
  <2>3. CASE WriteNotify(w)
    BY <2>3 DEF WriteNotify, NotifyQueue, WriterPC
  <2>4. CASE TestFence(w)
    BY <2>4 DEF TestFence, consumerVars, WriterPC
  <2> QED  BY <1>3, <2>1, <2>2, <2>3, <2>4 DEF Writer, InCall
<1>4. ASSUME NEW w \in Writers, Flush(w)
      PROVE  /\ UNCHANGED <<ev, output, prev, fence, mode, life, cpc>>
             /\ \E x \in WriterPC : pc' = [pc EXCEPT ![w] = x]
  BY <1>4 DEF Flush, consumerVars, WriterPC
<1>5. CASE WriteMode
  BY <1>5 DEF WriteMode, consumerVars, threadVars
<1>6. CASE Destructor
  BY <1>6 DEF Destructor, Close, CloseNotify, NotifyQueue, Join, consumerVars, threadVars
<1>7. CASE Finished
  BY <1>7 DEF Finished, consumerVars, threadVars, vars
<1>8. CASE \E w \in Writers : Writer(w)
  BY <1>3, <1>4, <1>8
<1> QED  BY <1>1, <1>2, <1>5, <1>6, <1>7, <1>8 DEF Next

LEMMA TypeKept ==
  ASSUME IInv, Next
  PROVE  TypeOK'
<1>0. TypeOK /\ HandInv
  BY DEF IInv
<1>1. /\ queue' \in Seq(Event) /\ ev' \in Event \cup {Normal(NoMessage)} /\ history' \in Seq(Messages)
  <2>1. queue \in Seq(Event) /\ ev \in Event \cup {Normal(NoMessage)} /\ history \in Seq(Messages)
    BY <1>0 DEF TypeOK
  <2>2. ev' \in Event \cup {Normal(NoMessage)}
    <3>1. Pop => ev' \in Event
      BY <2>1 DEF Pop
    <3> QED  BY <2>1, <3>1, StepFrames
  <2>3. ASSUME NEW e \in Event, Pushes(e) PROVE queue' \in Seq(Event) /\ history' \in Seq(Messages)
    <3>1. Single(e) \in Seq(Messages)
      BY SingleType
    <3> QED  BY <2>1, <2>3, <3>1, ConcatProperties DEF Pushes
  <2>4. Still \/ Counts => queue' = queue /\ history' = history
    BY DEF Still, Counts
  <2>5. Pop => queue' \in Seq(Event) /\ history' = history
    BY <2>1 DEF Pop
  <2> QED  BY <2>1, <2>2, <2>3, <2>4, <2>5, StepKinds
<1>2. output' \in Seq(Messages)
  <2>1. output \in Seq(Messages) /\ output \o Held \in Seq(Messages)
    BY <1>0, HeldType DEF TypeOK
  <2>2. LogEvent => output' = (output \o Held) \o <<ev.msg>> /\ ev.msg \in Messages
    BY <1>0, SingleType DEF LogEvent, LogEventAfter, HandInv
  <2>3. LogEvent => output' \in Seq(Messages)
    <3>1. \A a \in Seq(Messages), x \in Messages : a \o <<x>> \in Seq(Messages)
      OBVIOUS
    <3> QED  BY <2>1, <2>2, <3>1
  <2> QED  BY <2>1, <2>3, StepFrames
<1>3. prev' \in [msg : Messages \cup {NoMessage}, count : 0..BatchSize]
  <2>1. prev \in [msg : Messages \cup {NoMessage}, count : 0..BatchSize] /\ BatchSize \in Nat
    BY <1>0, BatchAssumption DEF TypeOK
  <2>2. CASE JoinBatch
    BY <2>1, <2>2 DEF JoinBatch, JoinBatchTo
  <2>3. CASE LogEvent
    <3>1. prev' = [msg |-> ev.msg, count |-> 0] /\ ev.msg \in Messages
      BY <1>0, <2>3, SingleType DEF LogEvent, LogEventAfter, HandInv
    <3> QED  BY <2>1, <3>1
  <2>4. CASE prev' = [prev EXCEPT !.count = 0]
    BY <2>1, <2>4
  <2>5. CASE StartBatch
    <3>1. prev' = [prev EXCEPT !.count = 1] /\ 1 \in 0..BatchSize
      BY <2>1, <2>5 DEF StartBatch
    <3> QED  BY <2>1, <3>1
  <2> QED  BY <2>1, <2>2, <2>3, <2>4, <2>5, StepFrames
<1>4. fence' \in 0..(FenceRange - 1)
  <2>1. ReachFence \/ ReachSentinel => fence' = ev.id /\ ev.id \in 0..(FenceRange - 1)
    BY <1>0, SingleType DEF ReachFence, ReachSentinel, ReachSentinelAfter, HandInv
  <2> QED  BY <1>0, <2>1, StepFrames DEF TypeOK
<1>5. serial' \in Nat /\ mine' \in [Writers -> 0..(FenceRange - 1)] /\ due' \in [Writers -> Nat]
  <2>1. serial \in Nat /\ mine \in [Writers -> 0..(FenceRange - 1)] /\ due \in [Writers -> Nat] /\ Len(history) \in Nat
    BY <1>0 DEF TypeOK
  <2>2. ASSUME NEW w \in Writers, Flush(w)
               PROVE  serial' \in Nat /\ mine' \in [Writers -> 0..(FenceRange - 1)] /\ due' \in [Writers -> Nat]
    <3>1. /\ serial' = serial + 1 /\ mine' = [mine EXCEPT ![w] = serial' % FenceRange]
          /\ due' = [due EXCEPT ![w] = Len(history)]
      BY <2>2 DEF Flush
    <3>2. serial' % FenceRange \in 0..(FenceRange - 1)
      BY <2>1, <3>1, RangeAssumption
    <3> QED  BY <2>1, <3>1, <3>2
  <2>3. Close => serial' = serial + 1
    BY DEF Close
  <2>4. CASE UNCHANGED <<mine, due>>
    BY <2>1, <2>2, <2>3, <2>4, StepFrames
  <2>5. CASE \E w \in Writers : Flush(w)
    BY <2>2, <2>5
  <2> QED  BY <2>4, <2>5, StepFrames
<1>6. mode' \in {"async", "immediate"}
  BY <1>0, StepFrames DEF TypeOK
<1>7. life' \in {"open", "notify", "join", "gone"}
  BY <1>0, StepFrames DEF TypeOK, Close, CloseNotify, Join
<1>8. cpc' \in ConsumerPC
  BY <1>0, StepFrames DEF TypeOK, ConsumerPC, Consumer, Pop, FindEmpty, ConsumerSleep, JoinBatch, JoinBatchTo, StartBatch,
     LogEvent, LogEventAfter, ReachFence, PublishFence, ReachSentinel, ReachSentinelAfter, ConsumerEnd
<1>9. pc' \in [Writers -> WriterPC]
  BY <1>0, StepFrames DEF TypeOK, NotifyFence, WriterPC
<1> QED  BY <1>1, <1>2, <1>3, <1>4, <1>5, <1>6, <1>7, <1>8, <1>9 DEF TypeOK

LEMMA HandKept ==
  ASSUME IInv, Next
  PROVE  HandInv'
<1>0. TypeOK /\ HandInv
  BY DEF IInv
<1>1. prev'.count > 0 => prev'.msg \in Messages
  <2>1. /\ prev \in [msg : Messages \cup {NoMessage}, count : 0..BatchSize] /\ BatchSize \in Nat
        /\ prev.count > 0 => prev.msg \in Messages
    BY <1>0, BatchAssumption DEF TypeOK, HandInv
  <2>2. CASE JoinBatch \/ StartBatch
    <3>1. cpc = "handle" /\ ev.type = "normal" /\ ev.msg = prev.msg /\ prev'.msg = prev.msg
      BY <2>1, <2>2 DEF JoinBatch, JoinBatchTo, StartBatch, Same
    <3> QED  BY <1>0, <3>1, SingleType DEF HandInv
  <2>3. CASE LogEvent
    BY <2>3 DEF LogEvent, LogEventAfter
  <2>4. CASE prev' = [prev EXCEPT !.count = 0]
    BY <2>1, <2>4
  <2> QED  BY <2>1, <2>2, <2>3, <2>4, StepFrames
<1>2. cpc' = "handle" => ev' \in Event
  <2>1. CASE Still
    BY <1>0, <2>1 DEF Still, HandInv
  <2>2. ASSUME NEW e \in Event, Pushes(e) PROVE cpc' = "handle" => ev' \in Event
    BY <1>0, <2>2 DEF Pushes, HandInv
  <2>3. CASE Pop
    BY <1>0, <2>3 DEF Pop, TypeOK
  <2>4. CASE Counts
    BY <2>4 DEF Counts
  <2> QED  BY <2>1, <2>2, <2>3, <2>4, StepKinds
<1> QED  BY <1>1, <1>2 DEF HandInv

(* A push, of a normal event, of a fence or of the sentinel.               *)
LEMMA PushKinds ==
  ASSUME IInv, Next, queue' # queue, ~Pop
  PROVE  /\ life = "open" /\ queue \in Seq(Event)
         /\ \E e \in Event : queue' = Append(queue, e)
              /\ \/ e.type = "normal" /\ life' = life
                 \/ \E w \in Writers : PushFence(w) /\ e = Control("fence", mine[w])
                 \/ Close /\ e = Control("sentinel", serial + 1)
<1>0. TypeOK /\ EndInv
  BY DEF IInv
<1>1. queue \in Seq(Event)
  BY <1>0 DEF TypeOK
<1>2. Close \/ \E w \in Writers : PushFence(w) \/ \E m \in Messages : Write(w, m)
  BY DEF Next, Consumer, Writer, InCall, Destructor, Pop, FindEmpty, ConsumerSleep, JoinBatch, JoinBatchTo, StartBatch, LogEvent,
     LogEventAfter, ReachFence, PublishFence, ReachSentinel, ReachSentinelAfter, ConsumerEnd, ConsumerSpuriousWake,
     WriteDirect, Flush, WriteNotify, WriteReturn, TestFence, FlushSleep, FlushReturn, FlushSpuriousWake,
     WriteMode, CloseNotify, Join, Finished, vars
<1>3. CASE Close
  <2>1. queue' = Append(queue, Control("sentinel", serial + 1)) /\ life = "open"
    BY <1>3 DEF Close
  <2>2. Control("sentinel", serial + 1) \in Event
    BY <1>0, RangeAssumption DEF TypeOK, Event, Control
  <2> QED  BY <1>1, <1>3, <2>1, <2>2
<1>4. ASSUME NEW w \in Writers, NEW m \in Messages, Write(w, m)
      PROVE  life = "open" /\ \E e \in Event : queue' = Append(queue, e) /\ e.type = "normal" /\ life' = life
  <2>1. queue' = Append(queue, Normal(m)) /\ life = "open" /\ life' = life
    BY <1>4 DEF Write
  <2>2. Normal(m) \in Event /\ Normal(m).type = "normal"
    BY DEF Event, Normal
  <2> QED  BY <2>1, <2>2
<1>5. ASSUME NEW w \in Writers, PushFence(w)
      PROVE  life = "open" /\ \E e \in Event : queue' = Append(queue, e) /\ e = Control("fence", mine[w])
  <2>1. queue' = Append(queue, Control("fence", mine[w])) /\ pc[w] = "fence"
    BY <1>5 DEF PushFence
  <2>2. life = "open"
    BY <1>0, <2>1 DEF EndInv
  <2>3. Control("fence", mine[w]) \in Event
    BY <1>0, RangeAssumption DEF TypeOK, Event, Control
  <2> QED  BY <2>1, <2>2, <2>3
<1> QED  BY <1>1, <1>2, <1>3, <1>4, <1>5

(* Once the destructor runs no writer is in a call, so nothing is pushed   *)
(* behind the sentinel.                                                    *)
LEMMA EndKept ==
  ASSUME IInv, Next
  PROVE  EndInv'
<1>0. TypeOK /\ HandInv /\ EndInv
  BY DEF IInv
<1>1. queue \in Seq(Event) /\ Len(queue) \in Nat
  BY <1>0 DEF TypeOK
<1>2. life # "open" => life' # "open"
  BY StepFrames DEF Close, CloseNotify, Join
<1>3. life' # "open" => \A w \in Writers : pc'[w] = "out"
  <2>1. CASE life = "open"
    <3>1. life' # "open" => Close
      BY <2>1, StepFrames DEF CloseNotify, Join
    <3> QED  BY <3>1 DEF Close, threadVars
  <2>2. CASE life # "open"
    <3>1. \A w \in Writers : pc[w] = "out"
      BY <1>0, <2>2 DEF EndInv
    <3>2. \A w \in Writers : ~Writer(w)
      BY <2>2, <3>1 DEF Writer, Write, WriteDirect, Flush, InCall, WriteNotify, WriteReturn, PushFence, TestFence, FlushSleep,
         FlushReturn, FlushSpuriousWake
    <3>3. pc' = pc \/ NotifyFence
      BY <3>2 DEF Next, Consumer, Destructor, Pop, FindEmpty, ConsumerSleep, JoinBatch, JoinBatchTo, StartBatch, LogEvent,
         LogEventAfter, ReachFence, PublishFence, ReachSentinel, ReachSentinelAfter, ConsumerEnd, ConsumerSpuriousWake,
         WriteMode, Close, CloseNotify, Join, Finished, threadVars, vars
    <3> QED  BY <3>1, <3>3 DEF NotifyFence
  <2> QED  BY <2>1, <2>2
<1>4. \A i \in 1..Len(queue') : queue'[i].type = "sentinel" => i = Len(queue') /\ life' # "open"
  <2>1. \A i \in 1..Len(queue) : queue[i].type = "sentinel" => i = Len(queue) /\ life # "open"
    BY <1>0 DEF EndInv
  <2>2. CASE queue' = queue
    BY <1>2, <2>1, <2>2
  <2>3. CASE Pop
    <3>1. queue # <<>> /\ queue' = Tail(queue)
      BY <2>3 DEF Pop
    <3>2. Len(queue') = Len(queue) - 1 /\ \A i \in 1..Len(queue') : i + 1 \in 1..Len(queue) /\ queue'[i] = queue[i + 1]
      BY <1>1, <3>1
    <3> QED  BY <1>1, <1>2, <2>1, <3>2
  <2>4. CASE queue' # queue /\ ~Pop
    <3>1. PICK e \in Event :
            /\ queue' = Append(queue, e)
            /\ \/ e.type = "normal" /\ life' = life
               \/ \E w \in Writers : PushFence(w) /\ e = Control("fence", mine[w])
               \/ Close /\ e = Control("sentinel", serial + 1)
      BY <2>4, PushKinds
    <3>2. life = "open"
      BY <2>4, PushKinds
    <3>3. \A i \in 1..Len(queue) : queue[i].type # "sentinel"
      BY <2>1, <3>2
    <3>4. /\ Len(queue') = Len(queue) + 1 /\ queue'[Len(queue) + 1] = e
          /\ \A i \in 1..Len(queue) : queue'[i] = queue[i]
      BY <1>1, <3>1
    <3>5. e.type = "sentinel" => life' # "open"
      BY <3>1 DEF Control, Close
    <3> QED  BY <1>1, <3>3, <3>4, <3>5
  <2> QED  BY <2>2, <2>3, <2>4
<1>5. life # "open" /\ queue = <<>> => queue' = <<>>
  <2>1. ~Pop \/ queue # <<>>
    BY DEF Pop
  <2> QED  BY <2>1, PushKinds
<1>6. cpc' = "handle" /\ ev'.type = "sentinel" => queue' = <<>> /\ life' # "open"
  <2> SUFFICES ASSUME cpc' = "handle", ev'.type = "sentinel" PROVE queue' = <<>> /\ life' # "open"
    OBVIOUS
  <2>1. CASE Pop
    <3>1. queue # <<>> /\ ev' = queue[1] /\ queue' = Tail(queue) /\ 1 \in 1..Len(queue)
      BY <1>1, <2>1 DEF Pop
    <3>2. 1 = Len(queue) /\ life # "open"
      BY <1>0, <3>1 DEF EndInv
    <3> QED  BY <1>1, <1>2, <3>1, <3>2
  <2>2. CASE ~Pop
    <3>1. ev' = ev /\ cpc = "handle"
      <4>1. ev' = ev
        BY <2>2, StepFrames
      <4>2. cpc = "handle"
        BY <2>2, StepKinds DEF Still, Pushes, Counts
      <4> QED  BY <4>1, <4>2
    <3> QED  BY <1>0, <1>2, <1>5, <3>1 DEF EndInv
  <2> QED  BY <2>1, <2>2
<1>7. cpc' \in {"last", "ended"} => queue' = <<>> /\ prev'.count = 0 /\ life' # "open"
  <2>1. CASE ReachSentinel
    <3>1. cpc = "handle" /\ ev.type = "sentinel" /\ prev' = [prev EXCEPT !.count = 0] /\ queue' = queue
      BY <2>1 DEF ReachSentinel, ReachSentinelAfter
    <3>2. prev'.count = 0
      BY <1>0, <3>1 DEF TypeOK
    <3> QED  BY <1>0, <1>2, <3>1, <3>2 DEF EndInv
  <2>2. CASE cpc \in {"last", "ended"}
    <3>1. queue = <<>> /\ prev.count = 0 /\ life # "open"
      BY <1>0, <2>2 DEF EndInv
    <3>2. [prev EXCEPT !.count = 0] = prev
      BY <1>0, <3>1 DEF TypeOK
    <3>3. prev' = prev
      BY <2>2, <3>2, StepFrames DEF JoinBatch, JoinBatchTo, StartBatch, LogEvent, LogEventAfter
    <3> QED  BY <1>2, <1>5, <3>1, <3>3
  <2>3. CASE ~ReachSentinel /\ cpc \notin {"last", "ended"}
    <3>1. cpc' \notin {"last", "ended"}
      BY <2>3, StepFrames DEF Consumer, Pop, FindEmpty, ConsumerSleep, JoinBatch, JoinBatchTo, StartBatch,
         LogEvent, LogEventAfter, ReachFence, PublishFence, ConsumerEnd
    <3> QED  BY <3>1
  <2> QED  BY <2>1, <2>2, <2>3
<1>8. life' = "gone" => cpc' = "ended"
  <2>1. cpc = "ended" => cpc' = "ended"
    BY StepKinds DEF Next, Consumer, Writer, InCall, Destructor, Pop, FindEmpty, ConsumerSleep, JoinBatch, JoinBatchTo, StartBatch, LogEvent,
     LogEventAfter, ReachFence, PublishFence, ReachSentinel, ReachSentinelAfter, ConsumerEnd, ConsumerSpuriousWake,
     Write, WriteDirect, Flush, WriteNotify, WriteReturn, PushFence, TestFence, FlushSleep, FlushReturn, FlushSpuriousWake,
     WriteMode, Close, CloseNotify, Join, Finished, consumerVars, threadVars, vars, NotifyQueue
  <2>2. life' = "gone" => life = "gone" \/ Join
    BY StepFrames DEF Close, CloseNotify
  <2>3. Join => cpc = "ended"
    BY DEF Join
  <2> QED  BY <1>0, <2>1, <2>2, <2>3 DEF EndInv
<1> QED  BY <1>3, <1>4, <1>6, <1>7, <1>8 DEF EndInv

(* The messages that are out before an event of the queue is: those out,   *)
(* held back and in hand, and those ahead of it.                           *)
Ahead(i) == Len(output) + prev.count + Len(Payload(InHand)) + Len(Payload(SubSeq(queue, 1, i)))

(* A writer between the draw of its fence and the end of its wait.         *)
Waits(w) == pc[w] \in {"fence", "test", "sleep", "asleep"}

(* A fence lets those through whose fence was drawn before it; what was    *)
(* pushed before they called is ahead of it.                               *)
BarrierInv ==
  /\ life = "open" => serial <= MaxFences
  /\ \A w \in Writers : mine[w] <= serial /\ due[w] <= Len(history)
  /\ life = "open" => fence <= serial
  /\ \A w \in Writers : (Waits(w) /\ mine[w] <= fence) \/ pc[w] = "flushed" => due[w] <= Len(output)
  /\ cpc = "handle" /\ ev.type = "fence" =>
       /\ ev.id <= serial
       /\ \A w \in Writers : Waits(w) /\ mine[w] <= ev.id => due[w] <= Len(output) + prev.count
  /\ \A i \in 1..Len(queue) : queue[i].type = "fence" =>
       /\ queue[i].id <= serial
       /\ \A w \in Writers : Waits(w) /\ mine[w] <= queue[i].id => due[w] <= Ahead(i)

(* Fewer fences than there are numbers for them: none is used twice.       *)
Few == MaxFences \in Nat /\ MaxFences < FenceRange

LEMMA PlainMod ==
  ASSUME NEW n \in Nat, NEW m \in Nat, n < m
  PROVE  n % m = n
  OBVIOUS

(* How many messages there are.                                            *)
LEMMA Lengths ==
  ASSUME IInv
  PROVE  /\ Len(output) \in Nat /\ prev.count \in Nat /\ Len(history) \in Nat /\ Len(queue) \in Nat
         /\ Len(Payload(InHand)) \in Nat
         /\ Len(output \o Held) = Len(output) + prev.count
         /\ \A i \in 1..Len(queue) : Len(Payload(SubSeq(queue, 1, i))) \in Nat /\ SubSeq(queue, 1, i) \in Seq(Event)
         /\ \A i \in 1..Len(queue) : Ahead(i) \in Nat
         /\ Len(queue) > 0 => Ahead(Len(queue)) = Len(history)
<1>0. TypeOK /\ HandInv /\ InOrder
  BY DEF IInv
<1>1. /\ output \in Seq(Messages) /\ history \in Seq(Messages) /\ queue \in Seq(Event) /\ Len(queue) \in Nat
      /\ Payload(InHand) \in Seq(Messages) /\ Payload(queue) \in Seq(Messages)
      /\ output \o Held \in Seq(Messages) /\ Len(output \o Held) = Len(output) + prev.count /\ prev.count \in Nat
  BY <1>0, HeldType, RestType DEF TypeOK
<1>2. \A i \in 1..Len(queue) : SubSeq(queue, 1, i) \in Seq(Event)
  BY <1>1
<1>3. \A i \in 1..Len(queue) : Len(Payload(SubSeq(queue, 1, i))) \in Nat
  BY <1>2, PayloadType
<1>4. Len(output) \in Nat /\ Len(history) \in Nat /\ Len(Payload(InHand)) \in Nat /\ Len(Payload(queue)) \in Nat
  BY <1>1
<1>5. Len(history) = Len(output) + prev.count + Len(Payload(InHand)) + Len(Payload(queue))
  <2> DEFINE out == output \o Held
             hand == Payload(InHand)
             rest == Payload(queue)
  <2>1. (out \o hand) \o rest = history
    BY <1>0 DEF InOrder
  <2>2. out \in Seq(Messages) /\ hand \in Seq(Messages) /\ rest \in Seq(Messages) /\ Len(out) = Len(output) + prev.count
    BY <1>1
  <2> HIDE DEF out, hand, rest
  <2>3. Len(history) = Len(out) + Len(hand) + Len(rest)
    BY <2>1, <2>2
  <2> QED  BY <2>2, <2>3 DEF hand, rest
<1>6. SubSeq(queue, 1, Len(queue)) = queue
  BY <1>1, SubSeqFull
<1>7. Ahead(Len(queue)) = Len(history)
  BY <1>5, <1>6 DEF Ahead
<1>8. \A i \in 1..Len(queue) : Ahead(i) \in Nat
  BY <1>1, <1>3, <1>4 DEF Ahead
<1> QED  BY <1>1, <1>2, <1>3, <1>4, <1>7, <1>8

(* A step in which the event in hand is not put down, nor another taken.   *)
LEMMA StillAhead ==
  ASSUME Still, NEW i
  PROVE  Ahead(i)' = Ahead(i)
<1>1. InHand' = InHand
  BY DEF Still, InHand
<1> QED  BY <1>1 DEF Still, Ahead

(* What is ahead of an event that is pushed is all that was pushed.        *)
LEMMA PushAhead ==
  ASSUME IInv, NEW e \in Event, Pushes(e), NEW i \in 1..Len(queue)
  PROVE  Ahead(i)' = Ahead(i)
<1>1. InHand' = InHand /\ output' = output /\ prev' = prev
  BY DEF Pushes, InHand
<1>2. queue \in Seq(Event) /\ queue' = queue \o <<e>>
  BY AppendIsConcat DEF IInv, TypeOK, Pushes
<1>3. SubSeq(queue', 1, i) = SubSeq(queue, 1, i)
  <2>1. <<e>> \in Seq(Event) /\ 1 \in 1..Len(queue) /\ i \in 1..Len(queue)
    BY <1>2
  <2> QED  BY <1>2, <2>1, SubSeqOfConcat1
<1> QED  BY <1>1, <1>3 DEF Ahead

(* The counts of Lengths, to be used of the state after a step.            *)
Sized == Len(output \o Held) = Len(output) + prev.count /\ Len(output) \in Nat /\ prev.count \in Nat

LEMMA AlwaysSized == IInv => Sized
  BY Lengths DEF Sized

(* A counted event is held back instead of in hand.                        *)
LEMMA CountAhead ==
  ASSUME IInv, IInv', Counts, NEW i
  PROVE  Ahead(i)' = Ahead(i)
<1>1. /\ queue' = queue /\ Payload(InHand') = <<>> /\ Payload(InHand) = Single(ev)
      /\ output' \o Held' = (output \o Held) \o Single(ev)
  BY PayloadEmpty, RestType DEF Counts, InHand, IInv
<1>2. Len(output \o Held) = Len(output) + prev.count /\ output \o Held \in Seq(Messages) /\ Single(ev) \in Seq(Messages)
      /\ Len(output) \in Nat /\ prev.count \in Nat
  BY <1>1, HeldType, RestType, Lengths DEF IInv
<1>3. Len(output' \o Held') = Len(output') + prev'.count /\ Len(output') \in Nat /\ prev'.count \in Nat
  <2>1. (IInv => Sized)'
    BY AlwaysSized, PTL
  <2> QED  BY <2>1 DEF Sized
<1> DEFINE out == output \o Held
<1> HIDE DEF out
<1>4. Len(out \o Single(ev)) = Len(out) + Len(Single(ev)) /\ Len(Single(ev)) \in Nat
  BY <1>2 DEF out
<1>5. Len(output') + prev'.count = Len(output) + prev.count + Len(Single(ev))
  BY <1>1, <1>2, <1>3, <1>4 DEF out
<1>6. Len(Payload(InHand')) = 0
  BY <1>1
<1>7. Len(output') + prev'.count + Len(Payload(InHand')) = Len(output) + prev.count + Len(Payload(InHand))
  BY <1>1, <1>2, <1>3, <1>4, <1>5, <1>6
<1> QED  BY <1>1, <1>7 DEF Ahead

(* Pop takes the first event in hand: the others stay as far behind.       *)
LEMMA PopAhead ==
  ASSUME IInv, Pop
  PROVE  /\ \A i \in 1..Len(queue') : i + 1 \in 1..Len(queue) /\ queue'[i] = queue[i + 1] /\ Ahead(i)' = Ahead(i + 1)
         /\ 1 \in 1..Len(queue) /\ ev' = queue[1]
         /\ ev'.type = "fence" => Ahead(1) = Len(output) + prev.count
<1>1. /\ cpc = "test" /\ queue # <<>> /\ ev' = Head(queue) /\ queue' = Tail(queue) /\ cpc' = "handle"
      /\ UNCHANGED <<prev, output>>
  BY DEF Pop
<1>2. queue \in Seq(Event) /\ TypeOK /\ HandInv
  BY DEF IInv, TypeOK
<1> DEFINE h == Head(queue)
<1>3. /\ h \in Event /\ h = queue[1] /\ 1 \in 1..Len(queue) /\ Len(queue) \in Nat /\ queue' \in Seq(Event)
      /\ Len(queue') = Len(queue) - 1
      /\ \A i \in 1..Len(queue') : i + 1 \in 1..Len(queue) /\ queue'[i] = queue[i + 1]
  BY <1>1, <1>2
<1>4. Payload(InHand) = <<>> /\ InHand' = <<h>> /\ Payload(InHand') = Single(h) /\ Single(h) \in Seq(Messages)
  BY <1>1, <1>2, <1>3, RestType, SingleType DEF InHand
<1>5. Len(output) \in Nat /\ prev.count \in Nat
  BY Lengths
<1> HIDE DEF h
<1>6. ASSUME NEW i \in 1..Len(queue') PROVE Ahead(i)' = Ahead(i + 1)
  <2>1. SubSeq(queue, 1, i + 1) = <<h>> \o SubSeq(queue', 1, i)
    <3>1. 1 \in 1..Len(queue) /\ i + 1 \in 1..Len(queue)
      BY <1>3
    <3>2. SubSeq(queue, 1, i + 1) = <<queue[1]>> \o SubSeq(queue, 2, i + 1)
      BY <1>2, <3>1, SubSeqRecursiveFirst
    <3>3. SubSeq(queue, 2, i + 1) = SubSeq(queue', 1, i)
      BY <1>1, <1>2, <1>3
    <3> QED  BY <1>3, <3>2, <3>3
  <2>2. SubSeq(queue', 1, i) \in Seq(Event)
    BY <1>3
  <2>3. Payload(SubSeq(queue, 1, i + 1)) = Single(h) \o Payload(SubSeq(queue', 1, i))
        /\ Payload(SubSeq(queue', 1, i)) \in Seq(Messages)
    BY <1>3, <2>1, <2>2, PayloadCons, PayloadType
  <2> DEFINE p == Payload(SubSeq(queue', 1, i))
             s == Single(h)
  <2> HIDE DEF p, s
  <2>4. s \in Seq(Messages) /\ p \in Seq(Messages)
    BY <1>4, <2>3 DEF p, s
  <2>5. Len(s \o p) = Len(s) + Len(p) /\ Len(s) \in Nat /\ Len(p) \in Nat
    BY <2>4
  <2>6. Len(Payload(InHand)) = 0
    BY <1>4
  <2>7. Ahead(i + 1) = Len(output) + prev.count + 0 + (Len(s) + Len(p))
    BY <2>3, <2>5, <2>6 DEF Ahead, p, s
  <2>8. Ahead(i)' = Len(output) + prev.count + Len(s) + Len(p)
    BY <1>1, <1>4 DEF Ahead, p, s
  <2> QED  BY <1>5, <2>5, <2>7, <2>8
<1>7. ASSUME h.type = "fence" PROVE Ahead(1) = Len(output) + prev.count
  <2>1. SubSeq(queue, 1, 1) = <<h>>
    <3> DEFINE s == SubSeq(queue, 1, 1)
    <3>1. s \in Seq(Event) /\ Len(s) = 1 /\ s[1] = queue[1]
      BY <1>2, <1>3
    <3> HIDE DEF s
    <3>2. s = <<queue[1]>>
      BY <3>1
    <3> QED  BY <1>3, <3>2 DEF s
  <2>2. Payload(SubSeq(queue, 1, 1)) = <<>>
    BY <1>3, <1>7, <2>1, SingleType
  <2> QED  BY <1>4, <1>5, <2>2 DEF Ahead
<1> QED  BY <1>1, <1>3, <1>6, <1>7 DEF h

(* Behind the last event of the queue is nothing that was pushed.          *)
Counted ==
  /\ Len(output) \in Nat /\ prev.count \in Nat /\ Len(history) \in Nat /\ Len(queue) \in Nat
  /\ \A i \in 1..Len(queue) : i = Len(queue) => Ahead(i) = Len(history)

LEMMA AlwaysCounted == IInv => Counted
  BY Lengths DEF Counted

LEMMA IdType ==
  ASSUME NEW e \in Event, e.type = "fence"
  PROVE  e.id \in Nat
<1>1. e.id \in 0..(FenceRange - 1)
  BY SingleType
<1> QED  BY <1>1, RangeAssumption

(* What a step does to a writer that waits for a fence, or got through.    *)
LEMMA WaitSteps ==
  ASSUME IInv, Next, \A v \in Writers : ~Flush(v), NEW w \in Writers
  PROVE  /\ mine' = mine /\ due' = due
         /\ Waits(w)' => Waits(w)
         /\ pc'[w] = "flushed" => pc[w] = "flushed" \/ (Waits(w) /\ mine[w] <= fence /\ fence' = fence)
<1>0. pc \in [Writers -> WriterPC]
  BY DEF IInv, TypeOK
<1>1. mine' = mine /\ due' = due
  BY StepFrames
<1>2. CASE pc' = pc
  BY <1>1, <1>2 DEF Waits
<1>3. CASE NotifyFence
  <2>1. pc'[w] = IF pc[w] = "asleep" THEN "test" ELSE pc[w]
    BY <1>3 DEF NotifyFence
  <2> QED  BY <1>1, <2>1 DEF Waits
<1>4. ASSUME NEW v \in Writers, Writer(v)
      PROVE  /\ Waits(w)' => Waits(w)
             /\ pc'[w] = "flushed" => pc[w] = "flushed" \/ (Waits(w) /\ mine[w] <= fence /\ fence' = fence)
  <2>1. CASE TestFence(v)
    <3>1. pc[v] = "test" /\ fence' = fence /\ pc' = [pc EXCEPT ![v] = IF fence >= mine[v] THEN "flushed" ELSE "sleep"]
      BY <2>1 DEF TestFence
    <3>2. fence >= mine[v] => mine[v] <= fence
      BY DEF IInv, TypeOK
    <3> QED  BY <1>0, <3>1, <3>2 DEF Waits
  <2>2. CASE (\E m \in Messages : Write(v, m)) \/ WriteNotify(v) \/ WriteDirect(v) \/ WriteReturn(v) \/ FlushReturn(v)
    BY <1>0, <2>2 DEF Write, WriteNotify, WriteDirect, WriteReturn, FlushReturn, Waits
  <2>3. CASE PushFence(v) \/ FlushSleep(v) \/ FlushSpuriousWake(v)
    BY <1>0, <2>3 DEF PushFence, FlushSleep, FlushSpuriousWake, Waits
  <2> QED  BY <1>4, <2>1, <2>2, <2>3 DEF Writer, InCall
<1>5. pc' = pc \/ NotifyFence \/ \E v \in Writers : Writer(v)
  BY DEF Next, Consumer, Destructor, Pop, FindEmpty, ConsumerSleep, JoinBatch, JoinBatchTo, StartBatch, LogEvent,
     LogEventAfter, ReachFence, PublishFence, ReachSentinel, ReachSentinelAfter, ConsumerEnd, ConsumerSpuriousWake,
     WriteMode, Close, CloseNotify, Join, Finished, threadVars, vars
<1> QED  BY <1>1, <1>2, <1>3, <1>4, <1>5

(* A call of Flush draws a number that is above every fence drawn so far.  *)
LEMMA FlushKeeps ==
  ASSUME IInv, Few, BarrierInv, NEW w \in Writers, Flush(w)
  PROVE  BarrierInv'
<1>1. /\ life = "open" /\ pc[w] = "out" /\ serial < MaxFences /\ serial' = serial + 1
      /\ mine' = [mine EXCEPT ![w] = serial' % FenceRange] /\ due' = [due EXCEPT ![w] = Len(history)]
      /\ pc' = [pc EXCEPT ![w] = "fence"]
      /\ UNCHANGED <<queue, fence, life, history, cpc, ev, prev, output>>
  BY DEF Flush, consumerVars
<1>2. /\ serial \in Nat /\ mine \in [Writers -> 0..(FenceRange - 1)] /\ due \in [Writers -> Nat]
      /\ pc \in [Writers -> WriterPC] /\ fence \in 0..(FenceRange - 1) /\ Len(history) \in Nat /\ Len(queue) \in Nat
  BY DEF IInv, TypeOK
<1>3. serial + 1 \in Nat /\ serial + 1 <= MaxFences /\ serial + 1 < FenceRange /\ FenceRange \in Nat
  BY <1>1, <1>2, RangeAssumption DEF Few
<1>4. mine'[w] = serial + 1 /\ due'[w] = Len(history) /\ pc'[w] = "fence"
  BY <1>1, <1>2, <1>3, PlainMod
<1>5. \A v \in Writers : v # w => mine'[v] = mine[v] /\ due'[v] = due[v] /\ pc'[v] = pc[v] /\ Waits(v)' = Waits(v)
  BY <1>1, <1>2 DEF Waits
<1>6. \A v \in Writers : mine'[v] <= serial' /\ due'[v] <= Len(history')
  BY <1>1, <1>2, <1>4, <1>5 DEF BarrierInv
<1>7. fence <= serial
  BY <1>1 DEF BarrierInv
<1>8. \A v \in Writers : (Waits(v)' /\ mine'[v] <= fence') \/ pc'[v] = "flushed" => due'[v] <= Len(output')
  <2>1. ~(mine'[w] <= fence') /\ pc'[w] # "flushed"
    BY <1>1, <1>2, <1>4, <1>7
  <2> QED  BY <1>1, <1>5, <2>1 DEF BarrierInv
<1>9. cpc' = "handle" /\ ev'.type = "fence" =>
        /\ ev'.id <= serial'
        /\ \A v \in Writers : Waits(v)' /\ mine'[v] <= ev'.id => due'[v] <= Len(output') + prev'.count
  <2> SUFFICES ASSUME cpc = "handle", ev.type = "fence"
               PROVE  /\ ev.id <= serial + 1
                      /\ \A v \in Writers : Waits(v)' /\ mine'[v] <= ev.id => due'[v] <= Len(output) + prev.count
    BY <1>1
  <2>1. ev.id \in Nat /\ ev.id <= serial
    BY IdType DEF BarrierInv, IInv, HandInv
  <2>2. ~(mine'[w] <= ev.id)
    BY <1>2, <1>4, <2>1
  <2>3. ev.id <= serial + 1
    BY <1>2, <2>1
  <2>4. \A v \in Writers : v # w /\ Waits(v)' /\ mine'[v] <= ev.id => due'[v] <= Len(output) + prev.count
    BY <1>5 DEF BarrierInv
  <2> QED  BY <2>2, <2>3, <2>4
<1>10. \A i \in 1..Len(queue') : queue'[i].type = "fence" =>
         /\ queue'[i].id <= serial'
         /\ \A v \in Writers : Waits(v)' /\ mine'[v] <= queue'[i].id => due'[v] <= Ahead(i)'
  <2> SUFFICES ASSUME NEW i \in 1..Len(queue), queue[i].type = "fence"
               PROVE  /\ queue[i].id <= serial + 1
                      /\ \A v \in Writers : Waits(v)' /\ mine'[v] <= queue[i].id => due'[v] <= Ahead(i)'
    BY <1>1
  <2>1. queue[i] \in Event
    BY DEF IInv, TypeOK
  <2>2. queue[i].id \in Nat /\ queue[i].id <= serial
    BY <2>1, IdType DEF BarrierInv
  <2>3. ~(mine'[w] <= queue[i].id)
    BY <1>2, <1>4, <2>2
  <2>4. Ahead(i)' = Ahead(i)
    BY <1>1, StillAhead DEF Still
  <2>5. queue[i].id <= serial + 1
    BY <1>2, <2>2
  <2>6. \A v \in Writers : v # w /\ Waits(v)' /\ mine'[v] <= queue[i].id => due'[v] <= Ahead(i)'
    BY <1>5, <2>4 DEF BarrierInv
  <2> QED  BY <2>3, <2>5, <2>6
<1>11. life' = "open" => serial' <= MaxFences /\ fence' <= serial'
  BY <1>1, <1>2, <1>3, <1>7
<1> QED  BY <1>6, <1>8, <1>9, <1>10, <1>11 DEF BarrierInv

(* The steps of the others, and of the consumer that publishes a fence.    *)
LEMMA BarrierKept ==
  ASSUME IInv, IInv', Few, BarrierInv, Next
  PROVE  BarrierInv'
<1>1. CASE \E w \in Writers : Flush(w)
  BY <1>1, FlushKeeps
<1>2. CASE \A w \in Writers : ~Flush(w)
  <2>1. \A w \in Writers :
          /\ Waits(w)' => Waits(w)
          /\ pc'[w] = "flushed" => pc[w] = "flushed" \/ (Waits(w) /\ mine[w] <= fence /\ fence' = fence)
    BY <1>2, WaitSteps
  <2>2. mine' = mine /\ due' = due
    BY <1>2, StepFrames
  <2>3. /\ serial \in Nat /\ mine \in [Writers -> 0..(FenceRange - 1)] /\ due \in [Writers -> Nat]
        /\ fence \in 0..(FenceRange - 1) /\ queue \in Seq(Event) /\ MaxFences \in Nat
        /\ Len(output) \in Nat /\ prev.count \in Nat /\ Len(history) \in Nat /\ Len(queue) \in Nat
    BY Lengths DEF IInv, TypeOK, Few
  <2>4. serial' >= serial /\ serial' \in Nat
    BY <1>2, <2>3, StepFrames DEF Close
  <2>5. Counted'
    <3>1. (IInv => Counted)'
      BY AlwaysCounted, PTL
    <3> QED  BY <3>1
  <2>6. Len(history') >= Len(history)
    <3>1. ASSUME NEW e \in Event, Pushes(e) PROVE Len(history') >= Len(history)
      <4>1. history' = history \o Single(e) /\ history \in Seq(Messages) /\ Single(e) \in Seq(Messages)
        BY <3>1, SingleType DEF Pushes, IInv, TypeOK
      <4> QED  BY <4>1
    <3> QED  BY <2>3, <3>1, StepKinds DEF Still, Pop, Counts
  <2>7. Len(output') >= Len(output)
    <3>1. Len(output \o Held) = Len(output) + prev.count /\ output \o Held \in Seq(Messages)
      BY Lengths, HeldType DEF IInv
    <3>2. LogEvent => output' = (output \o Held) \o <<ev.msg>>
      BY DEF LogEvent, LogEventAfter
    <3>3. \A a \in Seq(Messages) : \A x : Len(a \o <<x>>) = Len(a) + 1
      OBVIOUS
    <3>4. LogEvent => Len(output') = Len(output) + prev.count + 1
      BY <3>1, <3>2, <3>3
    <3> QED  BY <2>3, <3>1, <3>4, StepFrames
  <2>8. life' = "open" => life = "open"
    BY StepFrames DEF Close, CloseNotify, Join
  <2>9. ReachSentinel => life' # "open"
    BY <2>8 DEF ReachSentinel, ReachSentinelAfter, IInv, EndInv
  <2>10. \A w \in Writers : life' # "open" => ~Waits(w)' /\ pc'[w] # "flushed"
    BY DEF IInv, EndInv, Waits
  <2>11. ReachFence => /\ cpc = "handle" /\ ev.type = "fence" /\ fence' = ev.id /\ Len(output') = Len(output) + prev.count
                       /\ ev.id \in Nat
    <3>1. Len(output \o Held) = Len(output) + prev.count
      BY Lengths
    <3> QED  BY <3>1, IdType DEF ReachFence, IInv, HandInv
  <2>12. life' = "open" => serial' <= MaxFences /\ fence' <= serial'
    <3> SUFFICES ASSUME life' = "open" PROVE serial' <= MaxFences /\ fence' <= serial'
      OBVIOUS
    <3>1. ~Close /\ life = "open" /\ ~ReachSentinel
      BY <2>8, <2>9 DEF Close
    <3>2. serial' = serial
      BY <1>2, <3>1, StepFrames
    <3>3. fence' = fence \/ (fence' = ev.id /\ ev.id <= serial)
      BY <2>11, <3>1, StepFrames DEF BarrierInv
    <3> QED  BY <3>1, <3>2, <3>3 DEF BarrierInv
  <2>13. \A w \in Writers : mine'[w] <= serial' /\ due'[w] <= Len(history')
    BY <2>2, <2>3, <2>4, <2>5, <2>6 DEF BarrierInv, Counted
  <2>14. ASSUME NEW w \in Writers, (Waits(w)' /\ mine'[w] <= fence') \/ pc'[w] = "flushed"
         PROVE  due'[w] <= Len(output')
    <3>1. due[w] \in Nat /\ mine[w] \in Nat /\ Len(output') \in Nat /\ due'[w] = due[w]
      BY <2>2, <2>3, <2>5, RangeAssumption DEF Counted
    <3>2. CASE fence' = fence
      <4>1. due[w] <= Len(output)
        BY <2>1, <2>2, <2>14, <3>2 DEF BarrierInv
      <4> QED  BY <2>3, <2>7, <3>1, <4>1
    <3>3. CASE ReachFence
      <4>1. pc'[w] # "flushed" \/ pc[w] = "flushed"
        BY <3>3 DEF ReachFence, threadVars
      <4>2. CASE pc[w] = "flushed"
        <5>1. due[w] <= Len(output)
          BY <4>2 DEF BarrierInv
        <5> QED  BY <2>3, <2>7, <3>1, <5>1
      <4>3. CASE Waits(w)' /\ mine'[w] <= fence'
        BY <2>1, <2>2, <2>11, <3>1, <3>3, <4>3 DEF BarrierInv
      <4> QED  BY <2>14, <4>1, <4>2, <4>3
    <3>4. CASE ReachSentinel
      BY <2>9, <2>10, <2>14, <3>4
    <3> QED  BY <3>2, <3>3, <3>4, StepFrames
  <2>15. ASSUME cpc' = "handle", ev'.type = "fence"
         PROVE  /\ ev'.id <= serial'
                /\ \A w \in Writers : Waits(w)' /\ mine'[w] <= ev'.id => due'[w] <= Len(output') + prev'.count
    <3>1. CASE Pop
      <4>1. /\ 1 \in 1..Len(queue) /\ ev' = queue[1] /\ Ahead(1) = Len(output) + prev.count
            /\ output' = output /\ prev' = prev /\ queue[1].type = "fence"
        BY <2>15, <3>1, PopAhead DEF Pop
      <4>2. queue[1].id \in Nat /\ queue[1].id <= serial
        BY <2>3, <4>1, IdType DEF BarrierInv
      <4> QED  BY <2>1, <2>2, <2>3, <2>4, <4>1, <4>2 DEF BarrierInv
    <3>2. CASE ~Pop
      <4>1. ev' = ev /\ cpc = "handle" /\ output' = output /\ prev' = prev
        <5>1. ev' = ev
          BY <3>2, StepFrames
        <5>2. Still \/ \E e \in Event : Pushes(e)
          BY <2>15, <3>2, StepKinds DEF Counts
        <5> QED  BY <2>15, <5>1, <5>2 DEF Still, Pushes
      <4>2. ev.id \in Nat /\ ev.id <= serial
        BY <2>15, <4>1, IdType DEF BarrierInv, IInv, HandInv
      <4> QED  BY <2>1, <2>2, <2>3, <2>4, <2>15, <4>1, <4>2 DEF BarrierInv
    <3> QED  BY <3>1, <3>2
  <2>16. ASSUME NEW i \in 1..Len(queue'), queue'[i].type = "fence"
         PROVE  /\ queue'[i].id <= serial'
                /\ \A w \in Writers : Waits(w)' /\ mine'[w] <= queue'[i].id => due'[w] <= Ahead(i)'
    <3>1. ASSUME NEW j \in 1..Len(queue), queue'[i] = queue[j], Ahead(i)' = Ahead(j)
          PROVE  /\ queue'[i].id <= serial'
                 /\ \A w \in Writers : Waits(w)' /\ mine'[w] <= queue'[i].id => due'[w] <= Ahead(i)'
      <4>1. queue[j].id \in Nat /\ queue[j].id <= serial
        BY <2>3, <2>16, <3>1, IdType DEF BarrierInv
      <4> QED  BY <2>1, <2>2, <2>3, <2>4, <2>16, <3>1, <4>1 DEF BarrierInv
    <3>2. CASE Still
      BY <2>16, <3>1, <3>2, StillAhead DEF Still
    <3>3. CASE Counts
      BY <2>16, <3>1, <3>3, CountAhead DEF Counts
    <3>4. CASE Pop
      BY <3>1, <3>4, PopAhead
    <3>5. ASSUME NEW e \in Event, Pushes(e)
          PROVE  /\ queue'[i].id <= serial'
                 /\ \A w \in Writers : Waits(w)' /\ mine'[w] <= queue'[i].id => due'[w] <= Ahead(i)'
      <4>1. queue' = Append(queue, e) /\ Len(queue') = Len(queue) + 1 /\ queue'[Len(queue) + 1] = e
            /\ \A j \in 1..Len(queue) : queue'[j] = queue[j]
        BY <2>3, <3>5 DEF Pushes
      <4>2. CASE i \in 1..Len(queue)
        BY <3>1, <3>5, <4>1, <4>2, PushAhead
      <4>3. CASE i = Len(queue')
        <5>1. Ahead(i)' = Len(history') /\ Len(history') \in Nat
          BY <2>5, <4>3 DEF Counted
        <5>2. \E w \in Writers : queue'[i].id = mine[w]
          <6>1. queue' # queue /\ ~Pop
            <7>1. queue' # queue
              BY <2>3, <4>1
            <7>2. Pop => Len(queue') = Len(queue) - 1
              BY <2>3 DEF Pop
            <7> QED  BY <2>3, <4>1, <7>1, <7>2
          <6>2. PICK x \in Event : 
                  /\ queue' = Append(queue, x)
                  /\ \/ x.type = "normal" /\ life' = life
                     \/ \E w \in Writers : PushFence(w) /\ x = Control("fence", mine[w])
                     \/ Close /\ x = Control("sentinel", serial + 1)
            BY <6>1, PushKinds
          <6>3. queue'[i] = x
            BY <2>3, <4>1, <4>3, <6>2
          <6>4. PICK w \in Writers : x = Control("fence", mine[w])
            BY <2>16, <6>2, <6>3 DEF Control
          <6>5. mine[w] % FenceRange = mine[w]
            <7>1. mine[w] \in Nat /\ FenceRange \in Nat /\ mine[w] < FenceRange
              BY <2>3, RangeAssumption
            <7> QED  BY <7>1, PlainMod
          <6> QED  BY <6>3, <6>4, <6>5 DEF Control
        <5>3. queue'[i].id <= serial /\ queue'[i].id \in Nat
          BY <2>3, <5>2, RangeAssumption DEF BarrierInv
        <5> QED  BY <2>2, <2>3, <2>4, <2>13, <5>1, <5>3
      <4> QED  BY <2>3, <2>16, <4>1, <4>2, <4>3
    <3> QED  BY <3>2, <3>3, <3>4, <3>5, StepKinds
  <2> QED  BY <2>12, <2>13, <2>14, <2>15, <2>16 DEF BarrierInv
<1> QED  BY <1>1, <1>2

-----------------------------------------------------------------------------
LEMMA InitIsOrdered == Init => IInv
<1> SUFFICES ASSUME Init PROVE IInv
  OBVIOUS
<1>1. /\ queue = <<>> /\ fence = 0 /\ serial = 0 /\ cpc = "test" /\ ev = Normal(NoMessage)
      /\ prev = [msg |-> NoMessage, count |-> 0] /\ life = "open" /\ output = <<>> /\ history = <<>>
      /\ pc = [w \in Writers |-> "out"] /\ mine = [w \in Writers |-> 0] /\ due = [w \in Writers |-> 0]
      /\ mode \in {"async", "immediate"}
  BY DEF Init
<1>2. 0 \in 0..(FenceRange - 1) /\ 0 \in 0..BatchSize
  BY RangeAssumption, BatchAssumption
<1>3. queue \in Seq(Event) /\ output \in Seq(Messages) /\ history \in Seq(Messages) /\ Len(queue) = 0
  BY <1>1, EmptySeq
<1>4. TypeOK
  BY <1>1, <1>2, <1>3 DEF TypeOK, ConsumerPC, WriterPC
<1>5. HandInv /\ EndInv
  BY <1>1, <1>3 DEF HandInv, EndInv
<1>6. InOrder
  <2>1. Held = <<>> /\ Payload(InHand) = <<>> /\ Payload(queue) = <<>>
    BY <1>1, PayloadEmpty DEF Held, InHand
  <2>2. <<>> \o <<>> = <<>>
    OBVIOUS
  <2> QED  BY <1>1, <2>1, <2>2 DEF InOrder
<1> QED  BY <1>4, <1>5, <1>6 DEF IInv

LEMMA OrderedKept == IInv /\ [Next]_vars => IInv'
<1> SUFFICES ASSUME IInv, [Next]_vars PROVE IInv'
  OBVIOUS
<1>1. CASE Next
  BY <1>1, TypeKept, HandKept, EndKept, OrderKept DEF IInv
<1>2. CASE UNCHANGED vars
  <2>1. UNCHANGED <<mode, queue, fence, serial, life, history, pc, mine, due, cpc, ev, prev, output>>
    BY <1>2 DEF vars, threadVars, consumerVars
  <2>2. Held' = Held /\ InHand' = InHand
    BY <2>1 DEF Held, InHand
  <2> QED  BY <2>1, <2>2 DEF IInv, TypeOK, HandInv, EndInv, InOrder
<1> QED  BY <1>1, <1>2

(* Of any number of writers, at any length of the queue: nothing that was  *)
(* pushed is lost, doubled or reordered on its way through the queue, the  *)
(* hand of the consumer and its batch (Enqueue, Pop, the consumer thread). *)
THEOREM Invariance == Spec => []IInv
  BY InitIsOrdered, OrderedKept, PTL DEF Spec

(* Type correctness: the fence numbers stay in their 16 bits, and what the *)
(* consumer holds and has put out are messages and counts of them.         *)
THEOREM TypesKept == Spec => []TypeOK
<1>1. IInv => TypeOK
  BY DEF IInv
<1> QED  BY <1>1, Invariance, PTL

(* The output, the batch that is held back, the event in hand and the      *)
(* queue are together the history, in its order (Enqueue and the batching  *)
(* of the consumer thread).                                                *)
THEOREM NothingReordered == Spec => []InOrder
<1>1. IInv => InOrder
  BY DEF IInv
<1> QED  BY <1>1, Invariance, PTL

(* When the destructor has joined the consumer all that was pushed is out  *)
(* (~Context, the sentinel).                                               *)
THEOREM DestructorDrains == Spec => []DrainedAtEnd
<1>1. IInv => DrainedAtEnd
  <2> SUFFICES ASSUME IInv, life = "gone" PROVE output = history
    BY DEF DrainedAtEnd
  <2>1. cpc = "ended" /\ queue = <<>> /\ prev.count = 0 /\ output \in Seq(Messages)
    BY DEF IInv, EndInv, TypeOK
  <2>2. Held = <<>> /\ Payload(InHand) = <<>> /\ Payload(queue) = <<>>
    BY <2>1, PayloadEmpty DEF Held, InHand
  <2>3. output \o <<>> = output
    BY <2>1, ConcatEmptySeq
  <2> QED  BY <2>2, <2>3 DEF IInv, InOrder
<1> QED  BY <1>1, Invariance, PTL

(* While no number is drawn twice each fence of the queue has ahead of it  *)
(* what its writer waits for.                                              *)
THEOREM BarrierInvariance == Spec => [](Few => BarrierInv)
<1>1. Init => (Few => BarrierInv)
  <2> SUFFICES ASSUME Init, Few PROVE BarrierInv
    OBVIOUS
  <2>1. /\ queue = <<>> /\ fence = 0 /\ serial = 0 /\ cpc = "test" /\ history = <<>>
        /\ pc = [w \in Writers |-> "out"] /\ mine = [w \in Writers |-> 0] /\ due = [w \in Writers |-> 0]
    BY DEF Init
  <2>2. Len(queue) = 0 /\ Len(history) = 0 /\ 0 <= MaxFences
    BY <2>1 DEF Few
  <2> QED  BY <2>1, <2>2 DEF BarrierInv, Waits
<1>2. IInv /\ IInv' /\ (Few => BarrierInv) /\ [Next]_vars => (Few => BarrierInv)'
  <2> SUFFICES ASSUME IInv, IInv', Few, BarrierInv, [Next]_vars PROVE BarrierInv'
    BY DEF Few
  <2>1. CASE Next
    BY <2>1, BarrierKept
  <2>2. CASE UNCHANGED vars
    <3>1. UNCHANGED <<mode, queue, fence, serial, life, history, pc, mine, due, cpc, ev, prev, output>>
      BY <2>2 DEF vars, threadVars, consumerVars
    <3>2. InHand' = InHand
      BY <3>1 DEF InHand
    <3>3. \A i \in 1..Len(queue) : Ahead(i)' = Ahead(i)
      BY <3>1, <3>2 DEF Ahead
    <3> QED  BY <3>1, <3>3 DEF BarrierInv, Waits
  <2> QED  BY <2>1, <2>2
<1> QED  BY <1>1, <1>2, Invariance, PTL DEF Spec

(* Flush returns only when all that was pushed before the call is out, as  *)
(* long as fewer than FenceRange fences are drawn: beyond that the numbers *)
(* wrap, and the code makes no such promise (Flush, Event::s_fence).       *)
THEOREM FlushWaits == Spec => [](Few => FlushIsBarrier)
<1>1. IInv /\ (Few => BarrierInv) => (Few => FlushIsBarrier)
  <2> SUFFICES ASSUME BarrierInv, IInv, NEW w \in Writers, pc[w] = "flushed" PROVE Len(output) >= due[w]
    BY DEF FlushIsBarrier
  <2>1. Len(output) \in Nat /\ due[w] \in Nat
    BY DEF IInv, TypeOK
  <2>2. due[w] <= Len(output)
    BY DEF BarrierInv
  <2> QED  BY <2>1, <2>2
<1> QED  BY <1>1, Invariance, BarrierInvariance, PTL

-----------------------------------------------------------------------------
(* The line index. *)

(* Sequences of anything: the queue holds records of two shapes. *)

Elements(q) == {q[i] : i \in DOMAIN q}
IsQueue(q) == q \in Seq(Elements(q))

LEMMA QueueOf ==
  ASSUME NEW S, NEW q \in Seq(S)
  PROVE  IsQueue(q) /\ Len(q) \in Nat /\ DOMAIN q = 1..Len(q)
<1>1. Len(q) \in Nat /\ DOMAIN q = 1..Len(q)
  OBVIOUS
<1>2. \A i \in 1..Len(q) : q[i] \in Elements(q)
  BY <1>1 DEF Elements
<1>3. q \in Seq(Elements(q))
  BY <1>1, <1>2
<1> QED  BY <1>1, <1>3 DEF IsQueue

LEMMA QueueTail ==
  ASSUME NEW q, IsQueue(q), q # <<>>
  PROVE  /\ IsQueue(Tail(q)) /\ Head(q) = q[1] /\ Len(q) \in Nat \ {0}
         /\ DOMAIN q = 1..Len(q) /\ DOMAIN Tail(q) = 1..(Len(q) - 1)
         /\ \A i \in DOMAIN Tail(q) : Tail(q)[i] = q[i + 1]
<1> DEFINE S == Elements(q)
<1>1. q \in Seq(S)
  BY DEF IsQueue
<1> HIDE DEF S
<1>2. Head(q) = q[1] /\ Len(q) \in Nat \ {0} /\ DOMAIN q = 1..Len(q)
  BY <1>1
<1>3. Tail(q) \in Seq(S) /\ Len(Tail(q)) = Len(q) - 1
  BY <1>1, <1>2
<1>4. DOMAIN Tail(q) = 1..(Len(q) - 1) /\ IsQueue(Tail(q))
  BY <1>3, QueueOf
<1>5. \A i \in 1..(Len(q) - 1) : Tail(q)[i] = q[i + 1]
  BY <1>1, <1>2
<1> QED  BY <1>2, <1>4, <1>5

LEMMA QueueConcat ==
  ASSUME NEW q, IsQueue(q), NEW r, IsQueue(r)
  PROVE  /\ IsQueue(q \o r) /\ Len(q) \in Nat /\ DOMAIN q = 1..Len(q)
         /\ DOMAIN (q \o r) = 1..(Len(q) + Len(r))
         /\ \A i \in 1..Len(q) : (q \o r)[i] = q[i]
         /\ \A i \in (Len(q) + 1)..(Len(q) + Len(r)) : (q \o r)[i] = r[i - Len(q)]
<1> DEFINE S == Elements(q) \cup Elements(r)
<1>1. q \in Seq(S) /\ r \in Seq(S)
  BY DEF IsQueue
<1> HIDE DEF S
<1>2. Len(q) \in Nat /\ Len(r) \in Nat /\ DOMAIN q = 1..Len(q)
  BY <1>1
<1>3. q \o r \in Seq(S) /\ Len(q \o r) = Len(q) + Len(r)
  BY <1>1
<1>4. IsQueue(q \o r) /\ DOMAIN (q \o r) = 1..(Len(q) + Len(r))
  BY <1>3, QueueOf
<1>5. \A i \in 1..Len(q) : (q \o r)[i] = q[i]
  BY <1>1
<1>6. \A i \in (Len(q) + 1)..(Len(q) + Len(r)) : (q \o r)[i] = r[i - Len(q)]
  BY <1>1
<1> QED  BY <1>2, <1>4, <1>5, <1>6

(* The queue with the two messages of a build.                             *)
LEMMA QueueOfTwo ==
  ASSUME NEW q, IsQueue(q), NEW r, IsQueue(r), Len(r) = 2
  PROVE  /\ IsQueue(q \o r) /\ Len(q) \in Nat /\ DOMAIN q = 1..Len(q)
         /\ DOMAIN (q \o r) = 1..(Len(q) + 2)
         /\ \A i \in 1..Len(q) : (q \o r)[i] = q[i]
         /\ (q \o r)[Len(q) + 1] = r[1] /\ (q \o r)[Len(q) + 2] = r[2]
<1>1. /\ IsQueue(q \o r) /\ Len(q) \in Nat /\ DOMAIN q = 1..Len(q)
      /\ DOMAIN (q \o r) = 1..(Len(q) + Len(r))
      /\ \A i \in 1..Len(q) : (q \o r)[i] = q[i]
      /\ \A i \in (Len(q) + 1)..(Len(q) + Len(r)) : (q \o r)[i] = r[i - Len(q)]
  BY QueueConcat
<1> QED  BY <1>1

LEMMA QueueOfOne ==
  ASSUME NEW q, IsQueue(q), NEW a
  PROVE  /\ IsQueue(Append(q, a)) /\ Len(q) \in Nat /\ DOMAIN q = 1..Len(q)
         /\ DOMAIN Append(q, a) = 1..(Len(q) + 1)
         /\ \A i \in 1..Len(q) : Append(q, a)[i] = q[i]
         /\ Append(q, a)[Len(q) + 1] = a
<1> DEFINE S == Elements(q) \cup {a}
<1>1. q \in Seq(S) /\ a \in S
  BY DEF IsQueue
<1> HIDE DEF S
<1>2. Append(q, a) \in Seq(S) /\ Len(Append(q, a)) = Len(q) + 1 /\ Len(q) \in Nat /\ DOMAIN q = 1..Len(q)
  BY <1>1
<1>3. (\A i \in 1..Len(q) : Append(q, a)[i] = q[i]) /\ Append(q, a)[Len(q) + 1] = a
  BY <1>1
<1>4. IsQueue(Append(q, a)) /\ DOMAIN Append(q, a) = 1..(Len(q) + 1)
  BY <1>2, QueueOf
<1> QED  BY <1>2, <1>3, <1>4

-----------------------------------------------------------------------------
(* The inductive invariant of the index.                                   *)
IndexInv == ControlOK /\ IsQueue(posted) /\ OneEach /\ FlagMeansReload /\ LatestKnows

Running == \E w \in workers : w.issue = issue /\ w.reload
Reporting == \E i \in DOMAIN posted : posted[i].issue = issue /\ ~posted[i].merge /\ posted[i].reload

LEMMA FlagEither ==
  ASSUME reloading \in BOOLEAN
  PROVE  FlagMeansReload <=> (reloading <=> (Running \/ Reporting))
BY Zenon DEF FlagMeansReload, Running, Reporting

LEMMA Numbers ==
  ASSUME ControlOK
  PROVE  /\ size \in Nat /\ known \in Nat /\ known <= size /\ issue \in Nat /\ issue >= 1
         /\ \A w \in workers : w.issue \in Nat /\ w.issue <= issue
         /\ \A i \in DOMAIN posted : posted[i].issue \in Nat /\ posted[i].issue <= issue
<1>1. size \in Nat
  BY BoundsAssumption DEF ControlOK
<1>2. MaxBuilds \in Nat
  BY BoundsAssumption
<1> QED  BY <1>1, <1>2 DEF ControlOK

(* At the start the only build is the first reload.                        *)
LEMMA InitInv == IndexInit => IndexInv
<1> SUFFICES ASSUME IndexInit PROVE IndexInv
  OBVIOUS
<1>1. PICK pos \in {0, size} :
        workers = {[issue |-> 1, reload |-> TRUE, filepos |-> pos, lines |-> Zero, centre |-> 0, count |-> 0]}
  BY DEF IndexInit
<1>2. /\ size \in FileSizes /\ size \in Nat /\ settings \in Settings /\ changed = FALSE /\ known = size
      /\ issue = 1 /\ reloading = TRUE /\ posted = <<>> /\ lost = FALSE
  BY BoundsAssumption DEF IndexInit
<1>3. workers # {} /\ \A w \in workers : w.issue = 1 /\ w.reload = TRUE
  BY <1>1
<1>4. \A v, w \in workers : v = w
  BY <1>1
<1>5. posted \in Seq({}) /\ DOMAIN posted = {}
  BY <1>2
<1>6. IsQueue(posted)
  BY <1>5, QueueOf
<1>7. ControlOK
  <2>1. issue \in 1..MaxBuilds /\ known \in 0..size
    BY <1>2, BoundsAssumption
  <2>2. \A w \in workers : w.issue \in 1..issue /\ w.reload \in BOOLEAN
    <3>1. \A w \in workers : w.issue \in 1..issue
      BY <1>2, <1>3
    <3>2. \A w \in workers : w.reload \in BOOLEAN
      BY <1>3, Zenon
    <3> QED  BY <3>1, <3>2
  <2> QED  BY <1>2, <1>5, <2>1, <2>2 DEF ControlOK
<1>8. OneEach
  BY <1>4, <1>5 DEF OneEach
<1>9. Running
  BY <1>2, <1>3 DEF Running
<1>10. FlagMeansReload
  BY <1>2, <1>9, FlagEither
<1>11. LatestKnows
  BY <1>2, <1>3 DEF LatestKnows
<1> QED  BY <1>6, <1>7, <1>8, <1>10, <1>11 DEF IndexInv

-----------------------------------------------------------------------------
(* Builds *)

(* The new build has an issue nothing else has, and it is the latest.      *)
LEMMA StartInv ==
  ASSUME IndexInv, NEW pos, NEW reload \in BOOLEAN, Start(pos, reload), posted' = posted,
         size' = size, settings' = settings, known' \in 0..size, changed' \in BOOLEAN
  PROVE  IndexInv'
<1>1. ControlOK /\ IsQueue(posted) /\ OneEach
  BY DEF IndexInv
<1>2. issue' = issue + 1 /\ issue < MaxBuilds /\ reloading' = reload /\ lost' = FALSE
  BY DEF Start
<1>3. PICK b : workers' = workers \cup {b} /\ b.issue = issue + 1 /\ b.reload = reload
  <2> DEFINE b == [issue |-> issue', reload |-> reload, filepos |-> pos, lines |-> LineStartRange,
                   centre |-> FindIndex(pos), count |-> Len(index)]
  <2>1. workers' = workers \cup {b}
    BY DEF Start
  <2>2. b.issue = issue + 1 /\ b.reload = reload
    BY <1>2
  <2> HIDE DEF b
  <2> QED  BY <2>1, <2>2
<1>4. /\ issue \in Nat /\ issue >= 1 /\ \A w \in workers : w.issue \in Nat /\ w.issue <= issue
      /\ \A i \in DOMAIN posted : posted[i].issue \in Nat /\ posted[i].issue <= issue
  BY <1>1, Numbers
<1>5. ControlOK'
  <2>1. issue' \in 1..MaxBuilds
    BY <1>2, <1>4, BoundsAssumption
  <2>2. \A w \in workers' : w.issue \in 1..issue' /\ w.reload \in BOOLEAN
    BY <1>1, <1>2, <1>3, <1>4 DEF ControlOK
  <2>3. \A i \in DOMAIN posted' : posted'[i].issue \in 1..issue' /\ posted'[i].reload \in BOOLEAN /\ posted'[i].merge \in BOOLEAN
    BY <1>1, <1>2, <1>4 DEF ControlOK
  <2> QED  BY <1>1, <1>2, <2>1, <2>2, <2>3 DEF ControlOK
<1>6. OneEach'
  <2>1. \A v, w \in workers' : v.issue = w.issue => v = w
    BY <1>1, <1>3, <1>4 DEF OneEach
  <2>2. \A w \in workers', i \in DOMAIN posted' : posted'[i].issue # w.issue
    BY <1>1, <1>3, <1>4 DEF OneEach
  <2> QED  BY <1>1, <2>1, <2>2 DEF OneEach
<1>7. Running' <=> reload
  <2>1. \A w \in workers' : w.issue = issue' => w = b
    BY <1>2, <1>3, <1>4
  <2> QED  BY <1>2, <1>3, <2>1 DEF Running
<1>8. ~Reporting'
  BY <1>2, <1>4 DEF Reporting
<1>9. FlagMeansReload'
  <2>1. reloading' \in BOOLEAN /\ (reloading' <=> (Running' \/ Reporting'))
    BY <1>2, <1>7, <1>8
  <2> QED  BY <2>1, Zenon DEF FlagMeansReload, Running, Reporting
<1>10. LatestKnows'
  BY <1>2, <1>3 DEF LatestKnows
<1> QED  BY <1>1, <1>5, <1>6, <1>9, <1>10 DEF IndexInv

(* A refusal leaves the builds alone; the word on the file is lost.        *)
LEMMA BuildInv ==
  ASSUME IndexInv, NEW pos, NEW reload \in BOOLEAN, Build(pos, reload),
         size' = size, settings' = settings, known' \in 0..size, changed' \in BOOLEAN
  PROVE  IndexInv'
<1>1. CASE Refused(reload)
  <2>1. /\ reload = FALSE /\ lost' = TRUE
        /\ issue' = issue /\ reloading' = reloading /\ workers' = workers /\ posted' = posted
    BY <1>1 DEF Build, Refused
  <2>2. ControlOK'
    BY <2>1 DEF IndexInv, ControlOK
  <2>3. IsQueue(posted)' /\ OneEach'
    BY <2>1 DEF IndexInv, OneEach
  <2>4. FlagMeansReload'
    BY <2>1, Zenon DEF IndexInv, FlagMeansReload
  <2>5. LatestKnows'
    BY <2>1 DEF LatestKnows
  <2> QED  BY <2>2, <2>3, <2>4, <2>5 DEF IndexInv
<1>2. CASE ~Refused(reload)
  <2>1. Start(pos, reload) /\ posted' = posted
    BY <1>2 DEF Build
  <2> QED  BY <2>1, StartInv
<1> QED  BY <1>1, <1>2

-----------------------------------------------------------------------------
(* The file *)

LEMMA GrowInv == ASSUME IndexInv, NEW n \in FileSizes, Grow(n) PROVE IndexInv'
<1>1. ControlOK /\ IsQueue(posted) /\ OneEach /\ FlagMeansReload
  BY DEF IndexInv
<1>2. /\ n > size /\ size' = n /\ changed' = settings.watch /\ settings' = settings /\ known' = known
      /\ issue' = issue /\ reloading' = reloading /\ workers' = workers /\ posted' = posted /\ lost' = lost
  BY DEF Grow
<1>3. n \in Nat /\ size \in Nat /\ known \in Nat /\ known <= size
  BY <1>1, Numbers, BoundsAssumption
<1>4. settings.tail \in BOOLEAN /\ settings.watch \in BOOLEAN
  BY <1>1, Zenon DEF ControlOK, Settings
<1>5. ControlOK'
  <2>1. known' \in 0..size' /\ size' \in FileSizes
    BY <1>2, <1>3
  <2>2. changed' \in BOOLEAN
    BY <1>2, <1>4
  <2> QED  BY <1>1, <1>2, <2>1, <2>2 DEF ControlOK
<1>6. OneEach'
  BY <1>1, <1>2 DEF OneEach
<1>7. FlagMeansReload'
  BY <1>1, <1>2, Zenon DEF FlagMeansReload
<1>8. LatestKnows'
  <2>1. settings'.tail \/ settings'.watch => changed' \/ (settings'.tail /\ known' # size')
    BY <1>2, <1>3, <1>4
  <2> QED  BY <2>1 DEF LatestKnows
<1> QED  BY <1>1, <1>2, <1>5, <1>6, <1>7, <1>8 DEF IndexInv

LEMMA TailTimerInv == IndexInv /\ HandleTailTimerTick => IndexInv'
<1> SUFFICES ASSUME IndexInv, HandleTailTimerTick PROVE IndexInv'
  OBVIOUS
<1>1. Build(size, FALSE) /\ known' = size /\ size' = size /\ settings' = settings /\ changed' = changed
  BY DEF HandleTailTimerTick
<1>2. ControlOK
  BY DEF IndexInv
<1>3. known' \in 0..size /\ changed' \in BOOLEAN
  BY <1>1, <1>2, Numbers DEF ControlOK
<1> QED  BY <1>1, <1>3, BuildInv

LEMMA FileChangedInv == ASSUME IndexInv, NEW locked \in BOOLEAN, HandleFileChanged(locked) PROVE IndexInv'
<1>1. ControlOK /\ IsQueue(posted) /\ OneEach /\ FlagMeansReload
  BY DEF IndexInv
<1>2. changed' = FALSE /\ size' = size /\ settings' = settings
  BY DEF HandleFileChanged
<1>3. CASE locked
  <2>1. /\ lost' = TRUE /\ known' = known /\ issue' = issue /\ reloading' = reloading
        /\ workers' = workers /\ posted' = posted
    BY <1>3 DEF HandleFileChanged
  <2>2. ControlOK'
    BY <1>1, <1>2, <2>1 DEF ControlOK
  <2>3. OneEach'
    BY <1>1, <2>1 DEF OneEach
  <2>4. FlagMeansReload'
    BY <1>1, <2>1, Zenon DEF FlagMeansReload
  <2>5. LatestKnows'
    BY <2>1 DEF LatestKnows
  <2> QED  BY <1>1, <2>1, <2>2, <2>3, <2>4, <2>5 DEF IndexInv
<1>4. CASE ~locked
  <2>1. known' = size /\ Build(fileend, TRUE)
    BY <1>4 DEF HandleFileChanged
  <2>2. known' \in 0..size
    BY <1>1, <2>1, Numbers
  <2>3. changed' \in BOOLEAN
    BY <1>2
  <2> QED  BY <1>2, <2>1, <2>2, <2>3, BuildInv
<1> QED  BY <1>3, <1>4

LEMMA RebuildInv == IndexInv /\ RebuildIndex => IndexInv'
<1> SUFFICES ASSUME IndexInv, RebuildIndex PROVE IndexInv'
  OBVIOUS
<1>1. Build(fileend, TRUE) /\ size' = size /\ settings' = settings /\ known' = known /\ changed' = changed
  BY DEF RebuildIndex, file
<1>2. known' \in 0..size /\ changed' \in BOOLEAN
  BY <1>1 DEF IndexInv, ControlOK
<1> QED  BY <1>1, <1>2, BuildInv

-----------------------------------------------------------------------------
(* The thread pool *)

(* What a build leaves behind: its end, and its lines unless it failed.    *)
(* For the latest build the lines say how long the file is, and a failure  *)
(* loses the last word on the file.                                        *)
LEMMA WorkerEnds ==
  ASSUME IndexInv, NEW w \in workers, workers' = workers \ {w}, IsQueue(posted'),
         NEW N \in Nat, NEW k \in Nat \ {0}, DOMAIN posted = 1..N, DOMAIN posted' = 1..(N + k),
         \A i \in 1..N : posted'[i] = posted[i],
         \A i \in (N + 1)..(N + k) :
           /\ posted'[i].issue = w.issue /\ posted'[i].reload = w.reload
           /\ posted'[i].merge \in BOOLEAN /\ (posted'[i].merge <=> i # N + k)
           /\ posted'[i].merge => posted'[i].fileend = size,
         lost' \in BOOLEAN, lost => lost', (k = 1 /\ w.issue = issue) => lost',
         size' = size, settings' = settings, changed' = changed, known' = known,
         issue' = issue, reloading' = reloading, fileend' = fileend
  PROVE  IndexInv'
<1>1. ControlOK /\ OneEach
  BY DEF IndexInv
<1>2. w.reload \in BOOLEAN /\ w.issue \in 1..issue
  BY <1>1 DEF ControlOK
<1>3. \A i \in DOMAIN posted' : i \in 1..N \/ i \in (N + 1)..(N + k)
  OBVIOUS
<1>4. 1..N \subseteq DOMAIN posted' /\ N + k \in DOMAIN posted' /\ (N + k) \in (N + 1)..(N + k)
  OBVIOUS
<1>5. ControlOK'
  <2>1. \A i \in DOMAIN posted' :
          posted'[i].issue \in 1..issue /\ posted'[i].reload \in BOOLEAN /\ posted'[i].merge \in BOOLEAN
    <3> SUFFICES ASSUME NEW i \in DOMAIN posted'
                 PROVE  posted'[i].issue \in 1..issue /\ posted'[i].reload \in BOOLEAN /\ posted'[i].merge \in BOOLEAN
      OBVIOUS
    <3>1. CASE i \in 1..N
      BY <1>1, <3>1 DEF ControlOK
    <3>2. CASE i \in (N + 1)..(N + k)
      BY <1>2, <3>2
    <3> QED  BY <1>3, <3>1, <3>2
  <2>2. \A v \in workers' : v.issue \in 1..issue /\ v.reload \in BOOLEAN
    BY <1>1 DEF ControlOK
  <2> QED  BY <1>1, <2>1, <2>2 DEF ControlOK
<1>6. OneEach'
  <2>1. \A v, u \in workers' : v.issue = u.issue => v = u
    BY <1>1 DEF OneEach
  <2>2. \A v \in workers', i \in DOMAIN posted' : posted'[i].issue # v.issue
    <3> SUFFICES ASSUME NEW v \in workers', NEW i \in DOMAIN posted' PROVE posted'[i].issue # v.issue
      OBVIOUS
    <3>1. CASE i \in 1..N
      BY <1>1, <3>1 DEF OneEach
    <3>2. CASE i \in (N + 1)..(N + k)
      BY <1>1, <3>2 DEF OneEach
    <3> QED  BY <1>3, <3>1, <3>2
  <2>3. \A i, j \in DOMAIN posted' : posted'[i].issue = posted'[j].issue /\ ~posted'[i].merge /\ ~posted'[j].merge => i = j
    <3> SUFFICES ASSUME NEW i \in DOMAIN posted', NEW j \in DOMAIN posted',
                        posted'[i].issue = posted'[j].issue, ~posted'[i].merge, ~posted'[j].merge
                 PROVE  i = j
      OBVIOUS
    <3>1. \A m \in 1..N : posted'[m].issue # w.issue
      BY <1>1 DEF OneEach
    <3>2. CASE i \in 1..N /\ j \in 1..N
      BY <1>1, <3>2 DEF OneEach
    <3>3. CASE i \in (N + 1)..(N + k) /\ j \in (N + 1)..(N + k)
      BY <3>3
    <3> QED  BY <1>3, <3>1, <3>2, <3>3
  <2> QED  BY <2>1, <2>2, <2>3 DEF OneEach
<1>7. FlagMeansReload'
  <2>1. reloading <=> (Running \/ Reporting)
    BY <1>1, FlagEither DEF IndexInv, ControlOK
  <2>2. Reporting => Reporting'
    BY <1>4 DEF Reporting
  <2>3. Running => Running' \/ Reporting'
    <3> SUFFICES ASSUME NEW v \in workers, v.issue = issue, v.reload PROVE Running' \/ Reporting'
      BY DEF Running
    <3>1. CASE v = w
      BY <1>4, <3>1 DEF Reporting
    <3>2. CASE v # w
      BY <3>2 DEF Running
    <3> QED  BY <3>1, <3>2
  <2>4. Running' => Running
    BY DEF Running
  <2>5. Reporting' => Running \/ Reporting
    <3> SUFFICES ASSUME NEW i \in DOMAIN posted', posted'[i].issue = issue, ~posted'[i].merge, posted'[i].reload
                 PROVE  Running \/ Reporting
      BY DEF Reporting
    <3>1. CASE i \in 1..N
      BY <3>1 DEF Reporting
    <3>2. CASE i \in (N + 1)..(N + k)
      BY <3>2 DEF Running
    <3> QED  BY <1>3, <3>1, <3>2
  <2>6. reloading' \in BOOLEAN /\ (reloading' <=> (Running' \/ Reporting'))
    BY <1>1, <2>1, <2>2, <2>3, <2>4, <2>5 DEF ControlOK
  <2> QED  BY <2>6, Zenon DEF FlagMeansReload, Running, Reporting
<1>8. LatestKnows'
  <2> SUFFICES ASSUME settings'.tail \/ settings'.watch, ~lost', ~changed', settings'.tail => known' = size',
                       \A v \in workers' : v.issue # issue
               PROVE  /\ \A i \in DOMAIN posted' : posted'[i].merge /\ posted'[i].issue = issue => posted'[i].fileend = size
                      /\ (\A i \in DOMAIN posted' : ~(posted'[i].merge /\ posted'[i].issue = issue)) => fileend = size
    BY DEF LatestKnows, Upto
  <2>1. CASE w.issue = issue
    <3>1. \A i \in 1..N : posted'[i].issue # issue
      BY <1>1, <2>1 DEF OneEach
    <3>2. N + 1 \in DOMAIN posted' /\ N + 1 \in (N + 1)..(N + k) /\ N + 1 # N + k
      BY <2>1
    <3>3. posted'[N + 1].merge /\ posted'[N + 1].issue = issue
      BY <2>1, <3>2
    <3> QED  BY <1>3, <3>1, <3>2, <3>3
  <2>2. CASE w.issue # issue
    <3>1. /\ \A i \in DOMAIN posted : posted[i].merge /\ posted[i].issue = issue => posted[i].fileend = size
          /\ (\A i \in DOMAIN posted : ~(posted[i].merge /\ posted[i].issue = issue)) => fileend = size
      BY <2>2 DEF IndexInv, LatestKnows, Upto
    <3> QED  BY <1>3, <1>4, <2>2, <3>1
  <2> QED  BY <2>1, <2>2
<1> QED  BY <1>5, <1>6, <1>7, <1>8 DEF IndexInv

LEMMA ScanFileInv == ASSUME IndexInv, NEW w \in workers, ScanFile(w) PROVE IndexInv'
<1> DEFINE a == LinesOf(w)
           b == EndOf(w)
<1>1. /\ a.merge = TRUE /\ a.issue = w.issue /\ a.reload = w.reload /\ a.fileend = size
      /\ b.merge = FALSE /\ b.issue = w.issue /\ b.reload = w.reload
  BY DEF LinesOf, EndOf
<1>2. posted' = posted \o <<a, b>> /\ workers' = workers \ {w}
  BY DEF ScanFile
<1>3. /\ size' = size /\ settings' = settings /\ changed' = changed /\ known' = known
      /\ issue' = issue /\ reloading' = reloading /\ fileend' = fileend /\ lost' = lost
  BY DEF ScanFile, file
<1> HIDE DEF a, b
<1>4. IsQueue(posted) /\ lost \in BOOLEAN
  BY DEF IndexInv, ControlOK
<1> DEFINE N == Len(posted)
<1>5. /\ IsQueue(posted') /\ N \in Nat /\ DOMAIN posted = 1..N /\ DOMAIN posted' = 1..(N + 2)
      /\ \A i \in 1..N : posted'[i] = posted[i]
      /\ posted'[N + 1] = a /\ posted'[N + 2] = b
  <2> DEFINE r == <<a, b>>
  <2>1. r \in Seq({a, b}) /\ Len(r) = 2 /\ r[1] = a /\ r[2] = b
    OBVIOUS
  <2>2. posted' = posted \o r
    BY <1>2
  <2> HIDE DEF r
  <2>3. IsQueue(r)
    BY <2>1, QueueOf
  <2> QED  BY <1>4, <2>1, <2>2, <2>3, QueueOfTwo
<1> HIDE DEF N
<1>6. \A i \in (N + 1)..(N + 2) :
        /\ posted'[i].issue = w.issue /\ posted'[i].reload = w.reload
        /\ posted'[i].merge \in BOOLEAN /\ (posted'[i].merge <=> i # N + 2)
        /\ posted'[i].merge => posted'[i].fileend = size
  <2> SUFFICES ASSUME NEW i \in (N + 1)..(N + 2)
               PROVE  /\ posted'[i].issue = w.issue /\ posted'[i].reload = w.reload
                      /\ posted'[i].merge \in BOOLEAN /\ (posted'[i].merge <=> i # N + 2)
                      /\ posted'[i].merge => posted'[i].fileend = size
    OBVIOUS
  <2>1. CASE i = N + 1
    <3>1. i # N + 2
      BY <1>5, <2>1
    <3> QED  BY <1>1, <1>5, <2>1, <3>1
  <2>2. CASE i = N + 2
    BY <1>1, <1>5, <2>2
  <2> QED  BY <1>5, <2>1, <2>2
<1> DEFINE k == 2
<1>7. /\ k \in Nat \ {0} /\ DOMAIN posted' = 1..(N + k)
      /\ lost' \in BOOLEAN /\ (lost => lost') /\ ((k = 1 /\ w.issue = issue) => lost')
  BY <1>3, <1>4, <1>5
<1>8. \A i \in (N + 1)..(N + k) :
        /\ posted'[i].issue = w.issue /\ posted'[i].reload = w.reload
        /\ posted'[i].merge \in BOOLEAN /\ (posted'[i].merge <=> i # N + k)
        /\ posted'[i].merge => posted'[i].fileend = size
  BY <1>6
<1>9. /\ workers' = workers \ {w} /\ IsQueue(posted') /\ N \in Nat /\ DOMAIN posted = 1..N
      /\ \A i \in 1..N : posted'[i] = posted[i]
  BY <1>2, <1>5
<1> HIDE DEF k
<1> QED  BY <1>3, <1>7, <1>8, <1>9, WorkerEnds

LEMMA ScanFailsInv == ASSUME IndexInv, NEW w \in workers, ScanFails(w) PROVE IndexInv'
<1> DEFINE b == EndOf(w)
<1>1. b.merge = FALSE /\ b.issue = w.issue /\ b.reload = w.reload
  BY DEF EndOf
<1>2. posted' = Append(posted, b) /\ workers' = workers \ {w} /\ lost' = (lost \/ w.issue = issue)
  BY DEF ScanFails
<1>3. /\ size' = size /\ settings' = settings /\ changed' = changed /\ known' = known
      /\ issue' = issue /\ reloading' = reloading /\ fileend' = fileend
  BY DEF ScanFails, file
<1> HIDE DEF b
<1>4. IsQueue(posted)
  BY DEF IndexInv
<1> DEFINE N == Len(posted)
<1>5. /\ IsQueue(posted') /\ N \in Nat /\ DOMAIN posted = 1..N /\ DOMAIN posted' = 1..(N + 1)
      /\ \A i \in 1..N : posted'[i] = posted[i]
      /\ posted'[N + 1] = b
  BY <1>2, <1>4, QueueOfOne
<1> HIDE DEF N
<1>6. \A i \in (N + 1)..(N + 1) :
        /\ posted'[i].issue = w.issue /\ posted'[i].reload = w.reload
        /\ posted'[i].merge \in BOOLEAN /\ (posted'[i].merge <=> i # N + 1)
        /\ posted'[i].merge => posted'[i].fileend = size
  <2>1. \A i \in (N + 1)..(N + 1) : i = N + 1
    BY <1>5
  <2> QED  BY <1>1, <1>5, <2>1
<1>7. lost' \in BOOLEAN /\ (lost => lost') /\ (w.issue = issue => lost')
  BY <1>2, Zenon
<1> QED  BY <1>2, <1>3, <1>5, <1>6, <1>7, WorkerEnds

-----------------------------------------------------------------------------
(* The dispatcher *)

(* What the head of the queue leaves in it.                                *)
LEMMA QueueMoves ==
  ASSUME IndexInv, posted # <<>>, posted' = Tail(posted)
  PROVE  /\ IsQueue(posted') /\ Head(posted) = posted[1] /\ 1 \in DOMAIN posted
         /\ \A i \in DOMAIN posted' : i \in Nat \ {0} /\ i + 1 \in DOMAIN posted /\ posted'[i] = posted[i + 1]
         /\ \A i \in DOMAIN posted : i = 1 \/ (i - 1 \in DOMAIN posted' /\ posted'[i - 1] = posted[i])
<1>1. IsQueue(posted)
  BY DEF IndexInv
<1>2. /\ IsQueue(Tail(posted)) /\ Head(posted) = posted[1] /\ Len(posted) \in Nat \ {0}
      /\ DOMAIN posted = 1..Len(posted) /\ DOMAIN Tail(posted) = 1..(Len(posted) - 1)
      /\ \A i \in DOMAIN Tail(posted) : Tail(posted)[i] = posted[i + 1]
  BY <1>1, QueueTail, Zenon
<1> DEFINE N == Len(posted)
<1>3. /\ IsQueue(posted') /\ N \in Nat \ {0} /\ DOMAIN posted = 1..N /\ DOMAIN posted' = 1..(N - 1)
      /\ \A i \in DOMAIN posted' : posted'[i] = posted[i + 1]
  BY <1>2
<1> HIDE DEF N
<1>4. \A i \in DOMAIN posted : i = 1 \/ (i - 1 \in DOMAIN posted' /\ posted'[i - 1] = posted[i])
  BY <1>3
<1>5. \A i \in DOMAIN posted' : i \in Nat \ {0} /\ i + 1 \in DOMAIN posted
  BY <1>3
<1>6. Head(posted) = posted[1] /\ 1 \in DOMAIN posted
  BY <1>2
<1> QED  BY <1>3, <1>4, <1>5, <1>6

LEMMA PopInv ==
  ASSUME IndexInv, posted # <<>>, posted' = Tail(posted),
         size' = size, settings' = settings, changed' = changed, known' = known,
         issue' = issue, workers' = workers, lost' = lost, reloading' \in BOOLEAN
  PROVE  ControlOK' /\ IsQueue(posted') /\ OneEach'
<1>1. ControlOK /\ OneEach
  BY DEF IndexInv
<1>2. /\ IsQueue(posted')
      /\ \A i \in DOMAIN posted' : i \in Nat \ {0} /\ i + 1 \in DOMAIN posted /\ posted'[i] = posted[i + 1]
  BY QueueMoves
<1>3. ControlOK'
  <2>1. \A i \in DOMAIN posted' :
          posted'[i].issue \in 1..issue /\ posted'[i].reload \in BOOLEAN /\ posted'[i].merge \in BOOLEAN
    BY <1>1, <1>2 DEF ControlOK
  <2> QED  BY <1>1, <2>1 DEF ControlOK
<1>4. OneEach'
  <2>1. \A v \in workers, i \in DOMAIN posted' : posted'[i].issue # v.issue
    BY <1>1, <1>2 DEF OneEach
  <2>2. \A i, j \in DOMAIN posted' : posted'[i].issue = posted'[j].issue /\ ~posted'[i].merge /\ ~posted'[j].merge => i = j
    <3> SUFFICES ASSUME NEW i \in DOMAIN posted', NEW j \in DOMAIN posted',
                        posted'[i].issue = posted'[j].issue, ~posted'[i].merge, ~posted'[j].merge
                 PROVE  i = j
      OBVIOUS
    <3>1. i + 1 = j + 1
      BY <1>1, <1>2 DEF OneEach
    <3> QED  BY <1>2, <3>1
  <2> QED  BY <1>1, <2>1, <2>2 DEF OneEach
<1> QED  BY <1>2, <1>3, <1>4

LEMMA MergeInv == IndexInv /\ MergeResults => IndexInv'
<1> SUFFICES ASSUME IndexInv, MergeResults PROVE IndexInv'
  OBVIOUS
<1>1. ControlOK
  BY DEF IndexInv
<1>2. /\ posted # <<>> /\ posted' = Tail(posted) /\ Head(posted).merge
      /\ fileend' = IF Head(posted).issue = issue THEN Head(posted).fileend ELSE fileend
      /\ size' = size /\ settings' = settings /\ changed' = changed /\ known' = known
      /\ issue' = issue /\ reloading' = reloading /\ workers' = workers /\ lost' = lost
  BY DEF MergeResults, file
<1>3. /\ IsQueue(posted') /\ Head(posted) = posted[1] /\ 1 \in DOMAIN posted
      /\ \A i \in DOMAIN posted' : i \in Nat \ {0} /\ i + 1 \in DOMAIN posted /\ posted'[i] = posted[i + 1]
      /\ \A i \in DOMAIN posted : i = 1 \/ (i - 1 \in DOMAIN posted' /\ posted'[i - 1] = posted[i])
  BY <1>2, QueueMoves
<1>4. ControlOK' /\ IsQueue(posted') /\ OneEach'
  BY <1>1, <1>2, PopInv DEF ControlOK
<1>5. FlagMeansReload'
  <2>1. reloading \in BOOLEAN /\ (reloading <=> (Running \/ Reporting))
    BY <1>1, FlagEither DEF IndexInv, ControlOK
  <2>2. Running' <=> Running
    BY <1>2 DEF Running
  <2>3. Reporting' => Reporting
    BY <1>2, <1>3 DEF Reporting
  <2>4. Reporting => Reporting'
    <3> SUFFICES ASSUME NEW i \in DOMAIN posted, posted[i].issue = issue, ~posted[i].merge, posted[i].reload
                 PROVE  Reporting'
      BY DEF Reporting
    <3>1. i - 1 \in DOMAIN posted' /\ posted'[i - 1] = posted[i]
      BY <1>2, <1>3
    <3> QED  BY <1>2, <3>1 DEF Reporting
  <2>5. reloading' \in BOOLEAN /\ (reloading' <=> (Running' \/ Reporting'))
    BY <1>2, <2>1, <2>2, <2>3, <2>4
  <2> QED  BY <2>5, Zenon DEF FlagMeansReload, Running, Reporting
<1>6. LatestKnows'
  <2> SUFFICES ASSUME settings.tail \/ settings.watch, ~lost, ~changed, settings.tail => known = size,
                       \A v \in workers : v.issue # issue
               PROVE  /\ \A i \in DOMAIN posted' : posted'[i].merge /\ posted'[i].issue = issue => posted'[i].fileend = size
                      /\ (\A i \in DOMAIN posted' : ~(posted'[i].merge /\ posted'[i].issue = issue)) => fileend' = size
    BY <1>2 DEF LatestKnows, Upto
  <2>1. /\ \A i \in DOMAIN posted : posted[i].merge /\ posted[i].issue = issue => posted[i].fileend = size
        /\ (\A i \in DOMAIN posted : ~(posted[i].merge /\ posted[i].issue = issue)) => fileend = size
    BY DEF IndexInv, LatestKnows, Upto
  <2>2. CASE posted[1].issue = issue
    <3>1. fileend' = posted[1].fileend
      BY <1>2, <1>3, <2>2
    <3>2. \A i \in DOMAIN posted' : posted'[i].merge /\ posted'[i].issue = issue => posted'[i].fileend = size
      BY <1>3, <2>1
    <3>3. posted[1].fileend = size
      BY <1>2, <1>3, <2>1, <2>2
    <3> QED  BY <3>1, <3>2, <3>3
  <2>3. CASE posted[1].issue # issue
    <3>1. fileend' = fileend
      BY <1>2, <1>3, <2>3
    <3>2. \A i \in DOMAIN posted' : posted'[i].merge /\ posted'[i].issue = issue => posted'[i].fileend = size
      BY <1>3, <2>1
    <3>3. ASSUME \A i \in DOMAIN posted' : ~(posted'[i].merge /\ posted'[i].issue = issue) PROVE fileend = size
      <4>1. \A i \in DOMAIN posted : ~(posted[i].merge /\ posted[i].issue = issue)
        BY <1>3, <2>3, <3>3
      <4> QED  BY <2>1, <4>1
    <3> QED  BY <3>1, <3>2, <3>3
  <2> QED  BY <2>2, <2>3
<1> QED  BY <1>4, <1>5, <1>6 DEF IndexInv

LEMMA BuildDoneInv == IndexInv /\ BuildDone => IndexInv'
<1> SUFFICES ASSUME IndexInv, BuildDone PROVE IndexInv'
  OBVIOUS
<1>1. ControlOK /\ OneEach
  BY DEF IndexInv
<1>2. /\ posted # <<>> /\ posted' = Tail(posted) /\ ~Head(posted).merge
      /\ reloading' = (reloading /\ Head(posted).issue # issue)
      /\ size' = size /\ settings' = settings /\ changed' = changed /\ known' = known
      /\ issue' = issue /\ fileend' = fileend /\ workers' = workers /\ lost' = lost
  BY DEF BuildDone, file
<1>3. /\ IsQueue(posted') /\ Head(posted) = posted[1] /\ 1 \in DOMAIN posted
      /\ \A i \in DOMAIN posted' : i \in Nat \ {0} /\ i + 1 \in DOMAIN posted /\ posted'[i] = posted[i + 1]
      /\ \A i \in DOMAIN posted : i = 1 \/ (i - 1 \in DOMAIN posted' /\ posted'[i - 1] = posted[i])
  BY <1>2, QueueMoves
<1>4. reloading' \in BOOLEAN /\ (reloading' <=> reloading /\ Head(posted).issue # issue)
  BY <1>2, Zenon
<1>5. ControlOK' /\ IsQueue(posted') /\ OneEach'
  BY <1>2, <1>4, PopInv
<1>6. FlagMeansReload'
  <2>1. reloading <=> (Running \/ Reporting)
    BY <1>1, FlagEither DEF IndexInv, ControlOK
  <2>2. Running' <=> Running
    BY <1>2 DEF Running
  <2>3. CASE posted[1].issue = issue
    <3>1. ~Running'
      BY <1>1, <1>2, <1>3, <2>3 DEF Running, OneEach
    <3>2. ~Reporting'
      <4> SUFFICES ASSUME NEW i \in DOMAIN posted', posted'[i].issue = issue, ~posted'[i].merge PROVE FALSE
        BY <1>2 DEF Reporting
      <4>1. i \in Nat \ {0} /\ i + 1 \in DOMAIN posted /\ posted'[i] = posted[i + 1]
        BY <1>3
      <4>2. i + 1 = 1
        BY <1>1, <1>2, <1>3, <2>3, <4>1 DEF OneEach
      <4> QED  BY <4>1, <4>2
    <3> QED  BY <1>3, <1>4, <2>3, <3>1, <3>2, Zenon DEF FlagMeansReload, Running, Reporting
  <2>4. CASE posted[1].issue # issue
    <3>1. Reporting' => Reporting
      BY <1>2, <1>3 DEF Reporting
    <3>2. Reporting => Reporting'
      <4> SUFFICES ASSUME NEW i \in DOMAIN posted, posted[i].issue = issue, ~posted[i].merge, posted[i].reload
                   PROVE  Reporting'
        BY DEF Reporting
      <4>1. i - 1 \in DOMAIN posted' /\ posted'[i - 1] = posted[i]
        BY <1>3, <2>4
      <4> QED  BY <1>2, <4>1 DEF Reporting
    <3>3. reloading' <=> (Running' \/ Reporting')
      BY <1>3, <1>4, <2>1, <2>2, <2>4, <3>1, <3>2
    <3> QED  BY <1>4, <3>3, Zenon DEF FlagMeansReload, Running, Reporting
  <2> QED  BY <2>3, <2>4
<1>7. LatestKnows'
  <2> SUFFICES ASSUME settings.tail \/ settings.watch, ~lost, ~changed, settings.tail => known = size,
                       \A v \in workers : v.issue # issue
               PROVE  /\ \A i \in DOMAIN posted' : posted'[i].merge /\ posted'[i].issue = issue => posted'[i].fileend = size
                      /\ (\A i \in DOMAIN posted' : ~(posted'[i].merge /\ posted'[i].issue = issue)) => fileend = size
    BY <1>2 DEF LatestKnows, Upto
  <2>1. /\ \A i \in DOMAIN posted : posted[i].merge /\ posted[i].issue = issue => posted[i].fileend = size
        /\ (\A i \in DOMAIN posted : ~(posted[i].merge /\ posted[i].issue = issue)) => fileend = size
    BY DEF IndexInv, LatestKnows, Upto
  <2> QED  BY <1>2, <1>3, <2>1
<1> QED  BY <1>5, <1>6, <1>7 DEF IndexInv

-----------------------------------------------------------------------------
LEMMA StutterInv == IndexInv /\ UNCHANGED indexVars => IndexInv'
<1> SUFFICES ASSUME IndexInv, UNCHANGED indexVars PROVE IndexInv'
  OBVIOUS
<1>1. /\ size' = size /\ settings' = settings /\ changed' = changed /\ known' = known /\ issue' = issue
      /\ reloading' = reloading /\ fileend' = fileend /\ workers' = workers /\ posted' = posted /\ lost' = lost
  BY DEF indexVars, file
<1>2. ControlOK' /\ IsQueue(posted') /\ OneEach'
  BY <1>1 DEF IndexInv, ControlOK, OneEach
<1>3. FlagMeansReload'
  BY <1>1, Zenon DEF IndexInv, FlagMeansReload
<1>4. LatestKnows'
  BY <1>1 DEF IndexInv, LatestKnows, Upto
<1> QED  BY <1>2, <1>3, <1>4 DEF IndexInv

(* The inductive invariant holds in every state the program can reach:     *)
(* builds have issues of their own and end once, the flag is up exactly    *)
(* while a reload is, and what the latest build posted is the whole file.  *)
THEOREM IndexInvariance == IndexSpec => []IndexInv
<1>1. IndexInv /\ [IndexNext]_indexVars => IndexInv'
  <2> SUFFICES ASSUME IndexInv, [IndexNext]_indexVars PROVE IndexInv'
    OBVIOUS
  <2>1. CASE \E n \in FileSizes : Grow(n)
    BY <2>1, GrowInv
  <2>2. CASE HandleTailTimerTick
    BY <2>2, TailTimerInv
  <2>3. CASE \E locked \in BOOLEAN : HandleFileChanged(locked)
    BY <2>3, FileChangedInv
  <2>4. CASE RebuildIndex
    BY <2>4, RebuildInv
  <2>5. CASE \E w \in workers : ScanFile(w) \/ ScanFails(w)
    BY <2>5, ScanFileInv, ScanFailsInv
  <2>6. CASE MergeResults
    BY <2>6, MergeInv
  <2>7. CASE BuildDone
    BY <2>7, BuildDoneInv
  <2>8. CASE UNCHANGED indexVars
    BY <2>8, StutterInv
  <2> QED  BY <2>1, <2>2, <2>3, <2>4, <2>5, <2>6, <2>7, <2>8 DEF IndexNext
<1> QED  BY <1>1, InitInv, PTL DEF IndexSpec

(* An incremental build is refused exactly while the latest build is a     *)
(* reload that has not reported its end, however the builds cancel each    *)
(* other, fail and end out of turn (Build, BuildWorker).                   *)
THEOREM RefusedOnlyForAReload == IndexSpec => []FlagMeansReload
<1>1. IndexInv => FlagMeansReload
  BY DEF IndexInv
<1> QED  BY <1>1, IndexInvariance, PTL

(* With the timer or the watcher on, once they have nothing more to report *)
(* and nothing was lost the index knows the whole file                     *)
(* (HandleTailTimerTick, HandleFileChanged, Build, MergeResults).          *)
THEOREM NothingMissed == IndexSpec => []QuietKnowsAll
<1>1. IndexInv => QuietKnowsAll
  <2> SUFFICES ASSUME IndexInv, settings.tail \/ settings.watch, workers = {}, posted = <<>>, ~changed,
                       settings.tail => known = size, ~lost
               PROVE  fileend = size
    BY DEF QuietKnowsAll
  <2>1. DOMAIN posted = {}
    OBVIOUS
  <2> QED  BY <2>1 DEF IndexInv, LatestKnows
<1> QED  BY <1>1, IndexInvariance, PTL

-----------------------------------------------------------------------------
(* The lines the index holds. *)

(* Ranges of bytes.                                                        *)
Bytes == [beg : Nat, end : Nat]

(* Lines in order, without overlap, between two positions of the file.     *)
Run(s, lo, hi) ==
  /\ \A i \in 1..Len(s) : lo <= s[i].beg /\ s[i].beg <= s[i].end /\ s[i].end <= hi
  /\ \A i, j \in 1..Len(s) : i < j => s[i].end <= s[j].beg

LEMMA Quotient ==
  ASSUME NEW n \in Nat, NEW w \in Nat, w >= 1
  PROVE  n \div w \in Nat /\ (n \div w) * w <= n /\ n < (n \div w) * w + w
  OBVIOUS

LEMMA Times ==
  ASSUME NEW a \in Nat, NEW b \in Nat, NEW w \in Nat
  PROVE  a * w \in Nat /\ (a + 1) * w = a * w + w /\ (a <= b => a * w <= b * w)
  OBVIOUS

LEMMA LineStart ==
  ASSUME NEW pos \in Nat
  PROVE  FindLineStart(pos) \in 0..pos
<1>1. LineWidth \in Nat /\ LineWidth >= 1
  BY LineWidthAssumption
<1> QED  BY <1>1, Quotient, Times DEF FindLineStart

LEMMA SubRun ==
  ASSUME NEW s \in Seq(Bytes), NEW lo \in Nat, NEW hi \in Nat, Run(s, lo, hi),
         NEW m \in Nat, NEW n \in Nat, 1 <= m, m <= n + 1, n <= Len(s)
  PROVE  /\ SubSeq(s, m, n) \in Seq(Bytes) /\ Len(SubSeq(s, m, n)) = n - m + 1
         /\ \A i \in 1..(n - m + 1) : SubSeq(s, m, n)[i] = s[i + m - 1]
         /\ Run(SubSeq(s, m, n), lo, hi)
<1> DEFINE t == SubSeq(s, m, n)
<1>1. t \in Seq(Bytes) /\ Len(t) = n - m + 1 /\ Len(s) \in Nat
  OBVIOUS
<1>2. \A i \in 1..(n - m + 1) : t[i] = s[i + m - 1] /\ i + m - 1 \in 1..Len(s)
  BY <1>1
<1> HIDE DEF t
<1>3. \A i, j \in 1..(n - m + 1) : i < j => i + m - 1 < j + m - 1
  OBVIOUS
<1>4. Run(t, lo, hi)
  BY <1>1, <1>2, <1>3 DEF Run
<1> QED  BY <1>1, <1>2, <1>4 DEF t

LEMMA JoinRuns ==
  ASSUME NEW s \in Seq(Bytes), NEW t \in Seq(Bytes), NEW lo \in Nat, NEW m \in Nat, NEW hi \in Nat,
         Run(s, lo, m), Run(t, m, hi), lo <= m, m <= hi
  PROVE  /\ s \o t \in Seq(Bytes) /\ Len(s \o t) = Len(s) + Len(t)
         /\ Run(s \o t, lo, hi)
<1> DEFINE r == s \o t
           n == Len(s)
           k == Len(t)
<1>1. r \in Seq(Bytes) /\ Len(r) = n + k /\ n \in Nat /\ k \in Nat
  OBVIOUS
<1>2. \A i \in 1..(n + k) : r[i] = IF i <= n THEN s[i] ELSE t[i - n]
  BY <1>1
<1>3. /\ \A i \in 1..n : s[i].beg \in Nat /\ s[i].end \in Nat
      /\ \A i \in 1..k : t[i].beg \in Nat /\ t[i].end \in Nat
  <2>1. (\A i \in 1..n : s[i] \in Bytes) /\ (\A i \in 1..k : t[i] \in Bytes)
    OBVIOUS
  <2> QED  BY <2>1 DEF Bytes
<1>4. /\ \A i \in 1..n : lo <= s[i].beg /\ s[i].beg <= s[i].end /\ s[i].end <= m
      /\ \A i, j \in 1..n : i < j => s[i].end <= s[j].beg
      /\ \A i \in 1..k : m <= t[i].beg /\ t[i].beg <= t[i].end /\ t[i].end <= hi
      /\ \A i, j \in 1..k : i < j => t[i].end <= t[j].beg
  BY DEF Run
<1> HIDE DEF r, n, k
<1>5. ASSUME NEW i \in 1..(n + k) PROVE lo <= r[i].beg /\ r[i].beg <= r[i].end /\ r[i].end <= hi
  <2>1. CASE i <= n
    <3>1. i \in 1..n /\ r[i] = s[i]
      BY <1>1, <1>2, <2>1
    <3> QED  BY <1>3, <1>4, <3>1
  <2>2. CASE ~(i <= n)
    <3>1. i - n \in 1..k /\ r[i] = t[i - n]
      BY <1>1, <1>2, <2>2
    <3> QED  BY <1>3, <1>4, <3>1
  <2> QED  BY <2>1, <2>2
<1>6. ASSUME NEW i \in 1..(n + k), NEW j \in 1..(n + k), i < j PROVE r[i].end <= r[j].beg
  <2>1. CASE j <= n
    BY <1>1, <1>2, <1>4, <1>6, <2>1
  <2>2. CASE ~(j <= n)
    <3>1. j - n \in 1..k /\ r[j] = t[j - n]
      BY <1>1, <1>2, <2>2
    <3>2. CASE i <= n
      <4>1. r[i] = s[i] /\ i \in 1..n
        BY <1>1, <1>2, <3>2
      <4> QED  BY <1>3, <1>4, <3>1, <4>1
    <3>3. CASE ~(i <= n)
      <4>1. i - n \in 1..k /\ r[i] = t[i - n] /\ i - n < j - n
        BY <1>1, <1>2, <1>6, <3>3
      <4> QED  BY <1>4, <3>1, <4>1
    <3> QED  BY <3>2, <3>3
  <2> QED  BY <2>1, <2>2
<1>7. Run(r, lo, hi)
  BY <1>1, <1>5, <1>6 DEF Run
<1> QED  BY <1>1, <1>7 DEF r, n, k

(* The first and the last lines of a run.                                  *)
LEMMA FirstRun ==
  ASSUME NEW s \in Seq(Bytes), NEW lo \in Nat, NEW hi \in Nat, Run(s, lo, hi), NEW n \in Nat
  PROVE  /\ FirstOf(s, n) \in Seq(Bytes) /\ Run(FirstOf(s, n), lo, hi)
         /\ Len(FirstOf(s, n)) = Least(n, Len(s)) /\ Len(FirstOf(s, n)) <= n
<1>1. Least(n, Len(s)) \in Nat /\ Least(n, Len(s)) <= Len(s) /\ Least(n, Len(s)) <= n
  BY DEF Least
<1> DEFINE m == Least(n, Len(s))
<1> HIDE DEF m
<1>2. m \in Nat /\ m <= Len(s) /\ m <= n
  BY <1>1 DEF m
<1>3. SubSeq(s, 1, m) \in Seq(Bytes) /\ Len(SubSeq(s, 1, m)) = m /\ Run(SubSeq(s, 1, m), lo, hi)
  BY <1>2, SubRun
<1> QED  BY <1>2, <1>3 DEF FirstOf, m

LEMMA LastRun ==
  ASSUME NEW s \in Seq(Bytes), NEW lo \in Nat, NEW hi \in Nat, Run(s, lo, hi), NEW n \in Nat
  PROVE  /\ LastOf(s, n) \in Seq(Bytes) /\ Run(LastOf(s, n), lo, hi)
         /\ Len(LastOf(s, n)) = Least(n, Len(s)) /\ Len(LastOf(s, n)) <= n
<1> DEFINE m == Most(1, Len(s) - n + 1)
<1>1. m \in Nat /\ 1 <= m /\ m <= Len(s) + 1 /\ Len(s) - m + 1 = Least(n, Len(s)) /\ Least(n, Len(s)) <= n /\ Len(s) \in Nat
  <2>1. Len(s) \in Nat
    OBVIOUS
  <2>2. CASE n <= Len(s)
    <3>1. m = IF n = Len(s) THEN 1 ELSE Len(s) - n + 1
      BY <2>1, <2>2 DEF Most
    <3>2. Least(n, Len(s)) = n
      BY <2>1, <2>2 DEF Least
    <3> HIDE DEF m
    <3> QED  BY <2>1, <2>2, <3>1, <3>2
  <2>3. CASE n > Len(s)
    <3>1. m = 1
      BY <2>1, <2>3 DEF Most
    <3>2. Least(n, Len(s)) = Len(s)
      BY <2>1, <2>3 DEF Least
    <3> HIDE DEF m
    <3> QED  BY <2>1, <2>3, <3>1, <3>2
  <2> QED  BY <2>1, <2>2, <2>3
<1> HIDE DEF m
<1>2. SubSeq(s, m, Len(s)) \in Seq(Bytes) /\ Len(SubSeq(s, m, Len(s))) = Len(s) - m + 1 /\ Run(SubSeq(s, m, Len(s)), lo, hi)
  BY <1>1, SubRun
<1> QED  BY <1>1, <1>2 DEF LastOf, m

-----------------------------------------------------------------------------
(* The lines between two positions are in order between them.              *)
LEMMA LinesRun ==
  ASSUME NEW beg \in Nat, NEW end \in Nat
  PROVE  LinesIn(beg, end) \in Seq(Bytes) /\ Run(LinesIn(beg, end), beg, end)
<1> DEFINE W == LineWidth
           k == beg \div W
           n == IF beg < end THEN (end - 1) \div W - k + 1 ELSE 0
           B(i) == Most(beg, (k + i - 1) * W)
           E(i) == Least((k + i) * W - 1, end)
           s == LinesIn(beg, end)
<1>1. W \in Nat /\ W >= 2
  BY LineWidthAssumption
<1>2. k \in Nat /\ k * W <= beg /\ beg < k * W + W
  BY <1>1, Quotient
<1>3. CASE ~(beg < end)
  <2>1. s = [i \in 1..0 |-> [beg |-> B(i), end |-> E(i)]]
    BY <1>3 DEF LinesIn
  <2>2. s = <<>>
    BY <2>1
  <2>3. s \in Seq(Bytes) /\ Len(s) = 0
    BY <2>2
  <2> HIDE DEF s
  <2>4. Run(s, beg, end)
    BY <2>3 DEF Run
  <2> QED  BY <2>3, <2>4 DEF s
<1>4. CASE beg < end
  <2> DEFINE q == (end - 1) \div W
  <2>1. q \in Nat /\ q * W <= end - 1 /\ end - 1 < q * W + W
    BY <1>1, <1>4, Quotient
  <2>2. k <= q
    <3>1. SUFFICES ASSUME q + 1 <= k PROVE FALSE
      BY <1>2, <2>1
    <3>2. (q + 1) * W <= k * W /\ (q + 1) * W = q * W + W
      BY <1>1, <1>2, <2>1, <3>1, Times
    <3>3. q * W \in Nat /\ k * W \in Nat
      BY <1>1, <1>2, <2>1, Times
    <3> QED  BY <1>1, <1>2, <1>4, <2>1, <3>2, <3>3
  <2>3. s = [i \in 1..(q - k + 1) |-> [beg |-> B(i), end |-> E(i)]]
    BY <1>4 DEF LinesIn
  <2> HIDE DEF s, q
  <2>4. ASSUME NEW i \in 1..(q - k + 1)
        PROVE  B(i) \in Nat /\ E(i) \in Nat /\ beg <= B(i) /\ B(i) <= E(i) /\ E(i) <= end
    <3> DEFINE a == k + i - 1
    <3>1. a \in Nat /\ a + 1 = k + i /\ a >= k /\ a <= q
      BY <1>2, <2>1, <2>2
    <3> HIDE DEF a
    <3>2. a * W \in Nat /\ (a + 1) * W = a * W + W /\ k * W <= a * W /\ a * W <= q * W
      BY <1>1, <1>2, <2>1, <3>1, Times
    <3>3. k * W \in Nat /\ q * W \in Nat
      BY <1>1, <1>2, <2>1, Times
    <3> DEFINE p == a * W
    <3>4. B(i) = Most(beg, p) /\ E(i) = Least(p + W - 1, end)
      <4>1. (k + i) * W = p + W
        BY <3>1, <3>2
      <4>2. B(i) = Most(beg, p)
        BY DEF a
      <4> DEFINE z == (k + i) * W
      <4>3. E(i) = Least(z - 1, end)
        OBVIOUS
      <4>4. z = p + W /\ p \in Nat
        BY <3>2, <4>1
      <4> HIDE DEF p, z, B, E
      <4> QED  BY <1>1, <4>2, <4>3, <4>4
    <3>5. p \in Nat /\ p <= end - 1 /\ beg < p + W
      BY <1>1, <1>2, <2>1, <3>2, <3>3
    <3> HIDE DEF p, B, E
    <3> QED  BY <1>1, <1>4, <3>4, <3>5 DEF Most, Least
  <2>5. ASSUME NEW i \in 1..(q - k + 1), NEW j \in 1..(q - k + 1), i < j PROVE E(i) <= B(j)
    <3>1. k + i \in Nat /\ k + j - 1 \in Nat /\ k + i <= k + j - 1
      BY <1>2, <2>1, <2>5
    <3>2. (k + i) * W \in Nat /\ (k + j - 1) * W \in Nat /\ (k + i) * W <= (k + j - 1) * W
      BY <1>1, <3>1, Times
    <3> DEFINE u == (k + i) * W
               v == (k + j - 1) * W
    <3>3. E(i) = Least(u - 1, end) /\ B(j) = Most(beg, v) /\ u \in Nat /\ v \in Nat /\ u <= v
      BY <3>2
    <3> HIDE DEF u, v, B, E
    <3>4. E(i) <= u - 1 /\ v <= B(j) /\ E(i) \in Int /\ B(j) \in Int
      BY <3>3 DEF Least, Most
    <3> QED  BY <3>3, <3>4
  <2> HIDE DEF B, E
  <2>6. q - k + 1 \in Nat
    BY <1>2, <2>1, <2>2
  <2>7. s \in [1..(q - k + 1) -> Bytes]
    BY <2>3, <2>4 DEF Bytes
  <2>8. s \in Seq(Bytes) /\ Len(s) = q - k + 1
    BY <2>6, <2>7
  <2>9. \A i \in 1..(q - k + 1) : s[i].beg = B(i) /\ s[i].end = E(i)
    BY <2>3
  <2>10. Run(s, beg, end)
    BY <2>4, <2>5, <2>8, <2>9 DEF Run
  <2> QED  BY <2>8, <2>10 DEF s
<1> QED  BY <1>3, <1>4

LEMMA Clamped ==
  ASSUME NEW x \in Int, NEW lo \in Nat, NEW hi \in Nat, lo <= hi
  PROVE  Clamp(x, lo, hi) \in lo..hi
  BY DEF Clamp, Most, Least

(* A scan finds lines of its range, in order, and no more than it was      *)
(* asked for.                                                              *)
LEMMA ScanRun ==
  ASSUME NEW pos \in Int, NEW scan \in Bytes, scan.beg <= scan.end, NEW bwdFirst \in BOOLEAN,
         NEW bwd \in Nat, NEW fwd \in Nat
  PROVE  /\ ScanForLines(pos, scan, bwdFirst, bwd, fwd) \in Seq(Bytes)
         /\ Run(ScanForLines(pos, scan, bwdFirst, bwd, fwd), scan.beg, scan.end)
         /\ Len(ScanForLines(pos, scan, bwdFirst, bwd, fwd)) <= bwd + fwd
<1> DEFINE lo == scan.beg
           hi == scan.end
           from == Clamp(pos, lo, hi)
           ahead == LinesIn(from, hi)
           behind == LinesIn(lo, from)
           limit == IF bwdFirst THEN bwd ELSE fwd
           first == IF bwdFirst THEN LastOf(behind, limit) ELSE FirstOf(ahead, limit)
           rest == IF Len(first) = limit /\ limit > 0 THEN 0 ELSE bwd + fwd - Len(first)
           s == ScanForLines(pos, scan, bwdFirst, bwd, fwd)
<1>1. s = IF bwdFirst THEN first \o FirstOf(ahead, rest) ELSE LastOf(behind, rest) \o first
  BY DEF ScanForLines
<1> HIDE DEF s
<1>2. lo \in Nat /\ hi \in Nat /\ lo <= hi
  BY DEF Bytes
<1> HIDE DEF lo, hi
<1>3. from \in Nat /\ lo <= from /\ from <= hi
  BY <1>2, Clamped
<1> HIDE DEF from
<1>4. /\ ahead \in Seq(Bytes) /\ Run(ahead, from, hi)
      /\ behind \in Seq(Bytes) /\ Run(behind, lo, from)
  BY <1>2, <1>3, LinesRun
<1> HIDE DEF ahead, behind
<1>5. limit \in Nat /\ limit <= bwd + fwd
  OBVIOUS
<1>6. CASE bwdFirst
  <2>1. first = LastOf(behind, limit) /\ s = first \o FirstOf(ahead, rest)
    BY <1>1, <1>6
  <2> HIDE DEF limit
  <2>2. first \in Seq(Bytes) /\ Run(first, lo, from) /\ Len(first) <= limit /\ Len(first) \in Nat
    BY <1>2, <1>3, <1>4, <1>5, <2>1, LastRun
  <2> HIDE DEF first
  <2>3. rest \in Nat /\ Len(first) + rest <= bwd + fwd
    BY <1>5, <2>2
  <2> HIDE DEF rest
  <2>4. FirstOf(ahead, rest) \in Seq(Bytes) /\ Run(FirstOf(ahead, rest), from, hi) /\ Len(FirstOf(ahead, rest)) <= rest
    BY <1>2, <1>3, <1>4, <2>3, FirstRun
  <2>5. s \in Seq(Bytes) /\ Run(s, lo, hi) /\ Len(s) = Len(first) + Len(FirstOf(ahead, rest))
    BY <1>2, <1>3, <2>1, <2>2, <2>4, JoinRuns
  <2>6. Len(FirstOf(ahead, rest)) \in Nat
    BY <2>4
  <2>7. Len(s) <= bwd + fwd
    BY <2>2, <2>3, <2>4, <2>5, <2>6
  <2> QED  BY <2>5, <2>7 DEF s, lo, hi
<1>7. CASE ~bwdFirst
  <2>1. first = FirstOf(ahead, limit) /\ s = LastOf(behind, rest) \o first
    BY <1>1, <1>7
  <2> HIDE DEF limit
  <2>2. first \in Seq(Bytes) /\ Run(first, from, hi) /\ Len(first) <= limit /\ Len(first) \in Nat
    BY <1>2, <1>3, <1>4, <1>5, <2>1, FirstRun
  <2> HIDE DEF first
  <2>3. rest \in Nat /\ Len(first) + rest <= bwd + fwd
    BY <1>5, <2>2
  <2> HIDE DEF rest
  <2>4. LastOf(behind, rest) \in Seq(Bytes) /\ Run(LastOf(behind, rest), lo, from) /\ Len(LastOf(behind, rest)) <= rest
    BY <1>2, <1>3, <1>4, <2>3, LastRun
  <2>5. s \in Seq(Bytes) /\ Run(s, lo, hi) /\ Len(s) = Len(LastOf(behind, rest)) + Len(first)
    BY <1>2, <1>3, <2>1, <2>2, <2>4, JoinRuns
  <2>6. Len(LastOf(behind, rest)) \in Nat
    BY <2>4
  <2>7. Len(s) <= bwd + fwd
    BY <2>2, <2>3, <2>4, <2>5, <2>6
  <2> QED  BY <2>5, <2>7 DEF s, lo, hi
<1> QED  BY <1>6, <1>7

(* The cache has room for the lines on both sides.                         *)
LEMMA TwoSides ==
  /\ BwdLines \in Nat /\ FwdLines \in Nat /\ CacheCount \in Nat /\ BwdLines + FwdLines = CacheCount
  /\ BwdLines >= 1 /\ FwdLines >= 2 /\ FwdLines <= BwdLines + 1 /\ CacheCount >= 3
BY CacheCountAssumption DEF BwdLines, FwdLines, Most

-----------------------------------------------------------------------------
LEMMA WiderRun ==
  ASSUME NEW s \in Seq(Bytes), NEW lo \in Nat, NEW hi \in Nat, Run(s, lo, hi),
         NEW a \in Nat, NEW b \in Nat, a <= lo, hi <= b
  PROVE  Run(s, a, b)
<1>1. \A i \in 1..Len(s) : s[i] \in Bytes
  OBVIOUS
<1>2. \A i \in 1..Len(s) : s[i].beg \in Nat /\ s[i].end \in Nat
  BY <1>1 DEF Bytes
<1> QED  BY <1>2 DEF Run

LEMMA EmptyRun ==
  ASSUME NEW lo, NEW hi
  PROVE  <<>> \in Seq(Bytes) /\ Run(<<>>, lo, hi) /\ Len(<<>>) = 0
<1>1. <<>> \in Seq(Bytes) /\ Len(<<>>) = 0
  OBVIOUS
<1> QED  BY <1>1 DEF Run

(* What a build posts are lines of the file, at most as many as the cache  *)
(* holds, also if the file has grown since it was asked for.               *)
LEMMA BuildRun ==
  ASSUME NEW w, NEW end \in Nat, w.filepos \in Nat, w.reload \in BOOLEAN, w.lines \in Bytes,
         w.lines.beg <= w.lines.end, w.lines.end <= end, w.centre \in Int, w.count \in Nat
  PROVE  /\ BuildAsync(w, end) \in Seq(Bytes) /\ Run(BuildAsync(w, end), 0, end)
         /\ Len(BuildAsync(w, end)) <= CacheCount
<1> DEFINE pos == FindLineStart(Clamp(w.filepos, 0, end))
           s == BuildAsync(w, end)
<1>1. pos \in Nat /\ pos <= end
  <2>1. Clamp(w.filepos, 0, end) \in 0..end
    <3> DEFINE x == w.filepos
    <3>1. x \in Int /\ 0 \in Nat /\ 0 <= end
      OBVIOUS
    <3> HIDE DEF x
    <3>2. Clamp(x, 0, end) \in 0..end
      BY <3>1, Clamped
    <3> QED  BY <3>2 DEF x
  <2> QED  BY <2>1, LineStart
<1>2. s = IF w.reload \/ IsEmpty(w.lines)
          THEN ScanForLines(pos, [beg |-> 0, end |-> end], end - pos > pos, BwdLines, FwdLines)
          ELSE ScanIncrement(w, pos, end)
  BY DEF BuildAsync
<1> HIDE DEF pos, s
<1>3. CASE w.reload \/ IsEmpty(w.lines)
  <2> DEFINE scan == [beg |-> 0, end |-> end]
             first == end - pos > pos
  <2>1. s = ScanForLines(pos, scan, first, BwdLines, FwdLines)
    BY <1>2, <1>3
  <2>2. scan \in Bytes /\ scan.beg = 0 /\ scan.end = end
    BY DEF Bytes
  <2>3. first \in BOOLEAN
    OBVIOUS
  <2> HIDE DEF scan, first
  <2>4. /\ ScanForLines(pos, scan, first, BwdLines, FwdLines) \in Seq(Bytes)
        /\ Run(ScanForLines(pos, scan, first, BwdLines, FwdLines), scan.beg, scan.end)
        /\ Len(ScanForLines(pos, scan, first, BwdLines, FwdLines)) <= BwdLines + FwdLines
    BY <1>1, <2>2, <2>3, TwoSides, ScanRun
  <2> QED  BY <2>1, <2>2, <2>4, TwoSides DEF s
<1>4. CASE ~(w.reload \/ IsEmpty(w.lines))
  <2> DEFINE left == [beg |-> 0, end |-> w.lines.beg]
             right == [beg |-> w.lines.end, end |-> end]
             bwd == BwdLines - Clamp(w.centre, 0, BwdLines)
             fwd == FwdLines - Clamp(w.count - w.centre - 1, 0, FwdLines)
             toLeft == ScanForLines(pos, left, TRUE, bwd, 0)
             toRight == ScanForLines(pos, right, FALSE, 0, fwd)
  <2>1. s = toLeft \/ s = toRight \/ s = <<>>
    <3> DEFINE side == CASE ~IsEmpty(left) /\ ~IsEmpty(right) -> 2 * w.centre - CacheCount
                         [] ~IsEmpty(left) /\ IsEmpty(right) -> -1
                         [] IsEmpty(left) /\ ~IsEmpty(right) -> 1
                         [] OTHER -> 0
    <3>1. s = ScanIncrement(w, pos, end)
      BY <1>2, <1>4
    <3>2. ScanIncrement(w, pos, end) = CASE side < 0 -> toLeft [] side > 0 -> toRight [] OTHER -> <<>>
      BY DEF ScanIncrement
    <3> HIDE DEF side, toLeft, toRight
    <3>3. CASE side < 0
      <4>1. ~(side > 0) \/ side > 0
        OBVIOUS
      <4> QED  BY <3>1, <3>2, <3>3
    <3>4. CASE ~(side < 0)
      BY <3>1, <3>2, <3>4
    <3> QED  BY <3>3, <3>4
  <2>2. /\ left \in Bytes /\ left.beg <= left.end /\ left.beg = 0 /\ left.end <= end /\ left.end \in Nat
        /\ right \in Bytes /\ right.beg <= right.end /\ right.end = end /\ right.beg \in Nat
    BY DEF Bytes
  <2>3. Clamp(w.centre, 0, BwdLines) \in 0..BwdLines
    <3> DEFINE x == w.centre
    <3>1. x \in Int /\ 0 \in Nat /\ 0 <= BwdLines /\ BwdLines \in Nat
      BY TwoSides
    <3> HIDE DEF x
    <3>2. Clamp(x, 0, BwdLines) \in 0..BwdLines
      BY <3>1, Clamped
    <3> QED  BY <3>2 DEF x
  <2>4. Clamp(w.count - w.centre - 1, 0, FwdLines) \in 0..FwdLines
    <3> DEFINE x == w.count - w.centre - 1
    <3>1. x \in Int /\ 0 \in Nat /\ 0 <= FwdLines /\ FwdLines \in Nat
      BY TwoSides
    <3> HIDE DEF x
    <3>2. Clamp(x, 0, FwdLines) \in 0..FwdLines
      BY <3>1, Clamped
    <3> QED  BY <3>2 DEF x
  <2>5. bwd \in Nat /\ bwd + 0 <= CacheCount /\ fwd \in Nat /\ 0 + fwd <= CacheCount /\ CacheCount \in Nat
    BY <2>3, <2>4, TwoSides, CacheCountAssumption
  <2> HIDE DEF left, right, bwd, fwd
  <2> DEFINE none == 0
             yes == TRUE
             no == FALSE
  <2>11. none \in Nat /\ yes \in BOOLEAN /\ no \in BOOLEAN /\ none = 0
    OBVIOUS
  <2>6. toLeft \in Seq(Bytes) /\ Run(toLeft, left.beg, left.end) /\ Len(toLeft) <= bwd + 0
    <3>1. toLeft = ScanForLines(pos, left, yes, bwd, none)
      OBVIOUS
    <3> HIDE DEF none, yes, no, toLeft, toRight
    <3>2. left \in Bytes /\ left.beg <= left.end /\ bwd \in Nat /\ none \in Nat /\ yes \in BOOLEAN /\ pos \in Int
      BY <1>1, <2>2, <2>5, <2>11
    <3>3. /\ ScanForLines(pos, left, yes, bwd, none) \in Seq(Bytes)
          /\ Run(ScanForLines(pos, left, yes, bwd, none), left.beg, left.end)
          /\ Len(ScanForLines(pos, left, yes, bwd, none)) <= bwd + none
      BY <3>2, ScanRun
    <3> QED  BY <2>11, <3>1, <3>3
  <2>7. toRight \in Seq(Bytes) /\ Run(toRight, right.beg, right.end) /\ Len(toRight) <= 0 + fwd
    <3>1. toRight = ScanForLines(pos, right, no, none, fwd)
      OBVIOUS
    <3> HIDE DEF none, yes, no, toLeft, toRight
    <3>2. right \in Bytes /\ right.beg <= right.end /\ fwd \in Nat /\ none \in Nat /\ no \in BOOLEAN /\ pos \in Int
      BY <1>1, <2>2, <2>5, <2>11
    <3>3. /\ ScanForLines(pos, right, no, none, fwd) \in Seq(Bytes)
          /\ Run(ScanForLines(pos, right, no, none, fwd), right.beg, right.end)
          /\ Len(ScanForLines(pos, right, no, none, fwd)) <= none + fwd
      BY <3>2, ScanRun
    <3> QED  BY <2>11, <3>1, <3>3
  <2> HIDE DEF toLeft, toRight
  <2>8. CASE s = toLeft
    <3>1. Run(toLeft, 0, end)
      BY <2>2, <2>6, WiderRun
    <3>2. Len(toLeft) \in Nat
      BY <2>6
    <3> QED  BY <2>5, <2>6, <2>8, <3>1, <3>2 DEF s
  <2>9. CASE s = toRight
    <3>1. Run(toRight, 0, end)
      BY <2>2, <2>7, WiderRun
    <3>2. Len(toRight) \in Nat
      BY <2>7
    <3> QED  BY <2>5, <2>7, <2>9, <3>1, <3>2 DEF s
  <2>10. CASE s = <<>>
    BY <2>5, <2>10, EmptyRun DEF s
  <2> QED  BY <2>1, <2>8, <2>9, <2>10
<1> QED  BY <1>3, <1>4

(* The range of a run.                                                     *)
LEMMA RangeOf ==
  ASSUME NEW s \in Seq(Bytes), NEW hi \in Nat, Run(s, 0, hi)
  PROVE  /\ GetRange(s).beg \in Nat /\ GetRange(s).end \in Nat /\ GetRange(s).beg <= GetRange(s).end
         /\ GetRange(s).end <= hi
         /\ Run(s, GetRange(s).beg, GetRange(s).end)
<1>1. CASE s = <<>>
  <2>1. GetRange(s) = [beg |-> 0, end |-> 0]
    BY <1>1 DEF GetRange, Zero
  <2> QED  BY <1>1, <2>1, EmptyRun
<1>2. CASE s # <<>>
  <2> DEFINE n == Len(s)
  <2>1. n \in Nat /\ n >= 1 /\ Head(s) = s[1] /\ Last(s) = s[n]
    BY <1>2 DEF Last
  <2>2. GetRange(s).beg = s[1].beg /\ GetRange(s).end = s[n].end
    BY <1>2, <2>1 DEF GetRange
  <2>3. \A i \in 1..n : s[i] \in Bytes
    OBVIOUS
  <2>4. \A i \in 1..n : s[i].beg \in Nat /\ s[i].end \in Nat
    BY <2>3 DEF Bytes
  <2>5. /\ \A i \in 1..n : 0 <= s[i].beg /\ s[i].beg <= s[i].end /\ s[i].end <= hi
        /\ \A i, j \in 1..n : i < j => s[i].end <= s[j].beg
    BY DEF Run
  <2> HIDE DEF n
  <2>6. 1 \in 1..n /\ n \in 1..n
    BY <2>1
  <2>7. s[1].beg \in Nat /\ s[n].end \in Nat /\ s[n].end <= hi
    BY <2>4, <2>5, <2>6
  <2>8. ASSUME NEW i \in 1..n PROVE s[1].beg <= s[i].beg /\ s[i].end <= s[n].end
    <3>1. s[1].beg <= s[i].beg
      <4>1. CASE i = 1
        BY <2>7, <4>1
      <4>2. CASE i # 1
        <5>1. s[1].end <= s[i].beg /\ s[1].beg <= s[1].end
          BY <2>1, <2>5, <2>6, <4>2
        <5> QED  BY <2>4, <2>6, <5>1
      <4> QED  BY <4>1, <4>2
    <3>2. s[i].end <= s[n].end
      <4>1. CASE i = n
        BY <2>7, <4>1
      <4>2. CASE i # n
        <5>1. s[i].end <= s[n].beg /\ s[n].beg <= s[n].end
          BY <2>1, <2>5, <2>6, <4>2
        <5> QED  BY <2>4, <2>6, <5>1
      <4> QED  BY <4>1, <4>2
    <3> QED  BY <3>1, <3>2
  <2>9. Run(s, s[1].beg, s[n].end)
    BY <2>5, <2>8 DEF Run, n
  <2>10. s[1].beg <= s[n].end
    BY <2>4, <2>5, <2>6, <2>8
  <2> QED  BY <2>2, <2>7, <2>9, <2>10
<1> QED  BY <1>1, <1>2

-----------------------------------------------------------------------------
(* How many lines a merge takes off the front of the index, ...            *)
TakenOff(s, pos, t) ==
  /\ t \in 0..Len(s)
  /\ \A i \in 1..t : s[i].beg < pos
  /\ t < Len(s) => s[t + 1].beg >= pos

(* ... and how many it leaves when it takes them off the back.             *)
LeftOn(s, pos, t) ==
  /\ t \in 0..Len(s)
  /\ \A i \in (t + 1)..Len(s) : s[i].end > pos
  /\ t > 0 => s[t].end <= pos

LEMMA SomeTakenOff ==
  ASSUME NEW s \in Seq(Bytes), NEW pos \in Nat
  PROVE  \E t : TakenOff(s, pos, t)
<1> DEFINE n == Len(s)
           T == {t \in 0..n : t = n \/ s[t + 1].beg >= pos}
<1>1. n \in Nat /\ \A i \in 1..n : s[i] \in Bytes
  OBVIOUS
<1>2. \A i \in 1..n : s[i].beg \in Nat
  BY <1>1 DEF Bytes
<1> HIDE DEF n
<1>3. T \subseteq Nat /\ n \in T
  BY <1>1
<1>4. PICK t \in T : \A k \in T : t <= k
  BY <1>3, LeastNumber
<1>5. t \in 0..n /\ (t < n => s[t + 1].beg >= pos)
  BY <1>1, <1>4
<1>6. ASSUME NEW i \in 1..t PROVE s[i].beg < pos
  <2>1. i - 1 \in 0..n /\ ~(t <= i - 1) /\ i \in 1..n /\ i - 1 # n /\ (i - 1) + 1 = i
    BY <1>1, <1>5
  <2>2. i - 1 \notin T
    BY <1>4, <2>1
  <2>3. ~(s[i].beg >= pos)
    BY <2>1, <2>2
  <2> QED  BY <1>2, <2>1, <2>3
<1> QED  BY <1>5, <1>6 DEF TakenOff, n

LEMMA SomeLeftOn ==
  ASSUME NEW s \in Seq(Bytes), NEW pos \in Nat
  PROVE  \E t : LeftOn(s, pos, t)
<1> DEFINE n == Len(s)
           T == {u \in 0..n : u = n \/ s[n - u].end <= pos}
<1>1. n \in Nat /\ \A i \in 1..n : s[i] \in Bytes
  OBVIOUS
<1>2. \A i \in 1..n : s[i].end \in Nat
  BY <1>1 DEF Bytes
<1> HIDE DEF n
<1>3. T \subseteq Nat /\ n \in T
  BY <1>1
<1>4. PICK u \in T : \A k \in T : u <= k
  BY <1>3, LeastNumber
<1> DEFINE t == n - u
<1>5. t \in 0..n /\ (t > 0 => s[t].end <= pos) /\ u = n - t
  BY <1>1, <1>4
<1> HIDE DEF t
<1>6. ASSUME NEW i \in (t + 1)..n PROVE s[i].end > pos
  <2>1. n - i \in 0..n /\ ~(u <= n - i) /\ i \in 1..n /\ n - i # n /\ n - (n - i) = i
    BY <1>1, <1>5
  <2>2. n - i \notin T
    BY <1>4, <2>1
  <2>3. ~(s[i].end <= pos)
    BY <2>1, <2>2
  <2> QED  BY <1>2, <2>1, <2>3
<1> QED  BY <1>5, <1>6 DEF LeftOn, n

(* What a merge makes of the index.                                        *)
LEMMA MergeKinds ==
  ASSUME NEW d, d.reload \in BOOLEAN, d.lines \in Seq(Bytes), index \in Seq(Bytes),
         GetRange(d.lines).beg \in Nat, GetRange(d.lines).end \in Nat,
         GetRange(index).beg \in Nat, GetRange(index).end \in Nat
  PROVE  \/ d.reload /\ Merged(d) = d.lines
         \/ /\ ~d.reload /\ GetRange(d.lines).beg < GetRange(index).beg /\ GetRange(d.lines).end <= GetRange(index).end
            /\ \E t : /\ TakenOff(index, GetRange(d.lines).end, t)
                      /\ Merged(d) = FirstOf(d.lines \o SubSeq(index, t + 1, Len(index)), CacheCount)
         \/ /\ ~d.reload /\ GetRange(d.lines).beg >= GetRange(index).beg /\ GetRange(d.lines).end > GetRange(index).end
            /\ \E t : /\ LeftOn(index, GetRange(d.lines).beg, t)
                      /\ Merged(d) = LastOf(SubSeq(index, 1, t) \o d.lines, CacheCount)
         \/ /\ ~d.reload /\ Merged(d) = index
            /\ ~(GetRange(d.lines).beg < GetRange(index).beg /\ GetRange(d.lines).end <= GetRange(index).end)
            /\ ~(GetRange(d.lines).beg >= GetRange(index).beg /\ GetRange(d.lines).end > GetRange(index).end)
<1> DEFINE new == GetRange(d.lines)
           old == GetRange(index)
           n == Len(index)
           off == CHOOSE t \in 0..n : /\ \A i \in 1..t : index[i].beg < new.end
                                      /\ t < n => index[t + 1].beg >= new.end
           on == CHOOSE t \in 0..n : /\ \A i \in (t + 1)..n : index[i].end > new.beg
                                     /\ t > 0 => index[t].end <= new.beg
           toLeft == ~d.reload /\ new.beg < old.beg /\ new.end <= old.end
           toRight == ~d.reload /\ new.beg >= old.beg /\ new.end > old.end
<1>1. Merged(d) = CASE d.reload -> d.lines
                    [] toLeft -> FirstOf(d.lines \o SubSeq(index, off + 1, n), CacheCount)
                    [] toRight -> LastOf(SubSeq(index, 1, on) \o d.lines, CacheCount)
                    [] OTHER -> index
  BY DEF Merged
<1>2. TakenOff(index, new.end, off)
  BY SomeTakenOff DEF TakenOff
<1>3. LeftOn(index, new.beg, on)
  BY SomeLeftOn DEF LeftOn
<1> HIDE DEF off, on
<1>4. ~(toLeft /\ d.reload) /\ ~(toRight /\ d.reload)
  OBVIOUS
<1>5. CASE d.reload
  BY <1>1, <1>4, <1>5
<1>6. CASE toLeft
  <2>1. ~d.reload /\ ~toRight
    BY <1>6
  <2>2. Merged(d) = FirstOf(d.lines \o SubSeq(index, off + 1, n), CacheCount)
    BY <1>1, <1>6, <2>1
  <2> QED  BY <1>2, <1>6, <2>2
<1>7. CASE toRight /\ ~toLeft
  <2>1. ~d.reload
    BY <1>7
  <2>2. Merged(d) = LastOf(SubSeq(index, 1, on) \o d.lines, CacheCount)
    BY <1>1, <1>7, <2>1
  <2> QED  BY <1>3, <1>7, <2>2
<1>8. CASE ~d.reload /\ ~toLeft /\ ~toRight
  BY <1>1, <1>8
<1> QED  BY <1>5, <1>6, <1>7, <1>8

(* A merge leaves lines in order in the part of the file it knows.         *)
LEMMA MergeRun ==
  ASSUME NEW d, d.reload \in BOOLEAN, NEW end \in Nat, fileend \in Nat, fileend <= end,
         d.lines \in Seq(Bytes), Run(d.lines, 0, end), Len(d.lines) <= CacheCount,
         index \in Seq(Bytes), Run(index, 0, fileend), Len(index) <= CacheCount
  PROVE  Merged(d) \in Seq(Bytes) /\ Run(Merged(d), 0, end) /\ Len(Merged(d)) <= CacheCount
<1> DEFINE new == GetRange(d.lines)
           s == d.lines
           n == Len(index)
<1>1. new.beg \in Nat /\ new.end \in Nat /\ new.beg <= new.end /\ new.end <= end /\ Run(s, new.beg, new.end)
  BY RangeOf
<1>2. CacheCount \in Nat /\ n \in Nat
  BY CacheCountAssumption
<1>3. Run(index, 0, end) /\ GetRange(index).beg \in Nat /\ GetRange(index).end \in Nat
  BY WiderRun, RangeOf
<1>4. CASE d.reload /\ Merged(d) = d.lines
  BY <1>4
<1>5. CASE ~d.reload /\ Merged(d) = index
  BY <1>3, <1>5
<1>6. ASSUME NEW t, TakenOff(index, new.end, t), Merged(d) = FirstOf(s \o SubSeq(index, t + 1, n), CacheCount)
      PROVE  Merged(d) \in Seq(Bytes) /\ Run(Merged(d), 0, end) /\ Len(Merged(d)) <= CacheCount
  <2> DEFINE r == SubSeq(index, t + 1, n)
             a == new.beg
             b == new.end
  <2>0. a \in Nat /\ b \in Nat /\ a <= b /\ b <= end /\ Run(s, a, b)
    BY <1>1
  <2>1. t \in 0..n /\ (t < n => index[t + 1].beg >= b)
    BY <1>6 DEF TakenOff
  <2> HIDE DEF a, b
  <2>2. r \in Seq(Bytes) /\ Len(r) = n - t /\ Run(r, 0, end) /\ \A i \in 1..(n - t) : r[i] = index[i + t]
    <3>1. t + 1 \in Nat /\ 1 <= t + 1 /\ t + 1 <= n + 1 /\ n - (t + 1) + 1 = n - t /\ \A i \in 1..(n - t) : i + (t + 1) - 1 = i + t
      BY <1>2, <2>1
    <3> QED  BY <1>2, <1>3, <3>1, SubRun
  <2> HIDE DEF r
  <2>3. Run(r, b, end)
    <3>1. ASSUME NEW i \in 1..(n - t) PROVE b <= r[i].beg
      <4>1. t < n /\ t + 1 \in 1..n /\ i + t \in 1..n /\ index[t + 1].beg >= b
        BY <1>2, <2>1
      <4>2. index[t + 1] \in Bytes /\ index[i + t] \in Bytes
        BY <4>1
      <4>3. index[t + 1].beg \in Nat /\ index[t + 1].end \in Nat /\ index[i + t].beg \in Nat
        BY <4>2 DEF Bytes
      <4>4. CASE i = 1
        <5>1. i + t = t + 1
          BY <1>2, <2>1, <4>4
        <5> QED  BY <2>0, <2>2, <4>1, <4>3, <5>1
      <4>5. CASE i # 1
        <5>1. t + 1 < i + t
          BY <1>2, <2>1, <4>5
        <5>2. index[t + 1].end <= index[i + t].beg /\ index[t + 1].beg <= index[t + 1].end
          BY <1>3, <4>1, <5>1 DEF Run
        <5> QED  BY <2>0, <2>2, <4>1, <4>3, <5>2
      <4> QED  BY <4>4, <4>5
    <3> QED  BY <2>2, <3>1 DEF Run
  <2>4. Run(s, 0, b) /\ s \in Seq(Bytes)
    BY <2>0, WiderRun
  <2> DEFINE z == 0
             m == s \o r
  <2>5. m \in Seq(Bytes) /\ Run(m, z, end) /\ z \in Nat
    <3>1. z \in Nat /\ z <= b /\ b \in Nat /\ b <= end /\ Run(s, z, b)
      BY <2>0, <2>4
    <3> HIDE DEF z, s
    <3> QED  BY <2>2, <2>3, <2>4, <3>1, JoinRuns
  <2>6. Merged(d) = FirstOf(m, CacheCount)
    BY <1>6 DEF r
  <2> HIDE DEF m, z
  <2>7. Merged(d) \in Seq(Bytes) /\ Run(Merged(d), z, end) /\ Len(Merged(d)) <= CacheCount
    BY <1>2, <2>5, <2>6, FirstRun
  <2> QED  BY <2>7 DEF z
<1>7. ASSUME NEW t, LeftOn(index, new.beg, t), Merged(d) = LastOf(SubSeq(index, 1, t) \o s, CacheCount)
      PROVE  Merged(d) \in Seq(Bytes) /\ Run(Merged(d), 0, end) /\ Len(Merged(d)) <= CacheCount
  <2> DEFINE r == SubSeq(index, 1, t)
             a == new.beg
             b == new.end
  <2>0. a \in Nat /\ b \in Nat /\ a <= b /\ b <= end /\ Run(s, a, b)
    BY <1>1
  <2>1. t \in 0..n /\ (t > 0 => index[t].end <= a)
    BY <1>7 DEF LeftOn
  <2> HIDE DEF a, b
  <2>2. r \in Seq(Bytes) /\ Len(r) = t /\ Run(r, 0, end) /\ \A i \in 1..t : r[i] = index[i]
    <3>1. 1 \in Nat /\ 1 <= t + 1 /\ t <= n /\ t - 1 + 1 = t /\ (\A i \in 1..t : i + 1 - 1 = i) /\ t \in Nat
      BY <1>2, <2>1
    <3> QED  BY <1>2, <1>3, <3>1, SubRun
  <2> HIDE DEF r
  <2>3. Run(r, 0, a)
    <3>1. ASSUME NEW i \in 1..t PROVE r[i].end <= a
      <4>1. t > 0 /\ t \in 1..n /\ i \in 1..n /\ index[t].end <= a
        BY <1>2, <2>1
      <4>2. index[t] \in Bytes /\ index[i] \in Bytes
        BY <4>1
      <4>3. index[t].beg \in Nat /\ index[t].end \in Nat /\ index[i].end \in Nat
        BY <4>2 DEF Bytes
      <4>4. CASE i = t
        BY <2>2, <4>1, <4>4
      <4>5. CASE i # t
        <5>1. i < t
          BY <4>1, <4>5
        <5>2. index[i].end <= index[t].beg /\ index[t].beg <= index[t].end
          BY <1>3, <4>1, <5>1 DEF Run
        <5> QED  BY <2>0, <2>2, <4>1, <4>3, <5>2
      <4> QED  BY <4>4, <4>5
    <3> QED  BY <2>2, <3>1 DEF Run
  <2>4. Run(s, a, end) /\ s \in Seq(Bytes)
    BY <2>0, WiderRun
  <2> DEFINE z == 0
             m == r \o s
  <2>5. m \in Seq(Bytes) /\ Run(m, z, end) /\ z \in Nat
    <3>1. z \in Nat /\ z <= a /\ a \in Nat /\ a <= end /\ Run(r, z, a)
      BY <2>0, <2>3
    <3> HIDE DEF z, s
    <3> QED  BY <2>2, <2>4, <3>1, JoinRuns
  <2>6. Merged(d) = LastOf(m, CacheCount)
    BY <1>7 DEF r
  <2> HIDE DEF m, z
  <2>7. Merged(d) \in Seq(Bytes) /\ Run(Merged(d), z, end) /\ Len(Merged(d)) <= CacheCount
    BY <1>2, <2>5, <2>6, LastRun
  <2> QED  BY <2>7 DEF z
<1> QED  BY <1>1, <1>3, <1>4, <1>5, <1>6, <1>7, MergeKinds

-----------------------------------------------------------------------------
(* What a build was asked for, and what it posted.                         *)
AskedWell(w) ==
  /\ w.filepos \in 0..size /\ w.lines \in Bytes /\ w.lines.beg <= w.lines.end /\ w.lines.end <= size
  /\ w.centre \in Int /\ w.count \in Nat

FoundWell(d) ==
  /\ d.fileend \in fileend..size
  /\ d.lines \in Seq(Bytes) /\ Run(d.lines, 0, d.fileend) /\ Len(d.lines) <= CacheCount

(* The lines of the index are in order, and those on their way: their file *)
(* is never shorter than the one that was merged before them.              *)
OrderInv ==
  /\ fileend \in 0..size /\ astray \in BOOLEAN
  /\ index \in Seq(Bytes) /\ Run(index, 0, fileend) /\ Len(index) <= CacheCount
  /\ \A w \in workers : AskedWell(w)
  /\ \A i \in DOMAIN posted : posted[i].merge => FoundWell(posted[i])
  /\ \A i, j \in DOMAIN posted : i < j /\ posted[i].merge /\ posted[j].merge => posted[i].fileend <= posted[j].fileend

-----------------------------------------------------------------------------
(* The steps, by what they do to the lines.                                *)
Stays ==
  size <= size' /\ UNCHANGED <<issue, index, fileend, workers, posted, astray>>

Starts(pos, reload) ==
  /\ issue' = issue + 1
  /\ workers' = workers \cup
       {[issue |-> issue + 1, reload |-> reload, filepos |-> pos, lines |-> LineStartRange,
         centre |-> FindIndex(pos), count |-> Len(index)]}
  /\ UNCHANGED <<size, index, fileend, posted, astray>>

Ends(w) ==
  /\ workers' = workers \ {w}
  /\ posted' = posted \o <<LinesOf(w), EndOf(w)>> \/ posted' = Append(posted, EndOf(w))
  /\ UNCHANGED <<size, issue, index, fileend, astray>>

Drops ==
  /\ posted # <<>> /\ posted' = Tail(posted) /\ (Head(posted).merge => Head(posted).issue # issue)
  /\ UNCHANGED <<size, issue, index, fileend, workers, astray>>

Merges ==
  /\ posted # <<>> /\ posted' = Tail(posted) /\ Head(posted).merge /\ Head(posted).issue = issue
  /\ index' = Merged(Head(posted)) /\ fileend' = Head(posted).fileend
  /\ astray' = (~Near(Head(posted)) \/ (astray /\ ~Head(posted).reload))
  /\ UNCHANGED <<size, issue, workers>>

LEMMA LineSteps ==
  ASSUME IndexInv, fileend \in 0..size, IndexNext
  PROVE  \/ Stays
         \/ \E pos \in fileend..size, reload \in BOOLEAN : Starts(pos, reload)
         \/ \E w \in workers : Ends(w)
         \/ Drops \/ Merges
<1>1. size \in Nat /\ fileend \in Nat /\ fileend <= size
  BY Numbers DEF IndexInv
<1>2. ASSUME NEW n \in FileSizes, Grow(n) PROVE Stays
  <2>1. n \in Nat
    BY BoundsAssumption
  <2> QED  BY <1>1, <1>2, <2>1 DEF Grow, Stays
<1>3. ASSUME NEW pos \in fileend..size, NEW reload \in BOOLEAN, Build(pos, reload), size' = size
      PROVE  Stays \/ Starts(pos, reload)
  BY <1>1, <1>3 DEF Build, Start, Stays, Starts
<1>4. CASE HandleTailTimerTick
  <2>1. Build(size, FALSE)
    BY <1>4, Zenon DEF HandleTailTimerTick
  <2>2. size' = size
    BY <1>4 DEF HandleTailTimerTick
  <2>3. size \in fileend..size
    BY <1>1
  <2> QED  BY <1>3, <2>1, <2>2, <2>3
<1>5. CASE \E locked \in BOOLEAN : HandleFileChanged(locked)
  <2>1. size' = size
    BY <1>5 DEF HandleFileChanged
  <2>4. fileend \in fileend..size
    BY <1>1
  <2>2. CASE Build(fileend, TRUE)
    BY <1>3, <2>1, <2>2, <2>4
  <2>3. CASE UNCHANGED <<known, issue, reloading, index, fileend, workers, posted, astray>>
    BY <1>1, <2>1, <2>3 DEF Stays
  <2> QED  BY <1>5, <2>2, <2>3 DEF HandleFileChanged
<1>6. CASE RebuildIndex
  <2>1. Build(fileend, TRUE)
    BY <1>6, Zenon DEF RebuildIndex
  <2>2. size' = size
    BY <1>6 DEF RebuildIndex, file
  <2>3. fileend \in fileend..size
    BY <1>1
  <2> QED  BY <1>3, <2>1, <2>2, <2>3
<1>7. ASSUME NEW w \in workers, ScanFile(w) \/ ScanFails(w) PROVE Ends(w)
  BY <1>7 DEF ScanFile, ScanFails, Ends, file
<1>8. CASE MergeResults
  <2>1. posted # <<>> /\ posted' = Tail(posted) /\ Head(posted).merge /\ UNCHANGED <<size, issue, workers>>
    BY <1>8 DEF MergeResults, file
  <2>2. CASE Head(posted).issue = issue
    BY <1>8, <2>1, <2>2 DEF MergeResults, Merges
  <2>3. CASE Head(posted).issue # issue
    BY <1>8, <2>1, <2>3 DEF MergeResults, Drops
  <2> QED  BY <2>2, <2>3
<1>9. CASE BuildDone
  BY <1>9 DEF BuildDone, Drops, file
<1> QED  BY <1>2, <1>4, <1>5, <1>6, <1>7, <1>8, <1>9 DEF IndexNext

LEMMA FindIndexType ==
  ASSUME index \in Seq(Bytes), NEW pos
  PROVE  FindIndex(pos) \in Int
<1> DEFINE C == {i \in DOMAIN index : index[i].beg <= pos}
<1>1. IsFiniteSet(1..Len(index)) /\ C \subseteq 1..Len(index) /\ Len(index) \in Nat
  BY FS_Interval
<1>2. IsFiniteSet(C)
  BY <1>1, FS_Subset
<1>3. Cardinality(C) \in Nat
  BY <1>2, FS_CardinalityType
<1>4. FindIndex(pos) \in {0, Len(index), Cardinality(C) - 1}
  BY DEF FindIndex
<1> HIDE DEF C
<1> QED  BY <1>1, <1>3, <1>4

LEMMA LineStartType ==
  ASSUME index \in Seq(Bytes), NEW hi \in Nat, Run(index, 0, hi)
  PROVE  LineStartRange \in Bytes /\ LineStartRange.beg <= LineStartRange.end /\ LineStartRange.end <= hi
<1>1. CASE index = <<>>
  BY <1>1 DEF LineStartRange, Zero, Bytes
<1>2. CASE index # <<>>
  <2> DEFINE n == Len(index)
             a == index[1].beg
             b == index[n].beg
  <2>1. n \in Nat /\ n >= 1 /\ Head(index) = index[1] /\ Last(index) = index[n]
    BY <1>2 DEF Last
  <2>2. LineStartRange = [beg |-> a, end |-> b]
    BY <1>2, <2>1 DEF LineStartRange
  <2>3. index[1] \in Bytes /\ index[n] \in Bytes
    BY <2>1
  <2>4. a \in Nat /\ b \in Nat /\ index[1].end \in Nat /\ index[n].end \in Nat
    BY <2>3 DEF Bytes
  <2>5. a <= index[1].end /\ b <= index[n].end /\ index[n].end <= hi /\ (1 < n => index[1].end <= b)
    BY <2>1 DEF Run
  <2>6. a <= b
    <3>1. CASE n = 1
      BY <2>4, <3>1
    <3>2. CASE n # 1
      BY <2>1, <2>4, <2>5, <3>2
    <3> QED  BY <3>1, <3>2
  <2>7. b <= hi
    BY <2>4, <2>5
  <2> HIDE DEF a, b
  <2> QED  BY <2>2, <2>4, <2>6, <2>7 DEF Bytes
<1> QED  BY <1>1, <1>2

-----------------------------------------------------------------------------
(* What OrderInv says of the queue.                                        *)
FoundInOrder ==
  /\ \A i \in DOMAIN posted : posted[i].merge => FoundWell(posted[i])
  /\ \A i, j \in DOMAIN posted : i < j /\ posted[i].merge /\ posted[j].merge => posted[i].fileend <= posted[j].fileend

(* The index is empty at the start.                                        *)
LEMMA InitOrder == IndexInit => OrderInv
<1> SUFFICES ASSUME IndexInit PROVE OrderInv
  OBVIOUS
<1>1. size \in Nat /\ fileend = 0 /\ astray = FALSE /\ index = <<>> /\ posted = <<>>
  BY BoundsAssumption DEF IndexInit
<1>2. index \in Seq(Bytes) /\ Run(index, 0, fileend) /\ Len(index) = 0
  BY <1>1, EmptyRun
<1>3. \A w \in workers : AskedWell(w)
  <2>1. PICK pos \in {0, size} :
          workers = {[issue |-> 1, reload |-> TRUE, filepos |-> pos, lines |-> Zero, centre |-> 0, count |-> 0]}
    BY DEF IndexInit
  <2>2. \A w \in workers : w.filepos = pos /\ w.lines = Zero /\ w.centre = 0 /\ w.count = 0
    BY <2>1
  <2>3. Zero \in Bytes /\ Zero.beg = 0 /\ Zero.end = 0
    BY DEF Zero, Bytes
  <2> QED  BY <1>1, <2>2, <2>3 DEF AskedWell
<1>4. Len(index) <= CacheCount /\ fileend \in 0..size
  BY <1>1, <1>2, CacheCountAssumption
<1>6. astray \in BOOLEAN
  BY <1>1, Zenon
<1>5. DOMAIN posted = {}
  BY <1>1
<1> QED  BY <1>2, <1>3, <1>4, <1>5, <1>6 DEF OrderInv

(* A build starts: it is asked for lines the index has.                    *)
LEMMA OrderStarts ==
  ASSUME IndexInv, OrderInv, NEW pos \in fileend..size, NEW reload \in BOOLEAN, Starts(pos, reload)
  PROVE  OrderInv'
<1>1. size \in Nat /\ fileend \in Nat /\ fileend <= size
  BY Numbers DEF IndexInv, OrderInv
<1>2. LineStartRange \in Bytes /\ LineStartRange.beg <= LineStartRange.end /\ LineStartRange.end <= size
  BY <1>1, LineStartType DEF OrderInv, Bytes
<1>3. FindIndex(pos) \in Int /\ Len(index) \in Nat
  BY FindIndexType DEF OrderInv
<1>4. \A w \in workers' : AskedWell(w)'
  <2> DEFINE b == [issue |-> issue + 1, reload |-> reload, filepos |-> pos, lines |-> LineStartRange,
                   centre |-> FindIndex(pos), count |-> Len(index)]
  <2>1. workers' = workers \cup {b} /\ size' = size
    BY DEF Starts
  <2>2. b.filepos = pos /\ b.lines = LineStartRange /\ b.centre = FindIndex(pos) /\ b.count = Len(index)
    OBVIOUS
  <2> HIDE DEF b
  <2>3. AskedWell(b)
    BY <1>1, <1>2, <1>3, <2>2 DEF AskedWell
  <2> QED  BY <2>1, <2>3 DEF AskedWell, OrderInv
<1> QED  BY <1>4 DEF Starts, OrderInv, FoundWell

(* A build ends: it scans the file as it is now.                           *)
LEMMA FoundLines ==
  ASSUME IndexInv, OrderInv, NEW w \in workers
  PROVE  LinesOf(w).merge = TRUE /\ LinesOf(w).fileend = size /\ FoundWell(LinesOf(w)) /\ EndOf(w).merge = FALSE
<1>1. size \in Nat /\ fileend \in Nat /\ fileend <= size
  BY Numbers DEF IndexInv, OrderInv
<1>2. AskedWell(w) /\ w.reload \in BOOLEAN
  BY DEF IndexInv, OrderInv, ControlOK
<1>3. BuildAsync(w, size) \in Seq(Bytes) /\ Run(BuildAsync(w, size), 0, size) /\ Len(BuildAsync(w, size)) <= CacheCount
  BY <1>1, <1>2, BuildRun DEF AskedWell
<1>4. <<>> \in Seq(Bytes) /\ Run(<<>>, 0, size) /\ Len(<<>>) <= CacheCount
  BY EmptyRun, CacheCountAssumption
<1>5. LinesOf(w).lines \in {BuildAsync(w, size), <<>>}
  BY DEF LinesOf
<1>6. LinesOf(w).merge = TRUE /\ LinesOf(w).fileend = size /\ EndOf(w).merge = FALSE
  BY DEF LinesOf, EndOf
<1>7. LinesOf(w).fileend \in fileend..size
  BY <1>1, <1>6
<1> QED  BY <1>3, <1>4, <1>5, <1>6, <1>7 DEF FoundWell

LEMMA OrderEnds ==
  ASSUME IndexInv, OrderInv, NEW w \in workers, Ends(w)
  PROVE  OrderInv'
<1>1. IsQueue(posted) /\ UNCHANGED <<size, index, fileend, astray>> /\ workers' = workers \ {w}
  BY DEF IndexInv, Ends
<1>2. LinesOf(w).merge = TRUE /\ LinesOf(w).fileend = size /\ FoundWell(LinesOf(w)) /\ EndOf(w).merge = FALSE
  BY FoundLines
<1>3. /\ \A i \in DOMAIN posted : posted[i].merge => FoundWell(posted[i]) /\ posted[i].fileend <= size
      /\ \A i, j \in DOMAIN posted : i < j /\ posted[i].merge /\ posted[j].merge => posted[i].fileend <= posted[j].fileend
  <2>1. \A d : FoundWell(d) => d.fileend <= size
    BY Numbers DEF FoundWell, IndexInv, OrderInv
  <2> QED  BY <2>1 DEF OrderInv
<1>4. size \in Nat
  BY Numbers DEF IndexInv
<1>5. FoundInOrder'
  <2>1. CASE posted' = posted \o <<LinesOf(w), EndOf(w)>>
    <3> DEFINE r == <<LinesOf(w), EndOf(w)>>
    <3>1. IsQueue(r) /\ Len(r) = 2 /\ r[1] = LinesOf(w) /\ r[2] = EndOf(w)
      <4>1. r \in Seq({LinesOf(w), EndOf(w)})
        OBVIOUS
      <4>2. Len(r) = 2 /\ r[1] = LinesOf(w) /\ r[2] = EndOf(w)
        OBVIOUS
      <4>3. IsQueue(r)
        BY <4>1, QueueOf
      <4> QED  BY <4>2, <4>3
    <3> HIDE DEF r
    <3>2. /\ Len(posted) \in Nat /\ DOMAIN posted = 1..Len(posted)
          /\ DOMAIN (posted \o r) = 1..(Len(posted) + 2)
          /\ \A i \in 1..Len(posted) : (posted \o r)[i] = posted[i]
          /\ (posted \o r)[Len(posted) + 1] = r[1] /\ (posted \o r)[Len(posted) + 2] = r[2]
      BY <1>1, <3>1, QueueOfTwo
    <3>3. posted' = posted \o r
      BY <2>1 DEF r
    <3> DEFINE n == Len(posted)
               q == posted'
    <3>4. /\ n \in Nat /\ DOMAIN posted = 1..n /\ DOMAIN q = 1..(n + 2)
          /\ \A i \in 1..n : q[i] = posted[i]
          /\ q[n + 1] = LinesOf(w) /\ q[n + 2].merge = FALSE
      BY <1>2, <3>1, <3>2, <3>3
    <3> HIDE DEF n
    <3>5. \A i \in DOMAIN q : q[i].merge => i \in 1..n \/ i = n + 1
      BY <3>4
    <3>6. \A i \in DOMAIN q : q[i].merge => FoundWell(q[i])
      BY <1>2, <1>3, <3>4, <3>5
    <3>7. ASSUME NEW i \in DOMAIN q, NEW j \in DOMAIN q, i < j, q[i].merge, q[j].merge
          PROVE  q[i].fileend <= q[j].fileend
      <4>1. i \in 1..n
        BY <3>4, <3>5, <3>7
      <4>2. CASE j \in 1..n
        BY <1>3, <3>4, <3>7, <4>1, <4>2
      <4>3. CASE j = n + 1
        BY <1>2, <1>3, <3>4, <3>7, <4>1, <4>3
      <4> QED  BY <3>5, <3>7, <4>2, <4>3
    <3> QED  BY <1>1, <3>6, <3>7 DEF FoundInOrder, FoundWell
  <2>2. CASE posted' = Append(posted, EndOf(w))
    <3> DEFINE n == Len(posted)
               q == posted'
    <3>1. /\ n \in Nat /\ DOMAIN posted = 1..n /\ DOMAIN q = 1..(n + 1)
          /\ \A i \in 1..n : q[i] = posted[i]
          /\ q[n + 1] = EndOf(w)
      BY <1>1, <2>2, QueueOfOne
    <3> HIDE DEF n
    <3>2. \A i \in DOMAIN q : q[i].merge => i \in 1..n
      BY <1>2, <3>1
    <3>3. \A i \in DOMAIN q : q[i].merge => FoundWell(q[i])
      BY <1>3, <3>1, <3>2
    <3>4. \A i, j \in DOMAIN q : i < j /\ q[i].merge /\ q[j].merge => q[i].fileend <= q[j].fileend
      BY <1>3, <3>1, <3>2
    <3> QED  BY <1>1, <3>3, <3>4 DEF FoundInOrder, FoundWell
  <2> QED  BY <2>1, <2>2 DEF Ends
<1>6. \A v \in workers' : AskedWell(v)'
  BY <1>1 DEF AskedWell, OrderInv
<1> QED  BY <1>1, <1>5, <1>6 DEF OrderInv, FoundInOrder

(* The end of a build, or the lines of one that is not the latest.         *)
LEMMA OrderDrops ==
  ASSUME IndexInv, OrderInv, Drops
  PROVE  OrderInv'
<1>1. IsQueue(posted) /\ posted # <<>> /\ posted' = Tail(posted)
      /\ UNCHANGED <<size, index, fileend, workers, astray>>
  BY DEF IndexInv, Drops
<1>2. DOMAIN posted' = 1..(Len(posted) - 1) /\ \A i \in DOMAIN posted' : posted'[i] = posted[i + 1] /\ i + 1 \in DOMAIN posted
  BY <1>1, QueueTail
<1>3. FoundInOrder'
  BY <1>1, <1>2 DEF FoundInOrder, FoundWell, OrderInv
<1> QED  BY <1>1, <1>3 DEF OrderInv, FoundInOrder, AskedWell

(* The lines of the latest build.                                          *)
LEMMA OrderMerges ==
  ASSUME IndexInv, OrderInv, Merges
  PROVE  OrderInv'
<1> DEFINE d == Head(posted)
<1>1. IsQueue(posted) /\ posted # <<>> /\ posted' = Tail(posted) /\ UNCHANGED <<size, workers>>
      /\ index' = Merged(d) /\ fileend' = d.fileend /\ d.merge
  BY DEF IndexInv, Merges
<1>2. /\ d = posted[1] /\ 1 \in DOMAIN posted /\ DOMAIN posted' = 1..(Len(posted) - 1)
      /\ \A i \in DOMAIN posted' : posted'[i] = posted[i + 1] /\ i + 1 \in DOMAIN posted /\ 1 < i + 1
  BY <1>1, QueueTail
<1>3. FoundWell(d) /\ d.reload \in BOOLEAN
  BY <1>1, <1>2 DEF OrderInv, IndexInv, ControlOK
<1>4. size \in Nat /\ fileend \in Nat /\ fileend <= size
  BY Numbers DEF IndexInv, OrderInv
<1>5. d.fileend \in Nat /\ fileend <= d.fileend /\ d.fileend <= size
  BY <1>3, <1>4 DEF FoundWell
<1> HIDE DEF d
<1>6. Merged(d) \in Seq(Bytes) /\ Run(Merged(d), 0, d.fileend) /\ Len(Merged(d)) <= CacheCount
  BY <1>3, <1>4, <1>5, MergeRun DEF FoundWell, OrderInv
<1>7. astray' \in BOOLEAN
  <2>1. astray' = (~Near(d) \/ (astray /\ ~d.reload))
    BY DEF Merges, d
  <2> QED  BY <2>1, Zenon
<1> DEFINE q == posted'
<1>11. /\ DOMAIN q \subseteq Nat
       /\ \A i \in DOMAIN q : q[i] = posted[i + 1] /\ i + 1 \in DOMAIN posted /\ 1 < i + 1
  BY <1>2
<1>12. q = posted'
  OBVIOUS
<1> HIDE DEF q
<1>8. \A i \in DOMAIN q : q[i].merge => q[i].fileend \in d.fileend..size /\ FoundWell(posted[i + 1])
  <2>1. ASSUME NEW i \in DOMAIN q, q[i].merge PROVE q[i].fileend >= d.fileend /\ FoundWell(posted[i + 1])
    <3>1. posted[i + 1].merge /\ FoundWell(posted[i + 1])
      BY <1>11, <2>1 DEF OrderInv
    <3>2. d.fileend <= posted[i + 1].fileend
      BY <1>1, <1>2, <1>11, <3>1 DEF OrderInv
    <3>3. posted[i + 1].fileend \in Nat
      BY <1>4, <3>1 DEF FoundWell
    <3> QED  BY <1>5, <1>11, <3>1, <3>2, <3>3
  <2>2. ASSUME NEW i \in DOMAIN q, q[i].merge PROVE q[i].fileend \in d.fileend..size
    BY <1>4, <1>5, <1>11, <2>1, <2>2 DEF FoundWell
  <2> QED  BY <2>1, <2>2
<1>13. \A i \in DOMAIN posted' : posted'[i].merge => FoundWell(posted[i])'
  <2>1. \A i \in DOMAIN q : q[i].merge =>
          /\ q[i].fileend \in fileend'..size'
          /\ q[i].lines \in Seq(Bytes) /\ Run(q[i].lines, 0, q[i].fileend) /\ Len(q[i].lines) <= CacheCount
    BY <1>1, <1>8, <1>11 DEF FoundWell
  <2> QED  BY <1>12, <2>1 DEF FoundWell
<1>9. \A i, j \in DOMAIN posted' : i < j /\ posted'[i].merge /\ posted'[j].merge => posted'[i].fileend <= posted'[j].fileend
  <2>1. ASSUME NEW i \in DOMAIN q, NEW j \in DOMAIN q, i < j, q[i].merge, q[j].merge PROVE q[i].fileend <= q[j].fileend
    <3>1. i + 1 < j + 1
      BY <1>11, <2>1
    <3> QED  BY <1>11, <2>1, <3>1 DEF OrderInv
  <2> QED  BY <1>12, <2>1
<1>10. fileend' \in 0..size'
  BY <1>1, <1>4, <1>5
<1>14. \A w \in workers' : AskedWell(w)'
  BY <1>1 DEF OrderInv, AskedWell
<1>15. index' \in Seq(Bytes) /\ Run(index, 0, fileend)' /\ Len(index') <= CacheCount
  BY <1>1, <1>6 DEF Run
<1> QED  BY <1>7, <1>9, <1>10, <1>13, <1>14, <1>15 DEF OrderInv

(* The file grows, or a build is refused.                                  *)
LEMMA OrderStays ==
  ASSUME IndexInv, OrderInv, size' \in Nat, Stays
  PROVE  OrderInv'
<1>1. size \in Nat /\ fileend \in Nat
  BY Numbers DEF IndexInv, OrderInv
<1>2. size <= size' /\ UNCHANGED <<issue, index, fileend, workers, posted, astray>>
  BY DEF Stays
<1>3. \A w \in workers' : AskedWell(w)'
  <2>1. ASSUME NEW w \in workers PROVE AskedWell(w)'
    <3>1. AskedWell(w)
      BY DEF OrderInv
    <3> QED  BY <1>1, <1>2, <3>1 DEF AskedWell, Bytes
  <2> QED  BY <1>2, <2>1
<1>4. \A i \in DOMAIN posted' : posted'[i].merge => FoundWell(posted[i])'
  <2>1. ASSUME NEW i \in DOMAIN posted, posted[i].merge PROVE FoundWell(posted[i])'
    <3>1. FoundWell(posted[i])
      BY <2>1 DEF OrderInv
    <3> QED  BY <1>1, <1>2, <3>1 DEF FoundWell
  <2> QED  BY <1>2, <2>1
<1>5. fileend' \in 0..size'
  BY <1>1, <1>2 DEF OrderInv
<1> QED  BY <1>2, <1>3, <1>4, <1>5 DEF OrderInv

LEMMA LineOrderKept == IndexInv /\ IndexInv' /\ OrderInv /\ [IndexNext]_indexVars => OrderInv'
<1> SUFFICES ASSUME IndexInv, IndexInv', OrderInv, [IndexNext]_indexVars PROVE OrderInv'
  OBVIOUS
<1>1. size \in Nat /\ fileend \in 0..size
  BY Numbers DEF IndexInv, OrderInv
<1>2. CASE UNCHANGED indexVars
  BY <1>2 DEF OrderInv, indexVars, file, AskedWell, FoundWell
<1>3. CASE IndexNext
  <2>2. size' \in Nat
    BY BoundsAssumption DEF IndexInv, ControlOK
  <2>3. \/ Stays
        \/ \E pos \in fileend..size, reload \in BOOLEAN : Starts(pos, reload)
        \/ \E w \in workers : Ends(w)
        \/ Drops \/ Merges
    BY <1>1, <1>3, LineSteps
  <2> QED  BY <2>2, <2>3, OrderStays, OrderStarts, OrderEnds, OrderDrops, OrderMerges
<1> QED  BY <1>2, <1>3

(* Whatever builds are under way, cancelled or merged late: what the index *)
(* holds and what is on its way are lines in order of the part of the file *)
(* that was scanned, and no message knows less of the file than the one    *)
(* before it (BuildAsync, ScanForLines, MergeResults).                     *)
THEOREM OrderInvariance == IndexSpec => []OrderInv
<1>1. IndexInit => OrderInv
  BY InitOrder
<1>2. IndexInv /\ IndexInv' /\ OrderInv /\ [IndexNext]_indexVars => OrderInv'
  BY LineOrderKept
<1> QED  BY <1>1, <1>2, IndexInvariance, PTL DEF IndexSpec

(* The types of the index and of its builds: no line, asked for, found or  *)
(* kept, reaches beyond the end of the file (Build, ScanForLines,          *)
(* MergeResults).                                                          *)
THEOREM IndexTypesKept == IndexSpec => []IndexTypeOK
<1>1. IndexInv /\ OrderInv => IndexTypeOK
  <2> SUFFICES ASSUME IndexInv, OrderInv PROVE IndexTypeOK
    OBVIOUS
  <2>1. size \in Nat /\ fileend \in Nat /\ fileend <= size /\ ControlOK
    BY Numbers DEF IndexInv, OrderInv
  <2>2. index \in Seq(ByteRange)
    <3> DEFINE n == Len(index)
    <3>1. n \in Nat /\ index = [i \in 1..n |-> index[i]] /\ \A i \in 1..n : index[i] \in Bytes
      BY DEF OrderInv
    <3>2. \A i \in 1..n : index[i].beg >= 0 /\ index[i].beg <= index[i].end /\ index[i].end <= fileend
      BY DEF OrderInv, Run
    <3>3. ASSUME NEW i \in 1..n PROVE index[i] \in ByteRange
      <4>1. index[i] = [beg |-> index[i].beg, end |-> index[i].end] /\ index[i].beg \in Nat /\ index[i].end \in Nat
        BY <3>1 DEF Bytes
      <4>2. index[i].beg \in 0..size /\ index[i].end \in 0..size
        BY <2>1, <3>2, <4>1
      <4> QED  BY <4>1, <4>2 DEF ByteRange
    <3> QED  BY <3>1, <3>3
  <2>3. \A w \in workers : w.filepos \in 0..size /\ w.lines \in ByteRange
    <3>1. ASSUME NEW w \in workers PROVE w.filepos \in 0..size /\ w.lines \in ByteRange
      <4>1. AskedWell(w)
        BY DEF OrderInv
      <4>2. w.lines = [beg |-> w.lines.beg, end |-> w.lines.end] /\ w.lines.beg \in Nat /\ w.lines.end \in Nat
        BY <4>1 DEF AskedWell, Bytes
      <4>3. w.lines.beg \in 0..size /\ w.lines.end \in 0..size
        BY <2>1, <4>1, <4>2 DEF AskedWell
      <4> QED  BY <4>1, <4>2, <4>3 DEF AskedWell, ByteRange
    <3> QED  BY <3>1
  <2> QED  BY <2>1, <2>2, <2>3 DEF IndexTypeOK, OrderInv
<1> QED  BY <1>1, IndexInvariance, OrderInvariance, PTL

(* The index holds at most as many lines as the cache, in order and        *)
(* without overlap, in the part of the file it knows (MergeResults).       *)
THEOREM LinesOrdered == IndexSpec => []Ordered
<1>1. OrderInv => Ordered
  <2> SUFFICES ASSUME OrderInv PROVE Ordered
    OBVIOUS
  <2>1. DOMAIN index = 1..Len(index)
    BY DEF OrderInv
  <2> QED  BY <2>1 DEF OrderInv, Ordered, Run
<1> QED  BY <1>1, OrderInvariance, PTL

-----------------------------------------------------------------------------
(* The lines of a file: where one starts, how many there are, and what     *)
(* they are from one on.                                                   *)
LineAt(k) == k * LineWidth
LineCount(e) == IF e = 0 THEN 0 ELSE (e - 1) \div LineWidth + 1
Line(l, e) == [beg |-> LineAt(l), end |-> Least(LineAt(l + 1) - 1, e)]
LinesFrom(k, e) == LinesIn(LineAt(k), e)

LEMMA Positions ==
  /\ LineWidth \in Nat /\ LineWidth >= 2 /\ LineAt(0) = 0
  /\ \A k \in Nat : LineAt(k) \in Nat /\ LineAt(k + 1) = LineAt(k) + LineWidth
  /\ \A j, k \in Nat : j <= k => LineAt(j) <= LineAt(k)
  /\ \A j, k \in Nat : j < k => LineAt(j) + LineWidth <= LineAt(k)
<1>1. LineWidth \in Nat /\ LineWidth >= 2
  BY LineWidthAssumption
<1>2. \A k \in Nat : LineAt(k) \in Nat /\ LineAt(k + 1) = LineAt(k) + LineWidth
  BY <1>1, Times DEF LineAt
<1>3. \A j, k \in Nat : j <= k => LineAt(j) <= LineAt(k)
  BY <1>1, Times DEF LineAt
<1>4. ASSUME NEW j \in Nat, NEW k \in Nat, j < k PROVE LineAt(j) + LineWidth <= LineAt(k)
  <2>1. j + 1 \in Nat /\ j + 1 <= k
    BY <1>4
  <2> QED  BY <1>2, <1>3, <2>1
<1>5. LineAt(0) = 0
  BY <1>1 DEF LineAt
<1> QED  BY <1>1, <1>2, <1>3, <1>4, <1>5

LEMMA CountOf ==
  ASSUME NEW e \in Nat
  PROVE  /\ LineCount(e) \in Nat /\ e <= LineAt(LineCount(e))
         /\ LineCount(e) > 0 => LineAt(LineCount(e) - 1) < e
         /\ (LineCount(e) = 0 <=> e = 0)
<1>1. CASE e = 0
  BY <1>1, Positions DEF LineCount
<1>2. CASE e # 0
  <2> DEFINE q == (e - 1) \div LineWidth
  <2>1. LineCount(e) = q + 1
    BY <1>2 DEF LineCount
  <2>2. q \in Nat /\ LineAt(q) <= e - 1 /\ e - 1 < LineAt(q) + LineWidth
    BY <1>2, Positions, Quotient DEF LineAt
  <2> HIDE DEF q
  <2>3. LineAt(q + 1) = LineAt(q) + LineWidth /\ LineAt(q) \in Nat /\ LineWidth \in Nat
    BY <2>2, Positions
  <2>4. (q + 1) - 1 = q
    BY <2>2
  <2> QED  BY <1>2, <2>1, <2>2, <2>3, <2>4
<1> QED  BY <1>1, <1>2

LEMMA CountIs ==
  ASSUME NEW e \in Nat, NEW m \in Nat, e <= LineAt(m), m > 0 => LineAt(m - 1) < e
  PROVE  LineCount(e) = m
<1> DEFINE n == LineCount(e)
<1>1. n \in Nat /\ e <= LineAt(n) /\ (n > 0 => LineAt(n - 1) < e)
  BY CountOf
<1> HIDE DEF n
<1>2. ~(n < m)
  <2>1. ASSUME n < m PROVE FALSE
    <3>1. m - 1 \in Nat /\ n <= m - 1 /\ m > 0
      BY <1>1, <2>1
    <3>2. LineAt(n) <= LineAt(m - 1) /\ LineAt(m - 1) \in Nat /\ LineAt(n) \in Nat
      BY <1>1, <3>1, Positions
    <3> QED  BY <1>1, <3>1, <3>2
  <2> QED  BY <2>1
<1>3. ~(m < n)
  <2>1. ASSUME m < n PROVE FALSE
    <3>1. n - 1 \in Nat /\ m <= n - 1 /\ n > 0
      BY <1>1, <2>1
    <3>2. LineAt(m) <= LineAt(n - 1) /\ LineAt(n - 1) \in Nat /\ LineAt(m) \in Nat
      BY <1>1, <3>1, Positions
    <3> QED  BY <1>1, <3>1, <3>2
  <2> QED  BY <2>1
<1> QED  BY <1>1, <1>2, <1>3 DEF n

(* Positions and counts.                                                   *)
LEMMA Within ==
  ASSUME NEW k \in Nat, NEW e \in Nat
  PROVE  /\ LineAt(k) <= e => k <= LineCount(e)
         /\ LineAt(k) < e => k < LineCount(e)
         /\ k < LineCount(e) => LineAt(k) < e
         /\ LineCount(LineAt(k)) = k
<1> DEFINE m == LineCount(e)
<1>1. m \in Nat /\ e <= LineAt(m) /\ (m > 0 => LineAt(m - 1) < e)
  BY CountOf
<1> HIDE DEF m
<1>2. LineAt(k) \in Nat /\ LineAt(m) \in Nat /\ LineWidth \in Nat /\ LineWidth >= 2
  BY <1>1, Positions
<1>3. m < k => LineAt(m) + LineWidth <= LineAt(k)
  BY <1>1, Positions
<1>4. m <= k => LineAt(m) <= LineAt(k)
  BY <1>1, Positions
<1>5. LineAt(k) <= e => k <= m
  BY <1>1, <1>2, <1>3
<1>6. LineAt(k) < e => k < m
  BY <1>1, <1>2, <1>4
<1>7. k < m => LineAt(k) < e
  <2>1. ASSUME k < m PROVE LineAt(k) < e
    <3>1. m - 1 \in Nat /\ k <= m - 1 /\ m > 0
      BY <1>1, <2>1
    <3>2. LineAt(k) <= LineAt(m - 1) /\ LineAt(m - 1) \in Nat
      BY <3>1, Positions
    <3> QED  BY <1>1, <1>2, <3>1, <3>2
  <2> QED  BY <2>1
<1>8. LineCount(LineAt(k)) = k
  <2>1. k > 0 => LineAt(k - 1) < LineAt(k)
    <3>1. ASSUME k > 0 PROVE LineAt(k - 1) < LineAt(k)
      <4>1. k - 1 \in Nat /\ k - 1 < k
        BY <3>1
      <4>2. LineAt(k - 1) + LineWidth <= LineAt(k) /\ LineAt(k - 1) \in Nat
        BY <4>1, Positions
      <4> QED  BY <1>2, <4>2
    <3> QED  BY <3>1
  <2>2. LineAt(k) <= LineAt(k)
    BY <1>2
  <2> QED  BY <1>2, <2>1, <2>2, CountIs
<1> QED  BY <1>5, <1>6, <1>7, <1>8 DEF m

LEMMA StartOf ==
  ASSUME NEW pos \in Nat
  PROVE  \E p \in Nat : p = pos \div LineWidth /\ FindLineStart(pos) = LineAt(p) /\ LineAt(p) <= pos /\ pos < LineAt(p) + LineWidth
BY Positions, Quotient DEF FindLineStart, LineAt

(* What FindLines returns from the start of a line on.                     *)
LEMMA LinesFromDef ==
  ASSUME NEW k \in Nat, NEW e \in Nat, LineAt(k) <= e
  PROVE  /\ LineCount(e) - k \in Nat
         /\ LinesFrom(k, e) \in Seq(Bytes) /\ Len(LinesFrom(k, e)) = LineCount(e) - k
         /\ \A i \in 1..(LineCount(e) - k) : LinesFrom(k, e)[i] = Line(k + i - 1, e)
<1> DEFINE b == LineAt(k)
           q == b \div LineWidth
           m == LineCount(e)
           n == IF b < e THEN (e - 1) \div LineWidth - q + 1 ELSE 0
           s == LinesFrom(k, e)
<1>1. b \in Nat /\ m \in Nat /\ k <= m /\ LineWidth \in Nat /\ LineWidth >= 2
  BY Positions, CountOf, Within
<1>2. q = k
  <2>1. q \in Nat /\ LineAt(q) <= b /\ b < LineAt(q) + LineWidth
    BY <1>1, Quotient DEF LineAt
  <2> HIDE DEF q
  <2>2. q < k => LineAt(q) + LineWidth <= LineAt(k)
    BY <2>1, Positions
  <2>3. k < q => LineAt(k) + LineWidth <= LineAt(q)
    BY <2>1, Positions
  <2>4. LineAt(q) \in Nat
    BY <2>1, Positions
  <2> QED  BY <1>1, <2>1, <2>2, <2>3, <2>4 DEF b
<1>3. n = m - k
  <2>1. CASE b < e
    <3> DEFINE y == (e - 1) \div LineWidth
    <3>1. m = y + 1
      BY <1>1, <2>1 DEF LineCount
    <3>2. y \in Nat
      BY <1>1, <2>1, Quotient
    <3>3. n = y - q + 1
      BY <2>1
    <3> HIDE DEF y, m, n, q
    <3> QED  BY <1>1, <1>2, <3>1, <3>2, <3>3
  <2>2. CASE ~(b < e)
    <3>1. b = e
      BY <1>1, <2>2
    <3>2. m = k
      BY <3>1, Within
    <3>3. n = 0
      BY <2>2
    <3> HIDE DEF m, n
    <3> QED  BY <1>1, <3>2, <3>3
  <2> QED  BY <2>1, <2>2
<1>4. s = [i \in 1..n |-> [beg |-> Most(b, (k + i - 1) * LineWidth), end |-> Least((k + i) * LineWidth - 1, e)]]
  BY <1>2 DEF LinesFrom, LinesIn
<1> HIDE DEF s, n, m, q
<1>5. ASSUME NEW i \in 1..(m - k) PROVE s[i] = Line(k + i - 1, e) /\ s[i] \in Bytes
  <2>1. k + i - 1 \in Nat /\ k <= k + i - 1 /\ (k + i - 1) + 1 = k + i /\ k + i \in Nat
    BY <1>1
  <2>2. LineAt(k) <= LineAt(k + i - 1) /\ LineAt(k + i - 1) \in Nat /\ LineAt(k + i) \in Nat
        /\ LineAt(k + i) = LineAt(k + i - 1) + LineWidth
    BY <2>1, Positions
  <2>3. Most(b, LineAt(k + i - 1)) = LineAt(k + i - 1)
    BY <1>1, <2>2 DEF Most
  <2>4. s[i] = [beg |-> Most(b, LineAt(k + i - 1)), end |-> Least(LineAt(k + i) - 1, e)]
    BY <1>3, <1>4 DEF LineAt
  <2>5. Least(LineAt(k + i) - 1, e) \in Nat
    BY <1>1, <2>2 DEF Least
  <2>6. s[i] = Line(k + i - 1, e)
    BY <2>1, <2>3, <2>4 DEF Line
  <2> QED  BY <2>2, <2>3, <2>4, <2>5, <2>6 DEF Bytes
<1>6. m - k \in Nat
  BY <1>1
<1>7. s \in Seq(Bytes) /\ Len(s) = m - k
  <2>1. s = [i \in 1..(m - k) |-> s[i]]
    BY <1>3, <1>4
  <2> QED  BY <1>5, <1>6, <2>1
<1> QED  BY <1>5, <1>6, <1>7 DEF s, m

LEMMA SameLines ==
  ASSUME NEW s \in Seq(Bytes), NEW t \in Seq(Bytes), Len(s) = Len(t), \A i \in 1..Len(s) : s[i] = t[i]
  PROVE  s = t
BY SeqEqual

(* A line that ends before the end of the file.                            *)
LEMMA WholeLine ==
  ASSUME NEW l \in Nat, NEW e \in Nat, LineAt(l + 1) <= e
  PROVE  Line(l, e) = [beg |-> LineAt(l), end |-> LineAt(l + 1) - 1]
<1>1. LineAt(l + 1) \in Nat
  BY Positions
<1> QED  BY <1>1 DEF Line, Least

(* Lines up to the start of one, and from it on.                           *)
LEMMA JoinLines ==
  ASSUME NEW k \in Nat, NEW p \in Nat, NEW e \in Nat, k <= p, LineAt(p) <= e
  PROVE  LinesFrom(k, LineAt(p)) \o LinesFrom(p, e) = LinesFrom(k, e)
<1> DEFINE s == LinesFrom(k, LineAt(p))
           t == LinesFrom(p, e)
           u == LinesFrom(k, e)
           m == LineCount(e)
<1>1. LineAt(p) \in Nat /\ LineAt(k) \in Nat /\ LineAt(k) <= LineAt(p) /\ LineAt(k) <= e
  <2>1. LineAt(p) \in Nat /\ LineAt(k) \in Nat /\ LineAt(k) <= LineAt(p)
    BY Positions
  <2> QED  BY <2>1
<1>2. LineCount(LineAt(p)) = p /\ m \in Nat /\ p <= m
  BY Within, CountOf
<1>3. s \in Seq(Bytes) /\ Len(s) = p - k /\ \A i \in 1..(p - k) : s[i] = Line(k + i - 1, LineAt(p))
  BY <1>1, <1>2, LinesFromDef
<1>4. t \in Seq(Bytes) /\ Len(t) = m - p /\ \A i \in 1..(m - p) : t[i] = Line(p + i - 1, e)
  BY LinesFromDef
<1>5. u \in Seq(Bytes) /\ Len(u) = m - k /\ \A i \in 1..(m - k) : u[i] = Line(k + i - 1, e)
  BY <1>1, LinesFromDef
<1> HIDE DEF s, t, u, m
<1>6. s \o t \in Seq(Bytes) /\ Len(s \o t) = m - k
  BY <1>2, <1>3, <1>4
<1>7. ASSUME NEW i \in 1..(m - k) PROVE (s \o t)[i] = u[i]
  <2>1. CASE i <= p - k
    <3>1. (s \o t)[i] = Line(k + i - 1, LineAt(p))
      BY <1>2, <1>3, <1>4, <2>1
    <3>2. k + i - 1 \in Nat /\ (k + i - 1) + 1 \in Nat /\ (k + i - 1) + 1 <= p
      BY <1>2, <2>1
    <3>3. LineAt((k + i - 1) + 1) <= LineAt(p) /\ LineAt((k + i - 1) + 1) \in Nat
      BY <3>2, Positions
    <3>4. LineAt((k + i - 1) + 1) <= e
      BY <1>1, <3>3
    <3>5. Line(k + i - 1, LineAt(p)) = Line(k + i - 1, e)
      BY <1>1, <3>2, <3>3, <3>4, WholeLine
    <3> QED  BY <1>5, <3>1, <3>5
  <2>2. CASE ~(i <= p - k)
    <3>1. (s \o t)[i] = t[i - (p - k)] /\ i - (p - k) \in 1..(m - p) /\ p + (i - (p - k)) - 1 = k + i - 1
      BY <1>2, <1>3, <1>4, <2>2
    <3> QED  BY <1>4, <1>5, <3>1
  <2> QED  BY <2>1, <2>2
<1>8. s \o t = u
  BY <1>5, <1>6, <1>7, SameLines
<1> QED  BY <1>8 DEF s, t, u

-----------------------------------------------------------------------------
LEMMA FirstLines ==
  ASSUME NEW s \in Seq(Bytes), NEW n \in Nat, Len(s) <= n
  PROVE  FirstOf(s, n) = s
<1>1. Least(n, Len(s)) = Len(s)
  BY DEF Least
<1>2. SubSeq(s, 1, Len(s)) = s
  <2>1. Len(s) \in Nat
    OBVIOUS
  <2> QED  BY <2>1, SubSeqFull
<1> QED  BY <1>1, <1>2 DEF FirstOf

(* The last lines of a file are its lines from one on.                     *)
LEMMA LastLines ==
  ASSUME NEW k \in Nat, NEW e \in Nat, LineAt(k) <= e, NEW n \in Nat, LineCount(e) - k <= n \/ n >= 1
  PROVE  \E j \in Nat : /\ k <= j /\ LineAt(j) <= e /\ LastOf(LinesFrom(k, e), n) = LinesFrom(j, e)
                        /\ j = IF LineCount(e) - k <= n THEN k ELSE LineCount(e) - n
<1> DEFINE m == LineCount(e)
           s == LinesFrom(k, e)
           j == IF m - k <= n THEN k ELSE m - n
           t == LinesFrom(j, e)
           a == Most(1, (m - k) - n + 1)
<1>1. m \in Nat /\ k <= m
  BY CountOf, Within
<1>2. s \in Seq(Bytes) /\ Len(s) = m - k /\ \A i \in 1..(m - k) : s[i] = Line(k + i - 1, e)
  BY LinesFromDef
<1>3. j \in Nat /\ k <= j /\ (j = k \/ j < m) /\ a = j - k + 1
  <2> HIDE DEF m
  <2>1. CASE m - k <= n
    BY <1>1, <2>1 DEF Most
  <2>2. CASE ~(m - k <= n)
    <3>1. j = m - n
      BY <2>2
    <3>2. n >= 1 /\ m - n \in Nat /\ k <= m - n /\ m - n < m
      BY <1>1, <2>2 DEF m
    <3>3. a = (m - k) - n + 1
      BY <1>1, <2>2 DEF Most
    <3> HIDE DEF j, a
    <3> QED  BY <1>1, <3>1, <3>2, <3>3
  <2> QED  BY <2>1, <2>2
<1>4. LineAt(j) <= e
  <2> HIDE DEF j
  <2>1. j < m => LineAt(j) < e
    BY <1>3, Within
  <2>2. LineAt(j) \in Nat
    BY <1>3, Positions
  <2> QED  BY <1>3, <2>1, <2>2
<1>5. t \in Seq(Bytes) /\ Len(t) = m - j /\ \A i \in 1..(m - j) : t[i] = Line(j + i - 1, e)
  BY <1>3, <1>4, LinesFromDef
<1>6. LastOf(s, n) = SubSeq(s, a, m - k)
  BY <1>2 DEF LastOf
<1>7. j <= m
  BY <1>1, <1>3
<1> HIDE DEF m, s, j, t, a
<1> DEFINE u == SubSeq(s, a, m - k)
<1>8. u \in Seq(Bytes) /\ Len(u) = m - j /\ \A i \in 1..(m - j) : u[i] = s[i + a - 1]
  <2>1. a \in 1..(m - k + 1) /\ m - k \in Nat /\ (m - k) - a + 1 = m - j
    BY <1>1, <1>3, <1>7
  <2> DEFINE z == m - k
  <2>2. Len(s) = z /\ z \in Nat /\ a \in Nat /\ a >= 1 /\ a <= z + 1 /\ z - a + 1 = m - j
    BY <1>1, <1>2, <2>1
  <2>3. s \in Seq(Bytes)
    BY <1>2
  <2> HIDE DEF z
  <2>4. SubSeq(s, a, z) \in Seq(Bytes) /\ Len(SubSeq(s, a, z)) = z - a + 1 /\ \A i \in 1..(z - a + 1) : SubSeq(s, a, z)[i] = s[i + a - 1]
    BY <2>2, <2>3
  <2> QED  BY <2>2, <2>4 DEF z
<1> HIDE DEF u
<1>9. ASSUME NEW i \in 1..(m - j) PROVE u[i] = t[i]
  <2>1. i + a - 1 \in 1..(m - k) /\ k + (i + a - 1) - 1 = j + i - 1
    BY <1>1, <1>3, <1>7
  <2> QED  BY <1>2, <1>5, <1>8, <2>1
<1>10. u = t
  BY <1>5, <1>8, <1>9, SameLines
<1>11. LastOf(s, n) = t
  BY <1>6, <1>10 DEF u
<1> QED  BY <1>3, <1>4, <1>11 DEF j, s, t, m

(* All lines but the last one.                                             *)
LEMMA FrontLines ==
  ASSUME NEW k \in Nat, NEW e \in Nat, NEW l \in Nat, k <= l, LineCount(e) = l + 1, LineAt(k) <= e
  PROVE  SubSeq(LinesFrom(k, e), 1, l - k) = LinesFrom(k, LineAt(l))
<1> DEFINE s == LinesFrom(k, e)
           t == LinesFrom(k, LineAt(l))
           u == SubSeq(s, 1, l - k)
<1>1. s \in Seq(Bytes) /\ Len(s) = l + 1 - k /\ \A i \in 1..(l + 1 - k) : s[i] = Line(k + i - 1, e)
  BY LinesFromDef
<1>2. LineAt(l) \in Nat /\ LineAt(k) <= LineAt(l) /\ LineAt(l) < e /\ LineCount(LineAt(l)) = l
  <2>1. LineAt(l) \in Nat /\ LineAt(k) <= LineAt(l)
    BY Positions
  <2>2. l < LineCount(e)
    OBVIOUS
  <2>3. LineAt(l) < e /\ LineCount(LineAt(l)) = l
    BY <2>2, Within
  <2> QED  BY <2>1, <2>3
<1>3. t \in Seq(Bytes) /\ Len(t) = l - k /\ \A i \in 1..(l - k) : t[i] = Line(k + i - 1, LineAt(l))
  BY <1>2, LinesFromDef
<1> HIDE DEF s, t
<1>4. u \in Seq(Bytes) /\ Len(u) = l - k /\ \A i \in 1..(l - k) : u[i] = s[i]
  BY <1>1
<1> HIDE DEF u
<1>5. ASSUME NEW i \in 1..(l - k) PROVE u[i] = t[i]
  <2>1. k + i - 1 \in Nat /\ (k + i - 1) + 1 \in Nat /\ (k + i - 1) + 1 <= l /\ i \in 1..(l + 1 - k)
    OBVIOUS
  <2>2. LineAt((k + i - 1) + 1) <= LineAt(l) /\ LineAt((k + i - 1) + 1) \in Nat
    BY <2>1, Positions
  <2>3. LineAt((k + i - 1) + 1) <= e
    BY <1>2, <2>2
  <2>4. Line(k + i - 1, LineAt(l)) = Line(k + i - 1, e)
    BY <1>2, <2>1, <2>2, <2>3, WholeLine
  <2> QED  BY <1>1, <1>3, <1>4, <2>1, <2>4
<1>6. u = t
  BY <1>3, <1>4, <1>5, SameLines
<1> QED  BY <1>6 DEF s, t, u

LEMMA ClampedIn ==
  ASSUME NEW x \in Int, NEW lo \in Int, NEW hi \in Int, lo <= x, x <= hi
  PROVE  Clamp(x, lo, hi) = x
BY DEF Clamp, Most, Least

(* A scan around a position less than half the cache from the end of the   *)
(* file finds its last lines, all of them or as many as the cache holds.   *)
LEMMA WholeScan ==
  ASSUME NEW p \in Nat, NEW e \in Nat, LineAt(p) <= e, LineCount(e) - p < FwdLines
  PROVE  \E k \in Nat : /\ LineAt(k) <= e /\ (e > 0 => LineAt(k) < e)
                        /\ k = 0 \/ LineCount(e) - k = CacheCount
                        /\ ScanForLines(LineAt(p), [beg |-> 0, end |-> e], e - LineAt(p) > LineAt(p), BwdLines, FwdLines)
                             = LinesFrom(k, e)
<1> DEFINE b == LineAt(p)
           m == LineCount(e)
           B == BwdLines
           F == FwdLines
           C == CacheCount
           ahead == LinesFrom(p, e)
           behind == LinesFrom(0, b)
           scan == [beg |-> 0, end |-> e]
<1>1. B \in Nat /\ F \in Nat /\ C \in Nat /\ B + F = C /\ B >= 1 /\ F >= 2 /\ F <= B + 1 /\ C >= 3
  BY TwoSides
<1>2. b \in Nat /\ 0 <= b /\ b <= e /\ m \in Nat /\ p <= m /\ m - p < F /\ (m = 0 <=> e = 0)
      /\ LineAt(0) = 0 /\ LineCount(b) = p
  BY Positions, CountOf, Within
<1>3. Clamp(b, 0, e) = b
  BY <1>2, ClampedIn
<1>4. ahead \in Seq(Bytes) /\ Len(ahead) = m - p
  BY LinesFromDef
<1>5. behind \in Seq(Bytes) /\ Len(behind) = p
  BY <1>2, LinesFromDef
<1>6. LinesIn(b, e) = ahead /\ LinesIn(0, b) = behind
  BY <1>2 DEF LinesFrom
<1>7. \A k \in Nat : k < m => LineAt(k) < e
  BY Within
<1>8. CASE e - b > b
  <2>1. p < B
    <3>1. LineAt(p + p) = b + b
      BY LineWidthAssumption DEF LineAt
    <3>2. p + p \in Nat /\ LineAt(p + p) < e
      BY <1>2, <1>8, <3>1
    <3>3. p + p < m
      BY <3>2, Within
    <3> HIDE DEF B, F, C, m, b
    <3> QED  BY <1>1, <1>2, <3>3
  <2> DEFINE first == LastOf(behind, B)
             rest == IF Len(first) = B /\ B > 0 THEN 0 ELSE B + F - Len(first)
  <2>2. ScanForLines(b, scan, TRUE, B, F) = first \o FirstOf(ahead, rest)
    BY <1>3, <1>6 DEF ScanForLines
  <2>3. first = behind
    <3>1. PICK j \in Nat : LastOf(behind, B) = LinesFrom(j, b) /\ j = IF p - 0 <= B THEN 0 ELSE p - B
      <4>1. LineAt(0) <= b /\ LineCount(b) - 0 <= B
        BY <1>1, <1>2, <2>1
      <4> HIDE DEF B, b
      <4> QED  BY <1>1, <1>2, <4>1, LastLines DEF behind
    <3>2. j = 0
      <4> HIDE DEF B
      <4> QED  BY <1>1, <2>1, <3>1
    <3> QED  BY <3>1, <3>2
  <2>4. rest = C - p /\ m - p <= rest
    <3>1. Len(first) = p
      BY <1>5, <2>3
    <3> HIDE DEF first, B, F, C, m
    <3> QED  BY <1>1, <1>2, <2>1, <3>1
  <2>5. FirstOf(ahead, rest) = ahead
    <3>1. rest \in Nat
      <4> HIDE DEF rest, m
      <4> QED  BY <1>1, <1>2, <2>1, <2>4
    <3> HIDE DEF rest, ahead, m
    <3> QED  BY <1>4, <2>4, <3>1, FirstLines
  <2>6. behind \o ahead = LinesFrom(0, e)
    <3> DEFINE z == 0
    <3>1. z \in Nat /\ z <= p
      BY <1>2
    <3> HIDE DEF z
    <3>2. LinesFrom(z, LineAt(p)) \o LinesFrom(p, e) = LinesFrom(z, e)
      BY <3>1, JoinLines
    <3> QED  BY <3>2 DEF z
  <2>7. ScanForLines(b, scan, e - b > b, B, F) = LinesFrom(0, e)
    BY <1>8, <2>2, <2>3, <2>5, <2>6
  <2>8. LineAt(0) <= e /\ (e > 0 => LineAt(0) < e) /\ 0 \in Nat
    BY <1>2
  <2> QED  BY <2>7, <2>8
<1>9. CASE ~(e - b > b)
  <2> DEFINE first == FirstOf(ahead, F)
             rest == IF Len(first) = F /\ F > 0 THEN 0 ELSE B + F - Len(first)
  <2>1. ScanForLines(b, scan, FALSE, B, F) = LastOf(behind, rest) \o first
    BY <1>3, <1>6 DEF ScanForLines
  <2>2. first = ahead
    <3> HIDE DEF ahead, F, m
    <3> QED  BY <1>1, <1>2, <1>4, FirstLines
  <2>3. rest = C - (m - p) /\ rest \in Nat /\ rest >= 1
    <3>1. Len(first) = m - p
      BY <1>4, <2>2
    <3> HIDE DEF first, B, F, C, m
    <3> QED  BY <1>1, <1>2, <3>1
  <2> HIDE DEF rest
  <2>4. PICK j \in Nat : /\ LineAt(j) <= b /\ LastOf(behind, rest) = LinesFrom(j, b)
                         /\ j = IF p - 0 <= rest THEN 0 ELSE p - rest
    <3> DEFINE z == 0
    <3>1. LineAt(z) <= b /\ z \in Nat /\ behind = LinesFrom(z, b)
      BY <1>2
    <3> HIDE DEF b, z, behind, C, m
    <3>3. b \in Nat /\ rest \in Nat /\ (LineCount(b) - z <= rest \/ rest >= 1)
      BY <1>2, <2>3
    <3>2. \E j \in Nat : /\ z <= j /\ LineAt(j) <= b /\ LastOf(LinesFrom(z, b), rest) = LinesFrom(j, b)
                          /\ j = IF LineCount(b) - z <= rest THEN z ELSE LineCount(b) - rest
      BY <3>1, <3>3, LastLines
    <3> QED  BY <1>2, <3>1, <3>2 DEF z
  <2>5. j <= p /\ (j = 0 \/ m - j = C)
    <3> HIDE DEF m, C
    <3> QED  BY <1>1, <1>2, <2>3, <2>4
  <2>6. LinesFrom(j, b) \o ahead = LinesFrom(j, e)
    BY <2>5, JoinLines
  <2>7. ScanForLines(b, scan, e - b > b, B, F) = LinesFrom(j, e)
    <3>1. (e - b > b) = FALSE
      BY <1>9
    <3> HIDE DEF b, scan, first, ahead, behind, B, F
    <3> QED  BY <2>1, <2>2, <2>4, <2>6, <3>1
  <2>8. LineAt(j) <= e /\ (e > 0 => LineAt(j) < e)
    <3>1. e > 0 => j < m
      <4> HIDE DEF m, C
      <4> QED  BY <1>1, <1>2, <2>5
    <3>2. LineAt(j) \in Nat
      BY Positions
    <3> HIDE DEF m, b
    <3> QED  BY <1>2, <1>7, <2>4, <3>1, <3>2
  <2> QED  BY <2>5, <2>7, <2>8
<1> QED  BY <1>8, <1>9

(* A scan to the right of a line finds the lines from it on, when they are *)
(* no more than half the cache.                                            *)
LEMMA RightScan ==
  ASSUME NEW l \in Nat, NEW p \in Nat, NEW e \in Nat, l <= p, LineAt(p) <= e, LineCount(e) - l <= FwdLines
  PROVE  ScanForLines(LineAt(p), [beg |-> LineAt(l), end |-> e], FALSE, 0, FwdLines) = LinesFrom(l, e)
<1> DEFINE b == LineAt(p)
           a == LineAt(l)
           m == LineCount(e)
           F == FwdLines
           ahead == LinesFrom(p, e)
           behind == LinesFrom(l, b)
           scan == [beg |-> a, end |-> e]
           first == FirstOf(ahead, F)
           rest == IF Len(first) = F /\ F > 0 THEN 0 ELSE 0 + F - Len(first)
<1>1. F \in Nat /\ F >= 2
  BY TwoSides
<1>2. a \in Nat /\ b \in Nat /\ a <= b /\ b <= e /\ m \in Nat /\ p <= m /\ m - l <= F /\ LineCount(b) = p
  BY Positions, CountOf, Within
<1>3. Clamp(b, a, e) = b
  BY <1>2, ClampedIn
<1>4. ahead \in Seq(Bytes) /\ Len(ahead) = m - p
  BY LinesFromDef
<1>5. LinesIn(b, e) = ahead /\ LinesIn(a, b) = behind
  BY DEF LinesFrom
<1>6. ScanForLines(b, scan, FALSE, 0, F) = LastOf(behind, rest) \o first
  BY <1>3, <1>5 DEF ScanForLines
<1>7. first = ahead
  <2> HIDE DEF ahead, F, m
  <2> QED  BY <1>1, <1>2, <1>4, FirstLines
<1>8. rest = F - (m - p) /\ rest \in Nat /\ p - l <= rest
  <2>1. Len(first) = m - p
    BY <1>4, <1>7
  <2> HIDE DEF first, F, m
  <2> QED  BY <1>1, <1>2, <2>1
<1> HIDE DEF rest
<1>9. PICK j \in Nat : LastOf(behind, rest) = LinesFrom(j, b) /\ j = IF p - l <= rest THEN l ELSE p - rest
  <2> HIDE DEF b
  <2> QED  BY <1>2, <1>8, LastLines DEF behind
<1>10. LastOf(behind, rest) = behind
  BY <1>8, <1>9
<1>11. behind \o ahead = LinesFrom(l, e)
  BY JoinLines
<1> QED  BY <1>6, <1>7, <1>10, <1>11

-----------------------------------------------------------------------------
(* Where the last line of a file ends.                                     *)
LastEnd(e) == Least(LineAt(LineCount(e)) - 1, e)

LEMMA Order ==
  ASSUME NEW j \in Nat, NEW k \in Nat
  PROVE  (LineAt(j) < LineAt(k) => j < k) /\ (LineAt(j) <= LineAt(k) => j <= k)
         /\ (LineAt(j) < LineAt(k) + LineWidth => j <= k)
<1>1. LineAt(j) \in Nat /\ LineAt(k) \in Nat /\ LineWidth \in Nat /\ LineWidth >= 2
  BY Positions
<1>2. k <= j => LineAt(k) <= LineAt(j)
  BY Positions
<1>3. k < j => LineAt(k) + LineWidth <= LineAt(j)
  BY Positions
<1> QED  BY <1>1, <1>2, <1>3

(* The ranges of the lines from one on.                                    *)
LEMMA Ranges ==
  ASSUME NEW k \in Nat, NEW e \in Nat, LineAt(k) < e
  PROVE  LET s == LinesFrom(k, e)
             m == LineCount(e)
         IN /\ m \in Nat /\ k < m /\ s \in Seq(Bytes) /\ Len(s) = m - k /\ s # <<>>
            /\ Head(s).beg = LineAt(k) /\ Last(s).beg = LineAt(m - 1) /\ Last(s).end = LastEnd(e)
            /\ GetRange(s).beg = LineAt(k) /\ GetRange(s).end = LastEnd(e)
            /\ LastEnd(e) \in Nat /\ LineAt(m - 1) < LastEnd(e) /\ LastEnd(e) <= e
<1> DEFINE s == LinesFrom(k, e)
           m == LineCount(e)
<1>1. m \in Nat /\ k < m /\ LineAt(k) <= e /\ LineAt(k) \in Nat
  BY CountOf, Within, Positions
<1>2. s \in Seq(Bytes) /\ Len(s) = m - k /\ \A i \in 1..(m - k) : s[i] = Line(k + i - 1, e)
  BY <1>1, LinesFromDef
<1>3. LineAt(m - 1) < e /\ LineAt(m - 1) \in Nat /\ LineAt(m) = LineAt(m - 1) + LineWidth /\ LineWidth \in Nat /\ LineWidth >= 2
  <2>1. m - 1 \in Nat /\ m > 0 /\ (m - 1) + 1 = m
    BY <1>1
  <2>2. LineAt(m - 1) < e
    BY <2>1, CountOf
  <2>3. LineAt(m - 1) \in Nat /\ LineAt((m - 1) + 1) = LineAt(m - 1) + LineWidth /\ LineWidth \in Nat /\ LineWidth >= 2
    BY <2>1, Positions
  <2> QED  BY <2>1, <2>2, <2>3
<1> HIDE DEF s, m
<1>4. LastEnd(e) = Least(LineAt(m) - 1, e)
  BY DEF LastEnd, m
<1>5. LastEnd(e) \in Nat /\ LineAt(m - 1) < LastEnd(e) /\ LastEnd(e) <= e
  BY <1>3, <1>4 DEF Least
<1>6. s # <<>> /\ Head(s) = s[1] /\ Last(s) = s[m - k]
  BY <1>1, <1>2 DEF Last
<1>7. s[1] = Line(k, e) /\ s[m - k] = Line(m - 1, e)
  <2>1. 1 \in 1..(m - k) /\ m - k \in 1..(m - k) /\ k + 1 - 1 = k /\ k + (m - k) - 1 = m - 1
    BY <1>1
  <2>2. s[1] = Line(k + 1 - 1, e) /\ s[m - k] = Line(k + (m - k) - 1, e)
    BY <1>2, <2>1
  <2> QED  BY <2>1, <2>2
<1>8. Line(k, e).beg = LineAt(k) /\ Line(m - 1, e).beg = LineAt(m - 1) /\ Line(m - 1, e).end = LastEnd(e)
  <2>1. (m - 1) + 1 = m
    BY <1>1
  <2> QED  BY <1>4, <2>1 DEF Line
<1>9. GetRange(s) = [beg |-> Head(s).beg, end |-> Last(s).end]
  BY <1>6 DEF GetRange
<1> QED  BY <1>1, <1>2, <1>3, <1>5, <1>6, <1>7, <1>8, <1>9 DEF s, m

(* When the file grew and its last line ends where it did, all its lines   *)
(* are what they were.                                                     *)
LEMMA EndsAlike ==
  ASSUME NEW k \in Nat, NEW f \in Nat, NEW e \in Nat, LineAt(k) < f, f <= e, LastEnd(e) <= LastEnd(f)
  PROVE  LineCount(e) = LineCount(f) /\ LinesFrom(k, e) = LinesFrom(k, f)
<1> DEFINE m == LineCount(e)
           n == LineCount(f)
           s == LinesFrom(k, e)
           t == LinesFrom(k, f)
<1>1. LineAt(k) < e
  BY Positions
<1>2. /\ m \in Nat /\ k < m /\ LastEnd(e) \in Nat /\ LineAt(m - 1) < LastEnd(e)
      /\ s \in Seq(Bytes) /\ Len(s) = m - k
  BY <1>1, Ranges
<1>3. /\ n \in Nat /\ k < n /\ LastEnd(f) \in Nat /\ LineAt(n - 1) < LastEnd(f) /\ LastEnd(f) <= f
      /\ t \in Seq(Bytes) /\ Len(t) = n - k
  BY Ranges
<1>4. LineAt(n - 1) \in Nat /\ LineAt(m - 1) \in Nat /\ LineAt(n) \in Nat /\ LineAt(n) - 1 \in Int /\ n - 1 \in Nat /\ m - 1 \in Nat
  <2> HIDE DEF m, n
  <2>1. n \in Nat /\ n - 1 \in Nat /\ m - 1 \in Nat
    BY <1>2, <1>3
  <2>2. LineAt(n - 1) \in Nat /\ LineAt(m - 1) \in Nat /\ LineAt(n) \in Nat
    BY <2>1, Positions
  <2> QED  BY <2>1, <2>2
<1>5. LastEnd(f) = Least(LineAt(n) - 1, f)
  BY DEF LastEnd
<1>10. LastEnd(e) = Least(LineAt(m) - 1, e)
  BY DEF LastEnd
<1>11. \A i \in 1..(m - k) : s[i] = Line(k + i - 1, e)
  <2>1. LineAt(k) <= e
    BY <1>1, Positions
  <2> QED  BY <2>1, LinesFromDef
<1>12. \A i \in 1..(n - k) : t[i] = Line(k + i - 1, f)
  <2>1. LineAt(k) <= f
    BY Positions
  <2> QED  BY <2>1, LinesFromDef
<1> HIDE DEF m, n, s, t
<1>6. LineAt(n - 1) < e
  BY <1>3, <1>4
<1>7. n - 1 < m
  <2>1. n - 1 < LineCount(e)
    BY <1>4, <1>6, Within
  <2> QED  BY <2>1 DEF m
<1>8. m <= n
  <2>1. LineAt(m - 1) < LineAt(n)
    BY <1>2, <1>3, <1>4, <1>5 DEF Least
  <2>2. m - 1 < n
    BY <1>3, <1>4, <2>1, Order
  <2> QED  BY <1>2, <1>3, <2>2
<1>9. m = n
  BY <1>2, <1>3, <1>7, <1>8
<1>13. LastEnd(e) = LastEnd(f)
  BY <1>4, <1>5, <1>9, <1>10 DEF Least
<1>14. ASSUME NEW i \in 1..(m - k) PROVE s[i] = t[i]
  <2>1. k + i - 1 \in Nat /\ (k + i - 1) + 1 \in Nat
    OBVIOUS
  <2>2. CASE (k + i - 1) + 1 = m
    <3>1. Line(k + i - 1, e).end = LastEnd(e) /\ Line(k + i - 1, f).end = LastEnd(f)
      BY <1>5, <1>9, <1>10, <2>2 DEF Line
    <3>2. Line(k + i - 1, e) = Line(k + i - 1, f)
      BY <1>13, <3>1 DEF Line
    <3> QED  BY <1>9, <1>11, <1>12, <3>2
  <2>3. CASE (k + i - 1) + 1 # m
    <3>1. (k + i - 1) + 1 <= n - 1
      BY <1>2, <1>9, <2>3
    <3>2. LineAt((k + i - 1) + 1) <= LineAt(n - 1) /\ LineAt((k + i - 1) + 1) \in Nat
      BY <1>4, <2>1, <3>1, Positions
    <3>3. LineAt((k + i - 1) + 1) <= f /\ LineAt((k + i - 1) + 1) <= e
      BY <1>3, <1>4, <3>2
    <3>4. Line(k + i - 1, e) = Line(k + i - 1, f)
      BY <2>1, <3>3, WholeLine
    <3> QED  BY <1>9, <1>11, <1>12, <3>4
  <2> QED  BY <2>2, <2>3
<1>15. s = t
  BY <1>2, <1>3, <1>9, <1>14, SameLines
<1> QED  BY <1>9, <1>15 DEF m, n, s, t

(* The last lines of a file, all of them or as many as the cache holds.    *)
Shown(s, e) ==
  \E k \in Nat : /\ LineAt(k) <= e /\ (e > 0 => LineAt(k) < e)
                 /\ s = LinesFrom(k, e)
                 /\ k = 0 \/ LineCount(e) - k = CacheCount

LEMMA NothingShown ==
  ASSUME NEW s
  PROVE  Shown(s, 0) <=> s = <<>>
<1>1. LineAt(0) = 0 /\ LineCount(0) = 0
  BY Positions DEF LineCount
<1>2. LinesFrom(0, 0) = <<>>
  <2>1. LinesFrom(0, 0) \in Seq(Bytes) /\ Len(LinesFrom(0, 0)) = 0
    <3> DEFINE z == 0
    <3>1. z \in Nat /\ LineAt(z) <= z /\ LineCount(z) = z
      BY <1>1
    <3> HIDE DEF z
    <3>2. LinesFrom(z, z) \in Seq(Bytes) /\ Len(LinesFrom(z, z)) = LineCount(z) - z
      BY <3>1, LinesFromDef
    <3>3. LinesFrom(z, z) \in Seq(Bytes) /\ Len(LinesFrom(z, z)) = 0
      BY <3>1, <3>2
    <3> QED  BY <3>3 DEF z
  <2> QED  BY <2>1
<1>3. ASSUME NEW k \in Nat, LineAt(k) <= 0 PROVE k = 0
  <2>1. LineAt(k) <= LineAt(0)
    BY <1>1, <1>3
  <2> QED  BY <2>1, Order
<1> QED  BY <1>1, <1>2, <1>3 DEF Shown

(* An incremental merge from the right.                                    *)
LEMMA MergeRight ==
  ASSUME NEW d, d.reload = FALSE, d.lines \in Seq(Bytes), index \in Seq(Bytes),
         GetRange(d.lines).beg \in Nat, GetRange(d.lines).end \in Nat,
         GetRange(index).beg \in Nat, GetRange(index).end \in Nat,
         GetRange(index).beg <= GetRange(d.lines).beg
  PROVE  \/ /\ GetRange(d.lines).end > GetRange(index).end
            /\ \E t : LeftOn(index, GetRange(d.lines).beg, t) /\ Merged(d) = LastOf(SubSeq(index, 1, t) \o d.lines, CacheCount)
         \/ GetRange(d.lines).end <= GetRange(index).end /\ Merged(d) = index
<1> DEFINE a == GetRange(index).beg
           b == GetRange(d.lines).beg
           x == GetRange(index).end
           y == GetRange(d.lines).end
           s == d.lines
           z == Merged(d)
<1>1. \/ d.reload
      \/ b < a
      \/ /\ ~d.reload /\ b >= a /\ y > x
         /\ \E t : /\ LeftOn(index, b, t) /\ z = LastOf(SubSeq(index, 1, t) \o s, CacheCount)
      \/ z = index /\ ~(b >= a /\ y > x)
  <2>1. d.reload \in BOOLEAN
    BY Zenon
  <2> QED  BY <2>1, MergeKinds
<1>2. a \in Nat /\ b \in Nat /\ x \in Nat /\ y \in Nat /\ a <= b
  OBVIOUS
<1> HIDE DEF a, b, x, y, s, z
<1>3. ~(b < a) /\ b >= a
  BY <1>2
<1>4. ~(y > x) <=> y <= x
  BY <1>2
<1>5. \/ y > x /\ \E t : LeftOn(index, b, t) /\ z = LastOf(SubSeq(index, 1, t) \o s, CacheCount)
      \/ y <= x /\ z = index
  BY <1>1, <1>3, <1>4
<1> QED  BY <1>5 DEF a, b, x, y, s, z

LEMMA AllOfThem ==
  ASSUME NEW s \in Seq(Bytes), NEW t \in Seq(Bytes), NEW n \in Nat, Len(t) = n \/ (s = <<>> /\ Len(t) <= n)
  PROVE  LastOf(s \o t, n) = t
<1> DEFINE u == s \o t
<1>1. u \in Seq(Bytes) /\ Len(u) = Len(s) + Len(t) /\ Len(s) \in Nat /\ Len(t) \in Nat
      /\ \A i \in 1..Len(t) : u[Len(s) + i] = t[i]
  OBVIOUS
<1>2. Most(1, Len(u) - n + 1) = Len(s) + 1
  <2>1. CASE Len(t) = n
    BY <1>1, <2>1 DEF Most
  <2>2. CASE s = <<>> /\ Len(t) <= n
    <3>1. Len(s) = 0
      BY <2>2
    <3> HIDE DEF u
    <3> QED  BY <1>1, <2>2, <3>1 DEF Most
  <2> QED  BY <2>1, <2>2
<1>3. LastOf(u, n) = SubSeq(u, Len(s) + 1, Len(u))
  BY <1>2 DEF LastOf
<1> DEFINE v == SubSeq(u, Len(s) + 1, Len(u))
<1> HIDE DEF u
<1>4. v \in Seq(Bytes) /\ Len(v) = Len(t) /\ \A i \in 1..Len(t) : v[i] = u[Len(s) + i]
  <2> DEFINE a == Len(s) + 1
             z == Len(u)
  <2>1. a \in Nat /\ a >= 1 /\ z \in Nat /\ a <= z + 1 /\ z - a + 1 = Len(t) /\ Len(u) = z
    BY <1>1
  <2> HIDE DEF a, z
  <2>2. SubSeq(u, a, z) \in Seq(Bytes) /\ Len(SubSeq(u, a, z)) = z - a + 1 /\ \A i \in 1..(z - a + 1) : SubSeq(u, a, z)[i] = u[i + a - 1]
    BY <1>1, <2>1
  <2>3. v = SubSeq(u, a, z)
    BY DEF a, z
  <2>4. \A i \in 1..Len(t) : i + a - 1 = Len(s) + i
    BY <1>1 DEF a
  <2> QED  BY <2>1, <2>2, <2>3, <2>4
<1> HIDE DEF v
<1>5. v = t
  BY <1>1, <1>4, SameLines
<1> QED  BY <1>3, <1>5 DEF u, v

-----------------------------------------------------------------------------
(* An incremental merge beside the last line that was known: it is found   *)
(* again, maybe longer, with those after it.                               *)
LEMMA MergeShown ==
  ASSUME NEW d, d.reload = FALSE, NEW f \in Nat, NEW e \in Nat, f <= e, NEW k \in Nat, NEW j \in Nat,
         LineAt(k) < f, index = LinesFrom(k, f), k = 0 \/ LineCount(f) - k = CacheCount,
         k <= j, LineAt(j) < e, d.lines = LinesFrom(j, e),
         j = LineCount(f) - 1 \/ LineCount(e) - j = CacheCount
  PROVE  Shown(Merged(d), e)
<1> DEFINE m == LineCount(e)
           n == LineCount(f)
           l == n - 1
           C == CacheCount
<1>1. /\ m \in Nat /\ j < m /\ d.lines \in Seq(Bytes) /\ Len(d.lines) = m - j
      /\ GetRange(d.lines).beg = LineAt(j) /\ GetRange(d.lines).end = LastEnd(e) /\ LastEnd(e) \in Nat
  BY Ranges
<1>2. /\ n \in Nat /\ k < n /\ index \in Seq(Bytes) /\ Len(index) = n - k
      /\ GetRange(index).beg = LineAt(k) /\ GetRange(index).end = LastEnd(f) /\ LastEnd(f) \in Nat
      /\ Last(index).end = LastEnd(f) /\ LineAt(l) < LastEnd(f)
  BY Ranges
<1>3. LineAt(k) \in Nat /\ LineAt(j) \in Nat /\ LineAt(k) <= LineAt(j)
  BY Positions
<1>4. \/ /\ LastEnd(e) > LastEnd(f)
         /\ \E t : LeftOn(index, LineAt(j), t) /\ Merged(d) = LastOf(SubSeq(index, 1, t) \o d.lines, C)
      \/ LastEnd(e) <= LastEnd(f) /\ Merged(d) = index
  <2> DEFINE a == GetRange(index)
             b == GetRange(d.lines)
  <2>1. a.beg = LineAt(k) /\ b.beg = LineAt(j) /\ a.end = LastEnd(f) /\ b.end = LastEnd(e)
    BY <1>1, <1>2
  <2>2. a.beg \in Nat /\ b.beg \in Nat /\ a.end \in Nat /\ b.end \in Nat /\ a.beg <= b.beg
    BY <1>1, <1>2, <1>3
  <2>3. \/ b.end > a.end /\ \E t : LeftOn(index, b.beg, t) /\ Merged(d) = LastOf(SubSeq(index, 1, t) \o d.lines, CacheCount)
        \/ b.end <= a.end /\ Merged(d) = index
    BY <1>1, <1>2, <2>2, MergeRight
  <2> QED  BY <2>1, <2>3
<1>5. CASE LastEnd(e) <= LastEnd(f) /\ Merged(d) = index
  <2>1. LineCount(e) = LineCount(f) /\ LinesFrom(k, e) = LinesFrom(k, f)
    BY <1>5, EndsAlike
  <2>2. LineAt(k) <= e /\ LineAt(k) < e
    BY <1>3
  <2> QED  BY <1>5, <2>1, <2>2 DEF Shown
<1>6. CASE /\ LastEnd(e) > LastEnd(f)
           /\ \E t : LeftOn(index, LineAt(j), t) /\ Merged(d) = LastOf(SubSeq(index, 1, t) \o d.lines, C)
  <2>1. PICK t : LeftOn(index, LineAt(j), t) /\ Merged(d) = LastOf(SubSeq(index, 1, t) \o d.lines, C)
    BY <1>6
  <2>2. t \in 0..(n - k) /\ (\A i \in (t + 1)..(n - k) : index[i].end > LineAt(j)) /\ (t > 0 => index[t].end <= LineAt(j))
    BY <1>2, <2>1 DEF LeftOn
  <2>3. CASE m - j = C
    <3> DEFINE s == SubSeq(index, 1, t)
    <3>1. s \in Seq(Bytes)
      <4>1. t \in Nat /\ t <= Len(index)
        BY <1>2, <2>2
      <4> QED  BY <1>2, <4>1
    <3> HIDE DEF s
    <3>2. LastOf(s \o d.lines, C) = d.lines
      <4>1. Len(d.lines) = C /\ C \in Nat
        BY <1>1, <2>3, CacheCountAssumption
      <4> HIDE DEF C
      <4> QED  BY <1>1, <3>1, <4>1, AllOfThem
    <3>3. Merged(d) = LinesFrom(j, e)
      BY <2>1, <3>2 DEF s
    <3>4. LineAt(j) <= e
      BY <1>3
    <3> QED  BY <2>3, <3>3, <3>4 DEF Shown
  <2>4. CASE j = l
    <3>1. \A i \in 1..(n - k) : index[i] = Line(k + i - 1, f)
      <4>1. LineAt(k) <= f
        BY <1>3
      <4> QED  BY <4>1, LinesFromDef
    <3>2. t = l - k
      <4>1. index[n - k].end = LastEnd(f)
        BY <1>2 DEF Last
      <4>2. ~(t = n - k)
        <5>1. ASSUME t = n - k PROVE FALSE
          <6>1. index[t].end <= LineAt(l)
            <7>1. t > 0
              BY <1>2, <5>1
            <7> QED  BY <2>2, <2>4, <7>1
          <6>2. LineAt(l) \in Nat
            BY <1>3, <2>4
          <6> QED  BY <1>2, <4>1, <5>1, <6>1, <6>2
        <5> QED  BY <5>1
      <4>3. ~(t < l - k)
        <5>1. ASSUME t < l - k PROVE FALSE
          <6> DEFINE i == l - k
          <6>1. i \in (t + 1)..(n - k) /\ i \in 1..(n - k) /\ k + i - 1 \in Nat /\ (k + i - 1) + 1 = l /\ l \in Nat
            BY <1>2, <2>2, <5>1
          <6>2. index[i].end > LineAt(l)
            BY <2>2, <2>4, <6>1
          <6>3. LineAt(l) \in Nat /\ LineAt(l) <= f
            BY <1>2, <1>3, <2>4, Ranges
          <6>4. Line(k + i - 1, f) = [beg |-> LineAt(k + i - 1), end |-> LineAt(l) - 1]
            BY <6>1, <6>3, WholeLine
          <6>5. index[i].end = LineAt(l) - 1
            BY <3>1, <6>1, <6>4
          <6> QED  BY <6>2, <6>3, <6>5
        <5> QED  BY <5>1
      <4> HIDE DEF n
      <4> QED  BY <1>2, <2>2, <4>2, <4>3 DEF l
    <3>3. LineAt(l) <= e /\ l \in Nat /\ k <= l /\ n = l + 1
      BY <1>2, <1>3, <2>4
    <3>4. SubSeq(index, 1, t) = LinesFrom(k, LineAt(l))
      <4>1. LineAt(k) <= f
        BY <1>3
      <4> HIDE DEF l
      <4> QED  BY <3>2, <3>3, <4>1, FrontLines
    <3>5. LinesFrom(k, LineAt(l)) \o LinesFrom(l, e) = LinesFrom(k, e)
      <4> HIDE DEF l
      <4> QED  BY <3>3, JoinLines
    <3>6. Merged(d) = LastOf(LinesFrom(k, e), C)
      BY <2>1, <2>4, <3>4, <3>5
    <3>7. PICK g \in Nat : /\ k <= g /\ LineAt(g) <= e /\ LastOf(LinesFrom(k, e), C) = LinesFrom(g, e)
                           /\ g = IF m - k <= C THEN k ELSE m - C
      <4>1. LineAt(k) <= e /\ C \in Nat /\ C >= 1
        BY <1>3, CacheCountAssumption
      <4> HIDE DEF C
      <4> QED  BY <4>1, LastLines
    <3>8. n <= m
      <4> HIDE DEF m, n
      <4> QED  BY <1>1, <1>2, <2>4 DEF l
    <3>9. (g = 0 \/ m - g = C) /\ g < m
      <4>1. C \in Nat /\ C >= 1 /\ (k = 0 \/ n - k = C)
        BY CacheCountAssumption
      <4> HIDE DEF m, n, C
      <4> QED  BY <1>1, <1>2, <3>7, <3>8, <4>1
    <3>10. LineAt(g) < e
      BY <3>9, Within
    <3> QED  BY <3>6, <3>7, <3>9, <3>10 DEF Shown
  <2> QED  BY <2>3, <2>4
<1> QED  BY <1>4, <1>5, <1>6

(* A merge into an empty index.                                            *)
LEMMA MergeFirst ==
  ASSUME NEW d, d.reload = FALSE, NEW e \in Nat, NEW j \in Nat, index = <<>>, d.lines = LinesFrom(j, e),
         Len(d.lines) <= CacheCount, LineAt(j) < e
  PROVE  Merged(d) = d.lines
<1>1. /\ d.lines \in Seq(Bytes) /\ GetRange(d.lines).beg = LineAt(j) /\ GetRange(d.lines).end = LastEnd(e) /\ LastEnd(e) \in Nat
      /\ LineAt(LineCount(e) - 1) < LastEnd(e) /\ LineCount(e) - 1 \in Nat
  BY Ranges
<1>2. LineAt(j) \in Nat /\ LastEnd(e) > 0
  <2>1. LineAt(LineCount(e) - 1) \in Nat /\ LineAt(j) \in Nat
    BY <1>1, Positions
  <2> QED  BY <1>1, <2>1
<1>3. index \in Seq(Bytes) /\ GetRange(index).beg = 0 /\ GetRange(index).end = 0 /\ Len(index) = 0
  BY EmptyRun DEF GetRange, Zero
<1>4. PICK t : LeftOn(index, GetRange(d.lines).beg, t) /\ Merged(d) = LastOf(SubSeq(index, 1, t) \o d.lines, CacheCount)
  <2> DEFINE a == GetRange(index)
             b == GetRange(d.lines)
  <2>1. a.beg \in Nat /\ b.beg \in Nat /\ a.end \in Nat /\ b.end \in Nat /\ a.beg <= b.beg /\ ~(b.end <= a.end)
    BY <1>1, <1>2, <1>3
  <2>2. \/ b.end > a.end /\ \E t : LeftOn(index, b.beg, t) /\ Merged(d) = LastOf(SubSeq(index, 1, t) \o d.lines, CacheCount)
        \/ b.end <= a.end /\ Merged(d) = index
    BY <1>1, <1>3, <2>1, MergeRight
  <2> QED  BY <2>1, <2>2
<1>5. SubSeq(index, 1, t) = <<>>
  <2>1. t = 0
    BY <1>3, <1>4 DEF LeftOn
  <2> QED  BY <1>3, <2>1
<1>6. <<>> \in Seq(Bytes) /\ CacheCount \in Nat
  BY <1>3, CacheCountAssumption
<1>7. LastOf(<<>> \o d.lines, CacheCount) = d.lines
  <2> DEFINE s == <<>>
  <2>1. s \in Seq(Bytes) /\ s = <<>>
    BY <1>6
  <2> HIDE DEF s
  <2>2. LastOf(s \o d.lines, CacheCount) = d.lines
    BY <1>1, <1>6, <2>1, AllOfThem
  <2> QED  BY <2>2 DEF s
<1> QED  BY <1>4, <1>5, <1>7

-----------------------------------------------------------------------------
(* What the build of a message was asked for, and that it was asked of the *)
(* index as it is.                                                         *)
Asked(d) ==
  [reload |-> d.reload, filepos |-> d.filepos, lines |-> LineStartRange, centre |-> FindIndex(d.filepos), count |-> Len(index)]

Scanned(d) == d.filepos \in fileend..d.fileend /\ d.lines = BuildAsync(Asked(d), d.fileend)

(* An increment of an index that ends with the last line but one looks to  *)
(* the right, for half the cache.                                          *)
LooksAhead(w, pos, right) == ScanIncrement(w, pos, right.end) = ScanForLines(pos, right, FALSE, 0, FwdLines)

LEMMA Increment ==
  ASSUME NEW w, NEW pos, NEW e \in Nat, NEW k \in Nat, NEW l \in Nat, LineAt(l) < e,
         w.lines.beg = LineAt(k), w.lines.end = LineAt(l), w.centre = w.count, w.count \in Nat,
         k = 0 \/ w.count = CacheCount, NEW right, right = [beg |-> LineAt(l), end |-> e]
  PROVE  LooksAhead(w, pos, right)
<1> DEFINE left == [beg |-> 0, end |-> w.lines.beg]
           side == CASE ~IsEmpty(left) /\ ~IsEmpty(right) -> 2 * w.centre - CacheCount
                     [] ~IsEmpty(left) /\ IsEmpty(right) -> -1
                     [] IsEmpty(left) /\ ~IsEmpty(right) -> 1
                     [] OTHER -> 0
           ahead == FwdLines - Clamp(w.count - w.centre - 1, 0, FwdLines)
<1>1. LineAt(l) \in Nat /\ LineAt(k) \in Nat /\ LineAt(0) = 0 /\ CacheCount \in Nat /\ CacheCount >= 3
      /\ FwdLines \in Nat /\ FwdLines >= 2
  BY Positions, TwoSides
<1>2. right = [beg |-> LineAt(l), end |-> e] /\ ~IsEmpty(right)
  <2>1. right.beg = LineAt(l) /\ right.end = e
    OBVIOUS
  <2> QED  BY <1>1, <2>1 DEF IsEmpty
<1>3. IsEmpty(left) <=> LineAt(k) = 0
  BY DEF IsEmpty
<1>4. k = 0 => IsEmpty(left)
  BY <1>1, <1>3
<1> HIDE DEF left
<1>5. side > 0
  <2>1. CASE IsEmpty(left)
    <3>1. side = 1
      BY <1>2, <2>1
    <3> QED  BY <3>1
  <2>2. CASE ~IsEmpty(left)
    <3>1. side = 2 * w.centre - CacheCount
      BY <1>2, <2>2
    <3>2. w.centre = CacheCount
      BY <1>4, <2>2
    <3> QED  BY <1>1, <3>1, <3>2
  <2> QED  BY <2>1, <2>2
<1>6. ahead = FwdLines
  <2>1. w.count - w.centre - 1 = -1
    OBVIOUS
  <2>2. Clamp(-1, 0, FwdLines) = 0
    BY <1>1 DEF Clamp, Most, Least
  <2> QED  BY <1>1, <2>1, <2>2
<1>7. ScanIncrement(w, pos, e) =
        CASE side < 0 -> ScanForLines(pos, left, TRUE, BwdLines - Clamp(w.centre, 0, BwdLines), 0)
          [] side > 0 -> ScanForLines(pos, right, FALSE, 0, ahead)
          [] OTHER -> <<>>
  <2>1. right = [beg |-> w.lines.end, end |-> e]
    OBVIOUS
  <2> QED  BY <2>1 DEF ScanIncrement, left
<1>8. ~(side < 0)
  <2>1. side \in Int
    <3>1. w.centre \in Nat
      OBVIOUS
    <3>2. side \in {2 * w.centre - CacheCount, -1, 1, 0}
      OBVIOUS
    <3> HIDE DEF side
    <3> QED  BY <1>1, <3>1, <3>2
  <2> HIDE DEF side
  <2> QED  BY <1>5, <2>1
<1> HIDE DEF side, ahead
<1>9. ScanIncrement(w, pos, e) = ScanForLines(pos, right, FALSE, 0, ahead)
  BY <1>5, <1>7, <1>8
<1>10. right.end = e
  OBVIOUS
<1> QED  BY <1>6, <1>9, <1>10 DEF LooksAhead

(* The lines of the latest build, merged near the end of the file.         *)
LEMMA NearMerge ==
  ASSUME NEW d, d.reload \in BOOLEAN, fileend \in Nat, index \in Seq(Bytes), Run(index, 0, fileend),
         d.fileend \in Nat, d.lines \in Seq(Bytes), Run(d.lines, 0, d.fileend), Len(d.lines) <= CacheCount,
         Scanned(d), Near(d), d.reload \/ Shown(index, fileend)
  PROVE  Shown(Merged(d), d.fileend)
<1> DEFINE e == d.fileend
           f == fileend
           x == d.filepos
           m == LineCount(e)
           n == LineCount(f)
           F == FwdLines
           C == CacheCount
           w == Asked(d)
<1>1. x \in Nat /\ f <= x /\ x <= e /\ d.lines = BuildAsync(w, e) /\ e \in Nat /\ f \in Nat /\ m \in Nat
  <2>1. x \in f..e /\ d.lines = BuildAsync(w, e)
    BY DEF Scanned
  <2>2. e \in Nat /\ f \in Nat
    OBVIOUS
  <2>3. m \in Nat
    BY CountOf
  <2> HIDE DEF e, f, x, w, m
  <2> QED  BY <2>1, <2>2, <2>3
<1>2. PICK p \in Nat : FindLineStart(x) = LineAt(p) /\ LineAt(p) <= x /\ x < LineAt(p) + LineWidth
  BY <1>1, StartOf
<1>3. PICK q \in Nat : FindLineStart(f) = LineAt(q) /\ LineAt(q) <= f /\ f < LineAt(q) + LineWidth
  BY <1>1, StartOf
<1>4. LineAt(p) \in Nat /\ LineAt(q) \in Nat /\ LineAt(p) <= e /\ LineAt(q) <= e /\ F \in Nat
  <2>1. LineAt(p) \in Nat /\ LineAt(q) \in Nat /\ F \in Nat
    BY Positions, TwoSides
  <2> QED  BY <1>1, <1>2, <1>3, <2>1
<1>5. q <= p
  <2>1. LineAt(q) < LineAt(p) + LineWidth
    BY <1>1, <1>2, <1>3, <1>4, LineWidthAssumption
  <2> QED  BY <2>1, Order
<1>6. d.reload => m - p < F
  <2>1. d.reload => Len(LinesFrom(p, e)) < F
    BY <1>2 DEF Near, LinesFrom
  <2>2. Len(LinesFrom(p, e)) = m - p
    BY <1>1, <1>4, LinesFromDef
  <2> QED  BY <2>1, <2>2
<1>7. ~d.reload => m - q < F
  <2>1. ~d.reload => Len(LinesFrom(q, e)) < F
    BY <1>3 DEF Near, LinesFrom
  <2>2. Len(LinesFrom(q, e)) = m - q
    BY <1>1, <1>4, LinesFromDef
  <2> QED  BY <2>1, <2>2
<1>8. m - p < F
  <2> HIDE DEF m, F
  <2> QED  BY <1>1, <1>4, <1>5, <1>6, <1>7
<1> DEFINE whole == ScanForLines(LineAt(p), [beg |-> 0, end |-> e], e - LineAt(p) > LineAt(p), BwdLines, F)
<1>9. d.lines = IF d.reload \/ IsEmpty(LineStartRange) THEN whole ELSE ScanIncrement(w, LineAt(p), e)
  <2>1. w.reload = d.reload /\ w.lines = LineStartRange /\ w.filepos = x
    BY DEF Asked
  <2> HIDE DEF w, x, e
  <2>2. Clamp(x, 0, e) = x
    <3> DEFINE z == 0
    <3>1. z \in Int /\ z <= x
      BY <1>1
    <3> HIDE DEF z
    <3>2. Clamp(x, z, e) = x
      BY <1>1, <3>1, ClampedIn
    <3> QED  BY <3>2 DEF z
  <2>3. BuildAsync(w, e) =
          IF w.reload \/ IsEmpty(w.lines)
          THEN ScanForLines(FindLineStart(Clamp(w.filepos, 0, e)), [beg |-> 0, end |-> e],
                            e - FindLineStart(Clamp(w.filepos, 0, e)) > FindLineStart(Clamp(w.filepos, 0, e)), BwdLines, FwdLines)
          ELSE ScanIncrement(w, FindLineStart(Clamp(w.filepos, 0, e)), e)
    BY DEF BuildAsync
  <2>4. FindLineStart(Clamp(w.filepos, 0, e)) = LineAt(p)
    BY <1>2, <2>1, <2>2
  <2> QED  BY <1>1, <2>1, <2>3, <2>4
<1>10. PICK j \in Nat : /\ LineAt(j) <= e /\ (e > 0 => LineAt(j) < e) /\ (j = 0 \/ m - j = C) /\ whole = LinesFrom(j, e)
  BY <1>1, <1>4, <1>8, WholeScan
<1> HIDE DEF whole
<1>11. /\ GetRange(d.lines).beg \in Nat /\ GetRange(d.lines).end \in Nat /\ GetRange(d.lines).end <= e
       /\ GetRange(index).beg \in Nat /\ GetRange(index).end \in Nat /\ GetRange(index).end <= f
       /\ GetRange(index).beg <= GetRange(index).end
  BY <1>1, RangeOf
<1>12. CASE d.reload
  <2>1. Merged(d) = d.lines
    <3> DEFINE a == GetRange(index)
               b == GetRange(d.lines)
    <3>1. a.beg \in Nat /\ a.end \in Nat /\ b.beg \in Nat /\ b.end \in Nat
      BY <1>11
    <3>2. (d.reload /\ Merged(d) = d.lines) \/ ~d.reload
      BY <3>1, MergeKinds
    <3> QED  BY <1>12, <3>2
  <2>2. d.lines = LinesFrom(j, e)
    BY <1>9, <1>10, <1>12
  <2> QED  BY <1>10, <2>1, <2>2 DEF Shown
<1>13. CASE ~d.reload /\ f = 0
  <2>1. index = <<>>
    BY <1>13, NothingShown
  <2>2. IsEmpty(LineStartRange)
    BY <2>1 DEF LineStartRange, IsEmpty, Zero
  <2>3. d.lines = LinesFrom(j, e)
    BY <1>9, <1>10, <2>2
  <2>4. d.reload = FALSE
    BY <1>13
  <2>5. CASE e = 0
    <3>1. GetRange(index).beg = 0 /\ GetRange(index).end = 0
      BY <2>1 DEF GetRange, Zero
    <3>2. GetRange(d.lines).end <= GetRange(index).end /\ GetRange(index).beg <= GetRange(d.lines).beg
          /\ ~(GetRange(d.lines).end > GetRange(index).end)
      <4> DEFINE a == GetRange(index)
                 b == GetRange(d.lines)
      <4>1. a.beg = 0 /\ a.end = 0 /\ b.beg \in Nat /\ b.end \in Nat /\ b.end <= e
        BY <1>11, <3>1
      <4> HIDE DEF a, b
      <4>2. b.end <= a.end /\ a.beg <= b.beg /\ ~(b.end > a.end)
        BY <2>5, <4>1
      <4> QED  BY <4>2 DEF a, b
    <3>3. Merged(d) = index
      BY <1>11, <2>4, <3>2, MergeRight
    <3> QED  BY <2>1, <2>5, <3>3, NothingShown
  <2>6. CASE e # 0
    <3>1. LineAt(j) < e
      BY <1>1, <1>10, <2>6
    <3>2. Merged(d) = d.lines
      BY <1>1, <2>1, <2>3, <2>4, <3>1, MergeFirst
    <3> QED  BY <1>10, <2>3, <3>2 DEF Shown
  <2> QED  BY <2>5, <2>6
<1>14. CASE ~d.reload /\ f # 0
  <2>1. d.reload = FALSE /\ f > 0 /\ e > 0
    BY <1>1, <1>14
  <2>2. PICK k \in Nat : LineAt(k) < f /\ index = LinesFrom(k, f) /\ (k = 0 \/ n - k = C)
    BY <1>14, <2>1 DEF Shown
  <2> DEFINE l == n - 1
  <2>3. /\ n \in Nat /\ k < n /\ index # <<>> /\ Len(index) = n - k /\ Head(index).beg = LineAt(k)
        /\ Last(index).beg = LineAt(l) /\ Last(index).end = LastEnd(f) /\ LastEnd(f) \in Nat /\ LastEnd(f) <= f
        /\ LineAt(l) < LastEnd(f)
    BY <1>1, <2>2, Ranges
  <2>4. LineStartRange = [beg |-> LineAt(k), end |-> LineAt(l)]
    BY <2>3 DEF LineStartRange
  <2>5. l \in Nat /\ k <= l /\ LineAt(l) \in Nat /\ LineAt(l) < f /\ LineAt(l) < e
    <3>1. l \in Nat /\ k <= l
      BY <2>3
    <3>2. LineAt(l) \in Nat
      BY <3>1, Positions
    <3> HIDE DEF l
    <3> QED  BY <1>1, <2>3, <3>1, <3>2
  <2>6. \A i \in Nat : k <= i /\ LineAt(i) < e /\ d.lines = LinesFrom(i, e) /\ (i = l \/ m - i = C) => Shown(Merged(d), e)
    <3>1. /\ e \in Nat /\ f \in Nat /\ f <= e /\ d.reload = FALSE
          /\ LineAt(k) < f /\ index = LinesFrom(k, f) /\ (k = 0 \/ LineCount(f) - k = CacheCount)
      BY <1>1, <2>1, <2>2
    <3>2. ASSUME NEW i \in Nat, k <= i, LineAt(i) < e, d.lines = LinesFrom(i, e),
                 i = LineCount(f) - 1 \/ LineCount(e) - i = CacheCount
          PROVE  Shown(Merged(d), e)
      <4> HIDE DEF e, f
      <4> QED  BY <3>1, <3>2, MergeShown
    <3> QED  BY <3>2
  <2>7. CASE k = l
    <3>1. IsEmpty(LineStartRange)
      BY <2>4, <2>7 DEF IsEmpty
    <3>2. d.lines = LinesFrom(j, e)
      BY <1>9, <1>10, <3>1
    <3>3. k = 0
      <4>1. C \in Nat /\ C >= 3
        BY CacheCountAssumption
      <4> HIDE DEF n, C
      <4> QED  BY <2>2, <2>3, <2>7, <4>1 DEF l
    <3>4. k <= j /\ LineAt(j) < e /\ (j = l \/ m - j = C)
      BY <1>10, <2>1, <2>7, <3>3
    <3> QED  BY <2>6, <3>2, <3>4
  <2>8. CASE k # l
    <3>1. ~IsEmpty(LineStartRange)
      <4>1. k < l
        <5> HIDE DEF l
        <5> QED  BY <2>5, <2>8
      <4>2. LineAt(k) + LineWidth <= LineAt(l) /\ LineAt(k) \in Nat /\ LineWidth \in Nat /\ LineWidth >= 2
        BY <2>5, <4>1, Positions
      <4>3. LineAt(k) # LineAt(l)
        BY <2>5, <4>2
      <4> QED  BY <2>4, <4>3 DEF IsEmpty
    <3>2. FindIndex(x) = Len(index)
      <4>1. x >= Last(index).end
        BY <1>1, <2>3
      <4> QED  BY <2>3, <4>1 DEF FindIndex
    <3>3. w.lines = [beg |-> LineAt(k), end |-> LineAt(l)] /\ w.centre = w.count /\ w.count = n - k
      BY <2>3, <2>4, <3>2 DEF Asked
    <3>4. ScanIncrement(w, LineAt(p), e) = ScanForLines(LineAt(p), [beg |-> LineAt(l), end |-> e], FALSE, 0, F)
      <4>1. w.count \in Nat /\ (k = 0 \/ w.count = CacheCount)
        <5>1. n - k \in Nat
          BY <2>3
        <5> QED  BY <2>2, <3>3, <5>1
      <4>2. e \in Nat /\ l \in Nat /\ LineAt(l) < e
        BY <1>1, <2>5
      <4>3. w.lines = [beg |-> LineAt(k), end |-> LineAt(l)] /\ w.centre = w.count
        BY <3>3
      <4> DEFINE pos == LineAt(p)
                 right == [beg |-> LineAt(l), end |-> e]
      <4>5. right = [beg |-> LineAt(l), end |-> e]
        OBVIOUS
      <4> HIDE DEF w, l, e, pos, right
      <4>6. w.lines.beg = LineAt(k) /\ w.lines.end = LineAt(l)
        BY <4>3
      <4>4. LooksAhead(w, pos, right)
        BY <4>1, <4>2, <4>3, <4>5, <4>6, Increment
      <4>7. right.end = e
        BY <4>5
      <4> QED  BY <4>4, <4>7 DEF LooksAhead, pos, right
    <3>5. l <= q /\ q <= l + 1
      <4>1. LineAt(l) < LineAt(q) + LineWidth
        BY <1>1, <1>3, <1>4, <2>5, LineWidthAssumption
      <4>2. l <= q
        <5> HIDE DEF l
        <5> QED  BY <2>5, <4>1, Order
      <4>3. l + 1 = n /\ LineAt(q) <= LineAt(n)
        <5>1. f <= LineAt(n) /\ LineAt(n) \in Nat /\ l + 1 = n
          <6>1. f <= LineAt(n) /\ n \in Nat
            BY <1>1, CountOf
          <6>2. LineAt(n) \in Nat
            BY <6>1, Positions
          <6>3. l + 1 = n
            BY <6>1
          <6> QED  BY <6>1, <6>2, <6>3
        <5> HIDE DEF n, l
        <5> QED  BY <1>1, <1>3, <1>4, <5>1
      <4>4. q <= n
        BY <2>3, <4>3, Order
      <4> QED  BY <4>2, <4>3, <4>4
    <3>6. l <= p /\ m - l <= F
      <4>1. m - q < F
        BY <1>7, <1>14
      <4> HIDE DEF l, m, F
      <4> QED  BY <1>1, <1>4, <1>5, <2>5, <3>5, <4>1
    <3>7. d.lines = LinesFrom(l, e)
      <4>1. ScanForLines(LineAt(p), [beg |-> LineAt(l), end |-> e], FALSE, 0, F) = LinesFrom(l, e)
        <5> HIDE DEF l
        <5> QED  BY <1>1, <1>4, <2>5, <3>6, RightScan
      <4> QED  BY <1>9, <1>14, <3>1, <3>4, <4>1
    <3> QED  BY <2>5, <2>6, <3>7
  <2> QED  BY <2>7, <2>8
<1> QED  BY <1>12, <1>13, <1>14

-----------------------------------------------------------------------------
Current(w) ==
  w.lines = LineStartRange /\ w.centre = FindIndex(w.filepos) /\ w.count = Len(index) /\ w.filepos >= fileend

(* The latest build was asked of the index as it is, which nobody else can *)
(* change before it is merged.                                             *)
LatestInv ==
  /\ \A w \in workers : w.issue = issue => Current(w)
  /\ \A i \in DOMAIN posted : Upto(i) => Scanned(posted[i])
  /\ \A i, j \in DOMAIN posted : Upto(i) /\ Upto(j) => i = j

ShowInv == ~astray => Shown(index, fileend)

LEMMA InitLatest == IndexInit => LatestInv /\ ShowInv
<1> SUFFICES ASSUME IndexInit PROVE LatestInv /\ ShowInv
  OBVIOUS
<1>1. fileend = 0 /\ index = <<>> /\ posted = <<>> /\ size \in Nat
  BY BoundsAssumption DEF IndexInit
<1>2. PICK pos \in {0, size} :
        workers = {[issue |-> 1, reload |-> TRUE, filepos |-> pos, lines |-> Zero, centre |-> 0, count |-> 0]}
  BY DEF IndexInit
<1>3. \A w \in workers : w.filepos = pos /\ w.lines = Zero /\ w.centre = 0 /\ w.count = 0
  BY <1>2
<1>4. LineStartRange = Zero /\ FindIndex(pos) = 0 /\ Len(index) = 0 /\ pos >= fileend
  BY <1>1 DEF LineStartRange, FindIndex
<1>5. \A w \in workers : Current(w)
  BY <1>3, <1>4 DEF Current
<1>6. DOMAIN posted = {}
  BY <1>1
<1>7. ShowInv
  BY <1>1, NothingShown DEF ShowInv
<1> QED  BY <1>5, <1>6, <1>7 DEF LatestInv

(* Nothing but a merge changes the index, so what was asked of it stays    *)
(* true.                                                                   *)
LEMMA IndexStays ==
  ASSUME UNCHANGED <<index, fileend, astray>>
  PROVE  /\ \A w : Current(w)' <=> Current(w)
         /\ \A d : Scanned(d)' <=> Scanned(d)
         /\ ShowInv' <=> ShowInv
<1>1. LineStartRange' = LineStartRange
  BY DEF LineStartRange
<1>2. \A x : FindIndex(x)' = FindIndex(x)
  BY DEF FindIndex
<1>3. \A d : Asked(d)' = Asked(d)
  BY <1>1, <1>2 DEF Asked
<1>4. \A w : Current(w)' <=> Current(w)
  BY <1>1, <1>2 DEF Current
<1>5. \A d : Scanned(d)' <=> Scanned(d)
  BY <1>3 DEF Scanned
<1>6. ShowInv' <=> ShowInv
  BY DEF ShowInv
<1> QED  BY <1>4, <1>5, <1>6

LEMMA LatestStays ==
  ASSUME LatestInv, ShowInv, Stays
  PROVE  LatestInv' /\ ShowInv'
<1>1. UNCHANGED <<issue, index, fileend, workers, posted, astray>>
  BY DEF Stays
<1> QED  BY <1>1, IndexStays DEF LatestInv, Upto

LEMMA LatestStarts ==
  ASSUME IndexInv, OrderInv, ShowInv, NEW pos \in fileend..size, NEW reload \in BOOLEAN, Starts(pos, reload)
  PROVE  LatestInv' /\ ShowInv'
<1> DEFINE b == [issue |-> issue + 1, reload |-> reload, filepos |-> pos, lines |-> LineStartRange,
                 centre |-> FindIndex(pos), count |-> Len(index)]
<1>1. issue' = issue + 1 /\ workers' = workers \cup {b} /\ UNCHANGED <<index, fileend, posted, astray>>
  BY DEF Starts
<1>2. issue \in Nat /\ (\A w \in workers : w.issue <= issue /\ w.issue \in Nat)
      /\ \A i \in DOMAIN posted : posted[i].issue <= issue /\ posted[i].issue \in Nat
  BY Numbers DEF IndexInv
<1>3. Current(b)
  <2>1. b.filepos = pos /\ b.lines = LineStartRange /\ b.centre = FindIndex(pos) /\ b.count = Len(index)
    OBVIOUS
  <2>2. pos >= fileend
    BY Numbers DEF IndexInv, OrderInv
  <2> QED  BY <2>1, <2>2 DEF Current
<1> HIDE DEF b
<1>4. \A w \in workers' : w.issue = issue' => Current(w)'
  <2>1. \A w \in workers' : w.issue = issue' => w = b
    BY <1>1, <1>2
  <2> QED  BY <1>1, <1>3, <2>1, IndexStays
<1>5. \A i \in DOMAIN posted' : ~(Upto(i)')
  BY <1>1, <1>2 DEF Upto
<1> QED  BY <1>1, <1>4, <1>5, IndexStays DEF LatestInv

(* A build posts the lines it was asked for in the file as it is now.      *)
LEMMA LatestFinds ==
  ASSUME IndexInv, OrderInv, NEW w \in workers, w.issue = issue, Current(w)
  PROVE  Scanned(LinesOf(w))
<1> DEFINE d == LinesOf(w)
<1>1. d.reload = w.reload /\ d.filepos = w.filepos /\ d.fileend = size /\ d.lines = BuildAsync(w, size)
  BY DEF LinesOf
<1>2. w.lines = LineStartRange /\ w.centre = FindIndex(w.filepos) /\ w.count = Len(index) /\ w.filepos >= fileend
  BY DEF Current
<1>3. w.filepos \in 0..size /\ size \in Nat /\ fileend \in Nat
  BY Numbers DEF OrderInv, AskedWell, IndexInv
<1> HIDE DEF d
<1> DEFINE v == Asked(d)
<1>4. v.reload = w.reload /\ v.filepos = w.filepos /\ v.lines = w.lines /\ v.centre = w.centre /\ v.count = w.count
  BY <1>1, <1>2 DEF Asked
<1> HIDE DEF v
<1>5. BuildAsync(v, size) = BuildAsync(w, size)
  BY <1>4 DEF BuildAsync, ScanIncrement
<1>6. d.filepos \in fileend..d.fileend
  BY <1>1, <1>2, <1>3
<1> QED  BY <1>1, <1>5, <1>6 DEF Scanned, d, v

LEMMA LatestEnds ==
  ASSUME IndexInv, OrderInv, LatestInv, ShowInv, NEW w \in workers, Ends(w)
  PROVE  LatestInv' /\ ShowInv'
<1>1. IsQueue(posted) /\ UNCHANGED <<issue, index, fileend, astray>> /\ workers' = workers \ {w}
  BY DEF IndexInv, Ends
<1>2. LinesOf(w).merge = TRUE /\ LinesOf(w).issue = w.issue /\ EndOf(w).merge = FALSE
  BY DEF LinesOf, EndOf
<1>3. w.issue = issue => Scanned(LinesOf(w))
  BY LatestFinds DEF LatestInv
<1>4. \A v \in workers' : v.issue = issue' => Current(v)'
  BY <1>1, IndexStays DEF LatestInv
<1>5. \A i \in DOMAIN posted : posted[i].issue # w.issue
  BY DEF IndexInv, OneEach
<1> DEFINE n == Len(posted)
           q == posted'
           U(i) == q[i].merge /\ q[i].issue = issue
<1>6. /\ \A i \in DOMAIN q : U(i) => Scanned(q[i])
      /\ \A i, j \in DOMAIN q : U(i) /\ U(j) => i = j
  <2>1. CASE posted' = posted \o <<LinesOf(w), EndOf(w)>>
    <3> DEFINE r == <<LinesOf(w), EndOf(w)>>
    <3>1. IsQueue(r) /\ Len(r) = 2 /\ r[1] = LinesOf(w) /\ r[2] = EndOf(w)
      <4>1. r \in Seq({LinesOf(w), EndOf(w)})
        OBVIOUS
      <4>2. Len(r) = 2 /\ r[1] = LinesOf(w) /\ r[2] = EndOf(w)
        OBVIOUS
      <4>3. IsQueue(r)
        BY <4>1, QueueOf
      <4> QED  BY <4>2, <4>3
    <3>2. posted' = posted \o r
      BY <2>1
    <3> HIDE DEF r
    <3>3. /\ n \in Nat /\ DOMAIN posted = 1..n /\ DOMAIN q = 1..(n + 2)
          /\ \A i \in 1..n : q[i] = posted[i]
          /\ q[n + 1] = LinesOf(w) /\ q[n + 2] = EndOf(w)
      BY <1>1, <3>1, <3>2, QueueOfTwo
    <3> HIDE DEF n, q
    <3>4. \A i \in DOMAIN q : U(i) => (i \in 1..n /\ Upto(i)) \/ (i = n + 1 /\ w.issue = issue)
      BY <1>2, <3>3 DEF Upto
    <3>5. w.issue = issue => \A i \in DOMAIN posted : ~Upto(i)
      BY <1>5 DEF Upto
    <3>6. \A i \in DOMAIN q : U(i) => Scanned(q[i])
      <4> HIDE DEF U
      <4> QED  BY <1>3, <3>3, <3>4 DEF LatestInv
    <3>7. \A i, j \in DOMAIN q : U(i) /\ U(j) => i = j
      <4> HIDE DEF U
      <4> QED  BY <3>3, <3>4, <3>5 DEF LatestInv
    <3> QED  BY <3>6, <3>7
  <2>2. CASE posted' = Append(posted, EndOf(w))
    <3>1. /\ n \in Nat /\ DOMAIN posted = 1..n /\ DOMAIN q = 1..(n + 1)
          /\ \A i \in 1..n : q[i] = posted[i]
          /\ q[n + 1] = EndOf(w)
      BY <1>1, <2>2, QueueOfOne
    <3> HIDE DEF n, q
    <3>2. \A i \in DOMAIN q : U(i) => i \in 1..n /\ Upto(i)
      BY <1>2, <3>1 DEF Upto
    <3> HIDE DEF U
    <3> QED  BY <3>1, <3>2 DEF LatestInv
  <2> QED  BY <2>1, <2>2 DEF Ends
<1>7. \A i \in DOMAIN posted' : Upto(i)' => U(i)
  BY <1>1 DEF Upto
<1>8. \A i \in DOMAIN posted' : Upto(i)' => Scanned(posted[i])'
  BY <1>1, <1>6, <1>7, IndexStays DEF Scanned, Asked
<1>9. \A i, j \in DOMAIN posted' : Upto(i)' /\ Upto(j)' => i = j
  <2> HIDE DEF U
  <2> QED  BY <1>6, <1>7
<1> QED  BY <1>1, <1>4, <1>8, <1>9, IndexStays DEF LatestInv

-----------------------------------------------------------------------------
(* The head leaves the queue.                                              *)
LEMMA LatestMoves ==
  ASSUME IndexInv, posted # <<>>, posted' = Tail(posted), issue' = issue
  PROVE  /\ Head(posted) = posted[1] /\ 1 \in DOMAIN posted
         /\ \A i \in DOMAIN posted' : /\ i + 1 \in DOMAIN posted /\ i + 1 # 1 /\ i \in Nat
                                      /\ posted'[i] = posted[i + 1] /\ (Upto(i)' <=> Upto(i + 1))
<1>1. /\ Head(posted) = posted[1] /\ 1 \in DOMAIN posted
      /\ \A i \in DOMAIN posted' : i \in Nat \ {0} /\ i + 1 \in DOMAIN posted /\ posted'[i] = posted[i + 1]
  BY QueueMoves
<1>2. ASSUME NEW i \in DOMAIN posted' PROVE i \in Nat /\ i + 1 # 1 /\ (Upto(i)' <=> Upto(i + 1))
  BY <1>1 DEF Upto
<1> QED  BY <1>1, <1>2

LEMMA LatestDrops ==
  ASSUME IndexInv, LatestInv, ShowInv, Drops
  PROVE  LatestInv' /\ ShowInv'
<1>1. posted # <<>> /\ posted' = Tail(posted) /\ UNCHANGED <<issue, index, fileend, workers, astray>>
  BY DEF Drops
<1>2. \A i \in DOMAIN posted' : /\ i + 1 \in DOMAIN posted /\ i \in Nat
                                /\ posted'[i] = posted[i + 1] /\ (Upto(i)' <=> Upto(i + 1))
  BY <1>1, LatestMoves
<1>3. \A i \in DOMAIN posted' : Upto(i)' => Scanned(posted'[i])
  BY <1>2 DEF LatestInv
<1>4. \A i \in DOMAIN posted' : Upto(i)' => Scanned(posted[i])'
  BY <1>1, <1>3, IndexStays DEF Scanned, Asked
<1>5. ASSUME NEW i \in DOMAIN posted', NEW j \in DOMAIN posted', Upto(i)', Upto(j)' PROVE i = j
  <2>1. i + 1 = j + 1 /\ i \in Nat /\ j \in Nat
    BY <1>2, <1>5 DEF LatestInv
  <2> QED  BY <2>1
<1>6. \A w \in workers' : w.issue = issue' => Current(w)'
  BY <1>1, IndexStays DEF LatestInv
<1> QED  BY <1>1, <1>4, <1>5, <1>6, IndexStays DEF LatestInv

LEMMA LatestMerges ==
  ASSUME IndexInv, OrderInv, LatestInv, ShowInv, Merges
  PROVE  LatestInv' /\ ShowInv'
<1> DEFINE d == Head(posted)
<1>1. /\ posted # <<>> /\ posted' = Tail(posted) /\ d.merge /\ d.issue = issue /\ UNCHANGED <<size, issue, workers>>
      /\ index' = Merged(d) /\ fileend' = d.fileend
  BY DEF Merges
<1>2. /\ d = posted[1] /\ 1 \in DOMAIN posted
      /\ \A i \in DOMAIN posted' : /\ i + 1 \in DOMAIN posted /\ i + 1 # 1
                                   /\ (Upto(i)' <=> Upto(i + 1))
  BY <1>1, LatestMoves
<1>3. Upto(1) /\ Scanned(d) /\ FoundWell(d) /\ d.reload \in BOOLEAN
  <2>1. Upto(1)
    BY <1>1, <1>2 DEF Upto
  <2>2. Scanned(d)
    BY <1>2, <2>1 DEF LatestInv
  <2>3. FoundWell(d) /\ d.reload \in BOOLEAN
    BY <1>1, <1>2 DEF OrderInv, IndexInv, ControlOK
  <2> QED  BY <2>1, <2>2, <2>3
<1>4. \A i \in DOMAIN posted' : ~(Upto(i)')
  BY <1>2, <1>3 DEF LatestInv
<1>5. \A w \in workers' : w.issue # issue'
  BY <1>1, <1>2 DEF IndexInv, OneEach
<1>6. LatestInv'
  BY <1>4, <1>5 DEF LatestInv
<1>7. astray' = (~Near(d) \/ (astray /\ ~d.reload))
  BY DEF Merges
<1>8. /\ fileend \in Nat /\ d.fileend \in Nat /\ index \in Seq(Bytes) /\ Run(index, 0, fileend)
      /\ d.lines \in Seq(Bytes) /\ Run(d.lines, 0, d.fileend) /\ Len(d.lines) <= CacheCount
  <2>1. fileend \in Nat /\ size \in Nat
    BY Numbers DEF IndexInv, OrderInv
  <2>2. d.fileend \in Nat
    BY <1>3, <2>1 DEF FoundWell
  <2> QED  BY <1>3, <2>1, <2>2 DEF FoundWell, OrderInv
<1> HIDE DEF d
<1>9. ASSUME ~astray' PROVE Shown(index', fileend')
  <2>1. Near(d) /\ (~astray \/ d.reload)
    BY <1>7, <1>9
  <2>2. d.reload \/ Shown(index, fileend)
    BY <2>1 DEF ShowInv
  <2>3. Shown(Merged(d), d.fileend)
    BY <1>3, <1>8, <2>1, <2>2, NearMerge
  <2> QED  BY <1>1, <2>3
<1> QED  BY <1>6, <1>9 DEF ShowInv, Shown

LEMMA LatestKept == IndexInv /\ OrderInv /\ LatestInv /\ ShowInv /\ [IndexNext]_indexVars => LatestInv' /\ ShowInv'
<1> SUFFICES ASSUME IndexInv, OrderInv, LatestInv, ShowInv, [IndexNext]_indexVars PROVE LatestInv' /\ ShowInv'
  OBVIOUS
<1>1. fileend \in 0..size
  BY DEF OrderInv
<1>2. CASE UNCHANGED indexVars
  <2>1. size \in Nat
    BY Numbers DEF IndexInv
  <2>2. Stays
    BY <1>2, <2>1 DEF Stays, indexVars, file
  <2> QED  BY <2>2, LatestStays
<1>3. CASE IndexNext
  <2>1. \/ Stays
        \/ \E pos \in fileend..size, reload \in BOOLEAN : Starts(pos, reload)
        \/ \E w \in workers : Ends(w)
        \/ Drops \/ Merges
    BY <1>1, <1>3, LineSteps
  <2> QED  BY <2>1, LatestStays, LatestStarts, LatestEnds, LatestDrops, LatestMerges
<1> QED  BY <1>2, <1>3

(* The lines of the latest build are those it was asked for in the index   *)
(* as it is, and the index shows the last lines of the file it knows, all  *)
(* of them or as many as the cache holds, unless the file outgrew half the *)
(* cache between two builds (Build, BuildAsync, MergeResults).             *)
THEOREM ShowInvariance == IndexSpec => [](LatestInv /\ ShowInv)
<1>1. IndexInit => LatestInv /\ ShowInv
  BY InitLatest
<1>2. IndexInv /\ OrderInv /\ (LatestInv /\ ShowInv) /\ [IndexNext]_indexVars => (LatestInv /\ ShowInv)'
  BY LatestKept
<1> QED  BY <1>1, <1>2, IndexInvariance, OrderInvariance, PTL DEF IndexSpec

(* Incremental builds leave neither a hole nor a part of a line behind     *)
(* (AdjustForIncrementalBuild, ScanForLines, MergeResults).                *)
THEOREM IncrementsLeaveNoHole == IndexSpec => []ShowsTheEnd
<1>1. IndexInv /\ OrderInv /\ ShowInv => ShowsTheEnd
  <2> SUFFICES ASSUME IndexInv, OrderInv, ShowInv, ~astray PROVE
                 /\ (index = <<>>) = (fileend = 0)
                 /\ index # <<>> =>
                      /\ index = LinesIn(Head(index).beg, fileend)
                      /\ Head(index).beg = 0 \/ Len(index) = CacheCount
    BY DEF ShowsTheEnd
  <2>1. fileend \in Nat /\ Shown(index, fileend)
    BY Numbers DEF ShowInv, IndexInv, OrderInv
  <2>2. CASE fileend = 0
    <3>1. index = <<>>
      BY <2>1, <2>2, NothingShown
    <3> QED  BY <2>2, <3>1
  <2>3. CASE fileend # 0
    <3>1. PICK k \in Nat : /\ LineAt(k) < fileend /\ index = LinesFrom(k, fileend)
                           /\ k = 0 \/ LineCount(fileend) - k = CacheCount
      BY <2>1, <2>3 DEF Shown
    <3>2. index # <<>> /\ Head(index).beg = LineAt(k) /\ Len(index) = LineCount(fileend) - k
      BY <2>1, <3>1, Ranges
    <3>3. index = LinesIn(Head(index).beg, fileend)
      BY <3>1, <3>2 DEF LinesFrom
    <3>4. Head(index).beg = 0 \/ Len(index) = CacheCount
      BY <3>1, <3>2, Positions
    <3> QED  BY <2>3, <3>2, <3>3, <3>4
  <2> QED  BY <2>2, <2>3
<1> QED  BY <1>1, IndexInvariance, OrderInvariance, ShowInvariance, PTL
=============================================================================
