-------------------------- MODULE ExchangeOrdersProofs --------------------------
(***************************************************************************)
(* Proofs about ExchangeOrders, for any order ids, funds, number of fills  *)
(* and bounds: first the holds and the funds, from IInv; then the cache of *)
(* the open orders, from StreamInv, which relies on IInv.                  *)
(***************************************************************************)
EXTENDS ExchangeOrders, TLAPS

(* An order the server has not heard of.                                   *)
Fresh(o) == o \notin live /\ o \notin cached /\ fills[o] = 0 /\ About(o) = {}

(* An order nobody created is nowhere.                                     *)
Unused ==
  \A o \in Ids : owner[o] = Nil =>
    /\ Fresh(o) /\ o \notin Known(orders) /\ o \notin Known(record)
    /\ o \notin update.listed
    /\ \A i \in 1..Len(queue) : o \notin queue[i].listed

(* What the main thread is blocked on: an order that is not in Orders yet, *)
(* or one that is there.                                                   *)
Blocked ==
  /\ main.op \in {"create", "created"} =>
       /\ main.id \in Ids /\ main.fund \in Funds
       /\ owner[main.id] = main.fund /\ main.id \notin Known(orders)
  /\ main.op = "create" => Fresh(main.id)
  /\ main.op \in {"cancel", "cancelled"} => main.id \in Known(orders)

(* The LiveOrders table, the collections and what was debited agree on the *)
(* fund of an order, or leave it to the remainder.                         *)
FundsAgree ==
  /\ \A o \in Known(record) : record[o] = owner[o]
  /\ \A o \in Known(orders) : orders[o] = OrderIdToFund(o)
  /\ \A o \in Known(history) : history[o].fund \in {owner[o], Main}
  /\ \A f \in Funds \ {Main}, o \in Ids, k \in 1..Units : debit[f][o][k] > 0 => owner[o] = f

OpenLeft == \A o \in live : fills[o] < Units

(* A hold that names no order is the one CreateOrder took.                 *)
NilHolds == \A f \in Funds : \A h \in holds[f] : h.order = Nil => h = Hold("create", Nil, TRUE)

IInv == TypeOK /\ OpenLeft /\ Unused /\ Blocked /\ FundsAgree /\ HoldsMatchOrders /\ NilHolds

-----------------------------------------------------------------------------
(* Steps that leave the books alone keep what is said about them.          *)
LEMMA SameBooks ==
  ASSUME FundsAgree, UNCHANGED <<orders, record, history, debit, owner>>
  PROVE  FundsAgree'
  BY DEF FundsAgree, Known, OrderIdToFund

LEMMA SameHolds ==
  ASSUME HoldsMatchOrders, UNCHANGED <<orders, holds>>,
         main.op \in {"create", "created"} =>
           main'.op \in {"create", "created"} /\ main'.fund = main.fund
  PROVE  HoldsMatchOrders'
<1>1. \A o \in Known(orders)' : \E h \in holds'[orders'[o]] : HoldOn(orders[o], o)' = {h}
  BY DEF HoldsMatchOrders, HoldOn, Known
<1>2. \A f \in Funds : \A h \in holds'[f] :
        IF h.order = Nil THEN main'.op \in {"create", "created"} /\ main'.fund = f
        ELSE h.order \in Known(orders)' /\ orders'[h.order] = f
  BY DEF HoldsMatchOrders, Known
<1> QED  BY <1>1, <1>2 DEF HoldsMatchOrders

LEMMA FewerUsed ==
  ASSUME Unused, UNCHANGED <<owner, orders, record, queue>>,
         \A o \in Ids : owner[o] = Nil /\ Fresh(o) => Fresh(o)',
         \A o \in Ids : o \in update'.listed => o \in update.listed \/ o \in live \cup cached
  PROVE  Unused'
  BY DEF Unused, Known, Fresh

(* An order nobody heard of is none of those a step is about.              *)
LEMMA StillFresh ==
  ASSUME NEW o \in Ids, NEW x \in Ids, Fresh(x), x # o,
         live' \subseteq live \cup {o}, cached' \subseteq cached \cup {o}, fills'[x] = fills[x],
         \A m \in mail' : m \in mail \/ m.order = o
  PROVE  Fresh(x)'
<1>1. x \notin live' /\ x \notin cached' /\ fills'[x] = 0
  BY DEF Fresh
<1>2. About(x)' = {}
  BY DEF Fresh, About
<1> QED  BY <1>1, <1>2 DEF Fresh

-----------------------------------------------------------------------------
(* The server.                                                             *)
LEMMA FillKeeps ==
  ASSUME IInv, NEW o \in Ids, Fill(o)
  PROVE  IInv'
<1>1. TypeOK /\ OpenLeft /\ Unused /\ Blocked /\ FundsAgree /\ HoldsMatchOrders /\ NilHolds
  BY DEF IInv
<1>2. /\ o \in live /\ fills' = [fills EXCEPT ![o] = @ + 1]
      /\ live' = IF fills'[o] = Units THEN live \ {o} ELSE live
      /\ mail' = IF stream = "open" THEN mail \cup {Message("trade", o, fills'[o])} ELSE mail
      /\ missed' = IF stream = "making" THEN missed \cup {o} ELSE missed
      /\ UNCHANGED <<named, half, stream, cached, known, loaded, main, orders, holds, record,
                    history, debit, watched, report, update, last, queue, restarts, owner, settled>>
  BY DEF Fill, Send, server, inbox, caches, books, bots, thread
<1> HIDE DEF Fill
<1>3. /\ fills' \in Counts /\ live' \subseteq live /\ (fills'[o] # Units => fills'[o] < Units)
      /\ fills'[o] \in 1..Units /\ \A x \in Ids : x # o => fills'[x] = fills[x]
  <2>1. fills \in Counts /\ fills[o] < Units /\ live \subseteq Ids /\ Units \in Nat
    BY <1>1, <1>2, UnitsAssumption DEF TypeOK, OpenLeft
  <2>2. fills'[o] = fills[o] + 1 /\ fills[o] \in 0..Units
    BY <1>2, <2>1 DEF Counts
  <2> QED  BY <1>2, <2>1, <2>2 DEF Counts
<1>4. Message("trade", o, fills'[o]) \in Messages /\ Message("trade", o, fills'[o]).order = o
  BY <1>3 DEF Message, Messages
<1>5. \A x \in Ids : Fresh(x) => Fresh(x)'
  <2> SUFFICES ASSUME NEW x \in Ids, Fresh(x) PROVE Fresh(x)'
    OBVIOUS
  <2>1. x # o
    BY <1>2 DEF Fresh
  <2>2. \A m \in mail' : m \in mail \/ m.order = o
    BY <1>2, <1>4
  <2>3. live' \subseteq live \cup {o} /\ cached' \subseteq cached \cup {o} /\ fills'[x] = fills[x]
    BY <1>2, <1>3, <2>1
  <2> QED  BY <2>1, <2>2, <2>3, StillFresh
<1>6. TypeOK'
  <2>1. mail' \subseteq Messages /\ missed' \subseteq Ids
    BY <1>1, <1>2, <1>4 DEF TypeOK
  <2> QED  BY <1>1, <1>2, <1>3, <2>1 DEF TypeOK
<1>7. OpenLeft'
  BY <1>1, <1>2, <1>3 DEF OpenLeft, TypeOK
<1>8. Unused'
  BY <1>1, <1>2, <1>5, FewerUsed
<1>9. Blocked'
  BY <1>1, <1>2, <1>5 DEF Blocked, Known
<1>10. FundsAgree'
  BY <1>1, <1>2, SameBooks
<1>11. HoldsMatchOrders'
  BY <1>1, <1>2, SameHolds
<1>12. NilHolds'
  BY <1>1, <1>2 DEF NilHolds
<1> QED  BY <1>6, <1>7, <1>8, <1>9, <1>10, <1>11, <1>12 DEF IInv

LEMMA AcceptKeeps ==
  ASSUME IInv, Accept
  PROVE  IInv'
<1>1. TypeOK /\ OpenLeft /\ Unused /\ Blocked /\ FundsAgree /\ HoldsMatchOrders /\ NilHolds
  BY DEF IInv
<1>2. /\ main.op = "create"
      /\ live' = live \cup {main.id}
      /\ mail' = IF stream = "open" THEN mail \cup {Message("new", main.id, 0)} ELSE mail
      /\ missed' = IF stream = "making" THEN missed \cup {main.id} ELSE missed
      /\ main' = [main EXCEPT !.op = "created"]
      /\ UNCHANGED <<named, fills, half, stream, cached, known, loaded, orders, holds, record,
                    history, debit, watched, report, update, last, queue, restarts, owner, settled>>
  BY DEF Accept, Send, server, inbox, caches, books, bots, thread
<1> HIDE DEF Accept
<1>3. /\ main.id \in Ids /\ main.fund \in Funds /\ owner[main.id] = main.fund
      /\ Fresh(main.id) /\ owner[main.id] # Nil /\ main.id \notin Known(orders)
  BY <1>1, <1>2, MainAssumption DEF Blocked
<1>4. /\ main' \in Call /\ main'.op = "created" /\ main'.id = main.id /\ main'.fund = main.fund
      /\ live' \subseteq Ids /\ missed' \subseteq Ids
  BY <1>1, <1>2, <1>3 DEF TypeOK, Call, Ops
<1>5. Message("new", main.id, 0) \in Messages /\ Message("new", main.id, 0).order = main.id
  BY <1>3 DEF Message, Messages
<1>6. \A x \in Ids : Fresh(x) /\ x # main.id => Fresh(x)'
  <2> SUFFICES ASSUME NEW x \in Ids, Fresh(x), x # main.id PROVE Fresh(x)'
    OBVIOUS
  <2>1. \A m \in mail' : m \in mail \/ m.order = main.id
    BY <1>2, <1>5
  <2>2. live' \subseteq live \cup {main.id} /\ cached' \subseteq cached \cup {main.id} /\ fills'[x] = fills[x]
    BY <1>2
  <2> QED  BY <1>3, <2>1, <2>2, StillFresh
<1>7. TypeOK'
  <2>1. mail' \subseteq Messages
    BY <1>1, <1>2, <1>5 DEF TypeOK
  <2> QED  BY <1>1, <1>2, <1>4, <2>1 DEF TypeOK
<1>8. OpenLeft'
  BY <1>1, <1>2, <1>3, UnitsAssumption DEF OpenLeft, Fresh
<1>9. Unused'
  BY <1>1, <1>2, <1>3, <1>6, FewerUsed
<1>10. Blocked'
  BY <1>1, <1>2, <1>3, <1>4 DEF Blocked, Known
<1>11. FundsAgree'
  BY <1>1, <1>2, SameBooks
<1>12. HoldsMatchOrders'
  BY <1>1, <1>2, <1>4, SameHolds
<1>13. NilHolds'
  BY <1>1, <1>2 DEF NilHolds
<1> QED  BY <1>7, <1>8, <1>9, <1>10, <1>11, <1>12, <1>13 DEF IInv

LEMMA CancelKeeps ==
  ASSUME IInv, Cancel
  PROVE  IInv'
<1>1. TypeOK /\ OpenLeft /\ Unused /\ Blocked /\ FundsAgree /\ HoldsMatchOrders /\ NilHolds
  BY DEF IInv
<1>2. /\ main.op = "cancel" /\ main.id \in live
      /\ live' = live \ {main.id}
      /\ mail' = IF stream = "open" THEN mail \cup {Message("cancelled", main.id, 0)} ELSE mail
      /\ missed' = IF stream = "making" THEN missed \cup {main.id} ELSE missed
      /\ main' = [main EXCEPT !.op = "cancelled"]
      /\ UNCHANGED <<named, fills, half, stream, cached, known, loaded, orders, holds, record,
                    history, debit, watched, report, update, last, queue, restarts, owner, settled>>
  BY DEF Cancel, Send, server, inbox, caches, books, bots, thread
<1> HIDE DEF Cancel
<1>3. main.id \in Ids /\ main.id \in Known(orders)
  BY <1>1, <1>2 DEF Blocked, TypeOK
<1>4. main' \in Call /\ main'.op = "cancelled" /\ main'.id = main.id
  BY <1>1, <1>2 DEF TypeOK, Call, Ops
<1>5. Message("cancelled", main.id, 0) \in Messages /\ Message("cancelled", main.id, 0).order = main.id
  BY <1>3 DEF Message, Messages
<1>6. \A x \in Ids : Fresh(x) => Fresh(x)'
  <2> SUFFICES ASSUME NEW x \in Ids, Fresh(x) PROVE Fresh(x)'
    OBVIOUS
  <2>1. x # main.id
    BY <1>2 DEF Fresh
  <2>2. \A m \in mail' : m \in mail \/ m.order = main.id
    BY <1>2, <1>5
  <2>3. live' \subseteq live \cup {main.id} /\ cached' \subseteq cached \cup {main.id} /\ fills'[x] = fills[x]
    BY <1>2
  <2> QED  BY <1>3, <2>1, <2>2, <2>3, StillFresh
<1>7. TypeOK'
  <2>1. mail' \subseteq Messages /\ missed' \subseteq Ids
    BY <1>1, <1>2, <1>3, <1>5 DEF TypeOK
  <2> QED  BY <1>1, <1>2, <1>4, <2>1 DEF TypeOK
<1>8. OpenLeft'
  BY <1>1, <1>2 DEF OpenLeft
<1>9. Unused'
  BY <1>1, <1>2, <1>6, FewerUsed
<1>10. Blocked'
  BY <1>1, <1>2, <1>3, <1>4 DEF Blocked, Known
<1>11. FundsAgree'
  BY <1>1, <1>2, SameBooks
<1>12. HoldsMatchOrders'
  BY <1>1, <1>2, <1>4, SameHolds
<1>13. NilHolds'
  BY <1>1, <1>2 DEF NilHolds
<1> QED  BY <1>7, <1>8, <1>9, <1>10, <1>11, <1>12, <1>13 DEF IInv

-----------------------------------------------------------------------------
(* The user-data stream.                                                   *)
LEMMA MakeStreamKeeps ==
  ASSUME IInv, MakeStream
  PROVE  IInv'
<1>1. TypeOK /\ OpenLeft /\ Unused /\ Blocked /\ FundsAgree /\ HoldsMatchOrders /\ NilHolds
  BY DEF IInv
<1>2. /\ stream' = "making"
      /\ cached' = live
      /\ missed' = {} /\ settled' = ClosedForGood
      /\ UNCHANGED <<named, live, fills, mail, half, known, loaded, main, orders, holds, record,
                    history, debit, watched, report, update, last, queue, restarts, owner>>
  BY DEF MakeStream, server, inbox, caches, books, bots, thread
<1> HIDE DEF MakeStream
<1>3. stream' \in {"none", "making", "open"} /\ cached' \subseteq Ids /\ missed' \subseteq Ids /\ settled' \subseteq Ids
  BY <1>1, <1>2 DEF TypeOK, ClosedForGood
<1>4. \A x \in Ids : Fresh(x) => Fresh(x)'
  BY <1>2 DEF Fresh, About
<1>5. TypeOK'
  BY <1>1, <1>2, <1>3, <1>4 DEF TypeOK
<1>6. OpenLeft'
  BY <1>1, <1>2 DEF OpenLeft
<1>7. Unused'
  BY <1>1, <1>2, <1>3, <1>4, FewerUsed
<1>8. Blocked'
  BY <1>1, <1>2, <1>3, <1>4 DEF Blocked, Known
<1>9. FundsAgree'
  BY <1>1, <1>2, SameBooks
<1>10. HoldsMatchOrders'
  BY <1>1, <1>2, <1>3, <1>4, SameHolds
<1>11. NilHolds'
  BY <1>1, <1>2 DEF NilHolds
<1> QED  BY <1>5, <1>6, <1>7, <1>8, <1>9, <1>10, <1>11 DEF IInv

LEMMA OpenStreamKeeps ==
  ASSUME IInv, OpenStream
  PROVE  IInv'
<1>1. TypeOK /\ OpenLeft /\ Unused /\ Blocked /\ FundsAgree /\ HoldsMatchOrders /\ NilHolds
  BY DEF IInv
<1>2. /\ stream' = "open"
      /\ UNCHANGED <<named, live, fills, mail, half, cached, known, loaded, main, orders, holds,
                    record, history, debit, watched, report, update, last, queue, restarts, owner, missed, settled>>
  BY DEF OpenStream, server, inbox, caches, books, bots, thread
<1> HIDE DEF OpenStream
<1>3. \A x \in Ids : Fresh(x)' = Fresh(x)
  BY <1>2 DEF Fresh, About
<1>4. TypeOK'
  BY <1>1, <1>2, <1>3 DEF TypeOK
<1>5. OpenLeft'
  BY <1>1, <1>2 DEF OpenLeft
<1>6. Unused'
  BY <1>1, <1>2, <1>3, FewerUsed
<1>7. Blocked'
  BY <1>1, <1>2, <1>3 DEF Blocked, Known
<1>8. FundsAgree'
  BY <1>1, <1>2, SameBooks
<1>9. HoldsMatchOrders'
  BY <1>1, <1>2, <1>3, SameHolds
<1>10. NilHolds'
  BY <1>1, <1>2 DEF NilHolds
<1> QED  BY <1>4, <1>5, <1>6, <1>7, <1>8, <1>9, <1>10 DEF IInv

LEMMA CloseStreamKeeps ==
  ASSUME IInv, CloseStream
  PROVE  IInv'
<1>1. TypeOK /\ OpenLeft /\ Unused /\ Blocked /\ FundsAgree /\ HoldsMatchOrders /\ NilHolds
  BY DEF IInv
<1>2. /\ stream' = "none" /\ mail' = {} /\ half' = {}
      /\ cached' = {} /\ known' = None /\ loaded' = FALSE
      /\ UNCHANGED <<named, live, fills, main, orders, holds, record, history, debit, watched,
                    report, update, last, queue, restarts, owner, missed, settled>>
  BY DEF CloseStream, server, inbox, caches, books, bots, thread
<1> HIDE DEF CloseStream
<1>3. known' \in [Ids -> Amounts]
  BY <1>2, UnitsAssumption DEF None, Amounts
<1>4. \A x \in Ids : Fresh(x) => Fresh(x)'
  BY <1>2 DEF Fresh, About
<1>5. TypeOK'
  BY <1>1, <1>2, <1>3, <1>4 DEF TypeOK
<1>6. OpenLeft'
  BY <1>1, <1>2 DEF OpenLeft
<1>7. Unused'
  BY <1>1, <1>2, <1>3, <1>4, FewerUsed
<1>8. Blocked'
  BY <1>1, <1>2, <1>3, <1>4 DEF Blocked, Known
<1>9. FundsAgree'
  BY <1>1, <1>2, SameBooks
<1>10. HoldsMatchOrders'
  BY <1>1, <1>2, <1>3, <1>4, SameHolds
<1>11. NilHolds'
  BY <1>1, <1>2 DEF NilHolds
<1> QED  BY <1>5, <1>6, <1>7, <1>8, <1>9, <1>10, <1>11 DEF IInv

LEMMA HandleOrdersKeeps ==
  ASSUME IInv, NEW m \in mail, HandleOrders(m)
  PROVE  IInv'
<1>1. TypeOK /\ OpenLeft /\ Unused /\ Blocked /\ FundsAgree /\ HoldsMatchOrders /\ NilHolds
  BY DEF IInv
<1>2. /\ mail' = mail \ {m} /\ half' = half \cup {m}
      /\ cached' = ListedAfter(m)
      /\ missed' \subseteq missed \cup {m.order}
      /\ UNCHANGED <<named, live, fills, stream, known, loaded, main, orders, holds, record,
                    history, debit, watched, report, update, last, queue, restarts, owner, settled>>
  BY DEF HandleOrders, server, inbox, caches, books, bots, thread
<1> HIDE DEF HandleOrders
<1>3. m \in Messages /\ m.order \in Ids
  BY <1>1 DEF TypeOK, Messages
<1>4. cached' \subseteq cached \cup {m.order}
  BY <1>2 DEF ListedAfter
<1>5. \A x \in Ids : Fresh(x) => Fresh(x)'
  <2> SUFFICES ASSUME NEW x \in Ids, Fresh(x) PROVE Fresh(x)'
    OBVIOUS
  <2>1. x # m.order
    BY DEF Fresh, About
  <2>2. live' \subseteq live \cup {m.order} /\ fills'[x] = fills[x] /\ \A y \in mail' : y \in mail
    BY <1>2
  <2> QED  BY <1>3, <1>4, <2>1, <2>2, StillFresh
<1>6. TypeOK'
  BY <1>1, <1>2, <1>3, <1>4, <1>5 DEF TypeOK
<1>7. OpenLeft'
  BY <1>1, <1>2 DEF OpenLeft
<1>8. Unused'
  BY <1>1, <1>2, <1>3, <1>4, <1>5, FewerUsed
<1>9. Blocked'
  BY <1>1, <1>2, <1>3, <1>4, <1>5 DEF Blocked, Known
<1>10. FundsAgree'
  BY <1>1, <1>2, SameBooks
<1>11. HoldsMatchOrders'
  BY <1>1, <1>2, <1>3, <1>4, <1>5, SameHolds
<1>12. NilHolds'
  BY <1>1, <1>2 DEF NilHolds
<1> QED  BY <1>6, <1>7, <1>8, <1>9, <1>10, <1>11, <1>12 DEF IInv

LEMMA HandleHistoryKeeps ==
  ASSUME IInv, NEW m \in half, HandleHistory(m)
  PROVE  IInv'
<1>1. TypeOK /\ OpenLeft /\ Unused /\ Blocked /\ FundsAgree /\ HoldsMatchOrders /\ NilHolds
  BY DEF IInv
<1>2. /\ half' = half \ {m} /\ loaded' = TRUE
      /\ known' = IF m.kind = "trade" THEN [known EXCEPT ![m.order][m.n] = Units] ELSE known
      /\ UNCHANGED <<named, live, fills, mail, stream, cached, main, orders, holds, record,
                    history, debit, watched, report, update, last, queue, restarts, owner, missed, settled>>
  BY DEF HandleHistory, server, inbox, caches, books, bots, thread
<1> HIDE DEF HandleHistory
<1>3. known' \in [Ids -> Amounts]
  <2>1. m \in Messages /\ known \in [Ids -> Amounts]
    BY <1>1 DEF TypeOK
  <2>2. CASE m.kind = "trade"
    <3>1. m.order \in Ids /\ m.n \in 1..Units
      BY <2>1, <2>2 DEF Messages
    <3>2. known[m.order] \in Amounts /\ Units \in 0..Units
      BY <2>1, <3>1, UnitsAssumption
    <3>3. [known[m.order] EXCEPT ![m.n] = Units] \in Amounts
      BY <3>1, <3>2 DEF Amounts
    <3>4. known' = [known EXCEPT ![m.order] = [known[m.order] EXCEPT ![m.n] = Units]]
      BY <1>2, <2>2
    <3> QED  BY <2>1, <3>1, <3>3, <3>4
  <2>3. CASE m.kind # "trade"
    BY <1>2, <2>1, <2>3
  <2> QED  BY <2>2, <2>3
<1>4. \A x \in Ids : Fresh(x)' = Fresh(x)
  BY <1>2 DEF Fresh, About
<1>5. TypeOK'
  BY <1>1, <1>2, <1>3, <1>4 DEF TypeOK
<1>6. OpenLeft'
  BY <1>1, <1>2 DEF OpenLeft
<1>7. Unused'
  BY <1>1, <1>2, <1>3, <1>4, FewerUsed
<1>8. Blocked'
  BY <1>1, <1>2, <1>3, <1>4 DEF Blocked, Known
<1>9. FundsAgree'
  BY <1>1, <1>2, SameBooks
<1>10. HoldsMatchOrders'
  BY <1>1, <1>2, <1>3, <1>4, SameHolds
<1>11. NilHolds'
  BY <1>1, <1>2 DEF NilHolds
<1> QED  BY <1>5, <1>6, <1>7, <1>8, <1>9, <1>10, <1>11 DEF IInv

-----------------------------------------------------------------------------
(* The main thread and its calls.                                          *)
LEMMA CreateOrderKeeps ==
  ASSUME IInv, NEW o \in Ids, NEW f \in Funds, CreateOrder(o, f)
  PROVE  IInv'
<1>1. TypeOK /\ OpenLeft /\ Unused /\ Blocked /\ FundsAgree /\ HoldsMatchOrders /\ NilHolds
  BY DEF IInv
<1>2. /\ main = Idle /\ owner[o] = Nil
      /\ main' = [op |-> "create", id |-> o, fund |-> f]
      /\ holds' = [holds EXCEPT ![f] = @ \cup {Hold("create", Nil, TRUE)}]
      /\ owner' = [owner EXCEPT ![o] = f]
      /\ UNCHANGED <<named, live, fills, mail, half, stream, cached, known, loaded, orders, record,
                    history, debit, watched, report, update, last, queue, restarts, missed, settled>>
  BY DEF CreateOrder, server, inbox, caches, books, bots, thread
<1> HIDE DEF CreateOrder
<1>3. main' \in Call /\ main'.op = "create" /\ main'.id = o /\ main'.fund = f /\ main.op = "idle"
  BY <1>1, <1>2, MainAssumption DEF Idle, Call, Ops
<1>4. /\ owner' \in [Ids -> Funds \cup {Nil}] /\ owner'[o] = f /\ f # Nil
      /\ \A x \in Ids : x # o => owner'[x] = owner[x]
  BY <1>1, <1>2, MainAssumption DEF TypeOK
<1>5. Hold("create", Nil, TRUE) \in AHold /\ Hold("create", Nil, TRUE).order = Nil
  BY DEF Hold, AHold
<1>6. /\ holds' \in [Funds -> SUBSET AHold] /\ holds'[f] = holds[f] \cup {Hold("create", Nil, TRUE)}
      /\ \A g \in Funds : g # f => holds'[g] = holds[g]
  BY <1>1, <1>2, <1>5 DEF TypeOK
<1>7. \A x \in Known(history) : x \in Ids /\ history[x].fund # Nil
  BY <1>1, MainAssumption DEF TypeOK, IsMap, Known
<1>8. TypeOK'
  BY <1>1, <1>2, <1>3, <1>4, <1>5, <1>6 DEF TypeOK
<1>9. OpenLeft'
  BY <1>1, <1>2 DEF OpenLeft
<1>10. Unused'
  <2>1. \A x \in Ids : Fresh(x)' = Fresh(x)
    BY <1>2 DEF Fresh, About
  <2> QED  BY <1>1, <1>2, <1>4, <2>1 DEF Unused, Known
<1>11. Blocked'
  <2>1. Fresh(o)' /\ o \notin Known(orders)
    BY <1>1, <1>2 DEF Unused, Fresh, About
  <2> QED  BY <1>2, <1>3, <1>4, <2>1 DEF Blocked, Known
<1>12. FundsAgree'
  <2>1. \A x \in Ids : owner[x] # Nil => owner'[x] = owner[x]
    BY <1>2, <1>4
  <2>2. \A x \in Known(record) : x \in Ids /\ owner[x] # Nil
    BY <1>1 DEF Unused, TypeOK, IsMap, Known
  <2>3. \A x \in Known(record)' : record'[x] = owner'[x]
    BY <1>1, <1>2, <2>1, <2>2 DEF FundsAgree, Known
  <2>4. \A x \in Known(orders)' : orders'[x] = OrderIdToFund(x)'
    BY <1>1, <1>2 DEF FundsAgree, Known, OrderIdToFund
  <2>5. \A x \in Known(history)' : history'[x].fund \in {owner'[x], Main}
    BY <1>1, <1>2, <1>7, <2>1 DEF FundsAgree, Known
  <2>6. \A g \in Funds \ {Main}, x \in Ids, k \in 1..Units : debit'[g][x][k] > 0 => owner'[x] = g
    BY <1>1, <1>2, <2>1, MainAssumption DEF FundsAgree
  <2> QED  BY <2>3, <2>4, <2>5, <2>6 DEF FundsAgree
<1>13. HoldsMatchOrders'
  <2>1. \A g \in Funds, x \in Ids : {h \in holds'[g] : h.order = x} = {h \in holds[g] : h.order = x}
    BY <1>5, <1>6, MainAssumption
  <2>2. \A x \in Known(orders) : x \in Ids /\ orders[x] \in Funds
    BY <1>1 DEF TypeOK, IsMap, Known
  <2>3. ASSUME NEW x \in Known(orders)
        PROVE  \E h \in holds'[orders[x]] : {k \in holds'[orders[x]] : k.order = x} = {h}
    <3>1. PICK h \in holds[orders[x]] : {k \in holds[orders[x]] : k.order = x} = {h}
      BY <1>1 DEF HoldsMatchOrders, HoldOn
    <3>2. holds[orders[x]] \subseteq holds'[orders[x]]
      BY <1>6, <2>2
    <3> QED  BY <2>1, <2>2, <3>1, <3>2
  <2>4. \A g \in Funds : \A h \in holds'[g] : h.order = Nil => g = f
    BY <1>1, <1>2, <1>3, <1>6 DEF HoldsMatchOrders
  <2>5. \A g \in Funds : \A h \in holds'[g] : h.order # Nil => h.order \in Known(orders) /\ orders[h.order] = g
    BY <1>1, <1>5, <1>6 DEF HoldsMatchOrders
  <2>6. Known(orders)' = Known(orders) /\ orders' = orders
    BY <1>2 DEF Known
  <2>7. \A x \in Known(orders)' : \E h \in holds'[orders'[x]] : HoldOn(orders[x], x)' = {h}
    BY <2>3, <2>6 DEF HoldOn
  <2>8. \A g \in Funds : \A h \in holds'[g] :
          IF h.order = Nil THEN main'.op \in {"create", "created"} /\ main'.fund = g
          ELSE h.order \in Known(orders)' /\ orders'[h.order] = g
    BY <1>3, <2>4, <2>5, <2>6
  <2> QED  BY <2>7, <2>8 DEF HoldsMatchOrders
<1>14. NilHolds'
  BY <1>1, <1>2, <1>6 DEF NilHolds
<1> QED  BY <1>8, <1>9, <1>10, <1>11, <1>12, <1>13, <1>14 DEF IInv

(* What With and Without make of a map.                                    *)
LEMMA WithMap ==
  ASSUME NEW fn, NEW S, NEW T, IsMap(fn, S, T), NEW x \in S, NEW v \in T
  PROVE  /\ IsMap(With(fn, x, v), S, T)
         /\ Known(With(fn, x, v)) = Known(fn) \cup {x}
         /\ With(fn, x, v)[x] = v
         /\ \A y \in Known(fn) : y # x => With(fn, x, v)[y] = fn[y]
  BY DEF IsMap, With, Known

LEMMA WithoutMap ==
  ASSUME NEW fn, NEW S, NEW T, IsMap(fn, S, T), NEW R
  PROVE  /\ IsMap(Without(fn, R), S, T)
         /\ Known(Without(fn, R)) = Known(fn) \ R
         /\ \A y \in Known(fn) \ R : Without(fn, R)[y] = fn[y]
  BY DEF IsMap, Without, Known

LEMMA CancelOrderKeeps ==
  ASSUME IInv, NEW o \in Ids, CancelOrder(o)
  PROVE  IInv'
<1>1. TypeOK /\ OpenLeft /\ Unused /\ Blocked /\ FundsAgree /\ HoldsMatchOrders /\ NilHolds
  BY DEF IInv
<1>2. /\ main = Idle /\ o \in Known(orders)
      /\ main' = [Idle EXCEPT !.op = "cancel", !.id = o]
      /\ UNCHANGED <<named, live, fills, mail, half, stream, cached, known, loaded, orders, holds,
                    record, history, debit, watched, report, update, last, queue, restarts, owner, missed, settled>>
  BY DEF CancelOrder, server, inbox, caches, books, bots, thread
<1> HIDE DEF CancelOrder
<1>3. main' \in Call /\ main'.op = "cancel" /\ main'.id = o /\ main.op = "idle"
  BY <1>2, MainAssumption DEF Idle, Call, Ops
<1>4. \A x \in Ids : Fresh(x)' = Fresh(x)
  BY <1>2 DEF Fresh, About
<1>5. TypeOK'
  BY <1>1, <1>2, <1>3, <1>4 DEF TypeOK
<1>6. OpenLeft'
  BY <1>1, <1>2 DEF OpenLeft
<1>7. Unused'
  BY <1>1, <1>2, <1>3, <1>4, FewerUsed
<1>8. Blocked'
  BY <1>1, <1>2, <1>3, <1>4 DEF Blocked, Known
<1>9. FundsAgree'
  BY <1>1, <1>2, SameBooks
<1>10. HoldsMatchOrders'
  BY <1>1, <1>2, <1>3, <1>4, SameHolds
<1>11. NilHolds'
  BY <1>1, <1>2 DEF NilHolds
<1> QED  BY <1>5, <1>6, <1>7, <1>8, <1>9, <1>10, <1>11 DEF IInv

LEMMA CancelFailsKeeps ==
  ASSUME IInv, CancelFails
  PROVE  IInv'
<1>1. TypeOK /\ OpenLeft /\ Unused /\ Blocked /\ FundsAgree /\ HoldsMatchOrders /\ NilHolds
  BY DEF IInv
<1>2. /\ main.op \in {"cancel", "cancelled"} /\ main' = Idle
      /\ UNCHANGED <<named, live, fills, mail, half, stream, cached, known, loaded, orders, holds,
                    record, history, debit, watched, report, update, last, queue, restarts, owner, missed, settled>>
  BY DEF CancelFails, server, inbox, caches, books, bots, thread
<1> HIDE DEF CancelFails
<1>3. main' \in Call /\ main'.op = "idle"
  BY <1>2, MainAssumption DEF Idle, Call, Ops
<1>4. \A x \in Ids : Fresh(x)' = Fresh(x)
  BY <1>2 DEF Fresh, About
<1>5. TypeOK'
  BY <1>1, <1>2, <1>3, <1>4 DEF TypeOK
<1>6. OpenLeft'
  BY <1>1, <1>2 DEF OpenLeft
<1>7. Unused'
  BY <1>1, <1>2, <1>3, <1>4, FewerUsed
<1>8. Blocked'
  BY <1>1, <1>2, <1>3, <1>4 DEF Blocked, Known
<1>9. FundsAgree'
  BY <1>1, <1>2, SameBooks
<1>10. HoldsMatchOrders'
  BY <1>1, <1>2, <1>3, <1>4, SameHolds
<1>11. NilHolds'
  BY <1>1, <1>2 DEF NilHolds
<1> QED  BY <1>5, <1>6, <1>7, <1>8, <1>9, <1>10, <1>11 DEF IInv

LEMMA CreateFailsKeeps ==
  ASSUME IInv, CreateFails
  PROVE  IInv'
<1>1. TypeOK /\ OpenLeft /\ Unused /\ Blocked /\ FundsAgree /\ HoldsMatchOrders /\ NilHolds
  BY DEF IInv
<1>2. /\ main.op \in {"create", "created"}
      /\ main' = Idle
      /\ holds' = [holds EXCEPT ![main.fund] = @ \ {Hold("create", Nil, TRUE)}]
      /\ UNCHANGED <<named, live, fills, mail, half, stream, cached, known, loaded, orders, record,
                    history, debit, watched, report, update, last, queue, restarts, owner, missed, settled>>
  BY DEF CreateFails, server, inbox, caches, books, bots, thread
<1> HIDE DEF CreateFails
<1>3. main' \in Call /\ main'.op = "idle"
  BY <1>1, <1>2, MainAssumption DEF Idle, Call, Ops
<1>4. Hold("create", Nil, TRUE).order = Nil
  BY DEF Hold
<1>5. \A h \in holds[main.fund] : h.order = Nil => h = Hold("create", Nil, TRUE)
  BY <1>1, <1>2 DEF Blocked, NilHolds
<1>6. /\ holds' \in [Funds -> SUBSET AHold] /\ holds'[main.fund] = holds[main.fund] \ {Hold("create", Nil, TRUE)}
      /\ \A g \in Funds : g # main.fund => holds'[g] = holds[g]
  BY <1>1, <1>2 DEF TypeOK, Blocked
<1>7. TypeOK'
  BY <1>1, <1>2, <1>3, <1>6 DEF TypeOK
<1>8. OpenLeft'
  BY <1>1, <1>2 DEF OpenLeft
<1>9. Unused'
  BY <1>1, <1>2, FewerUsed DEF Fresh, About
<1>10. Blocked'
  BY <1>1, <1>2, <1>3 DEF Blocked, Known
<1>11. FundsAgree'
  BY <1>1, <1>2, SameBooks
<1>12. HoldsMatchOrders'
  <2>1. \A g \in Funds, x \in Ids : {h \in holds'[g] : h.order = x} = {h \in holds[g] : h.order = x}
    BY <1>4, <1>6, MainAssumption
  <2>2. \A x \in Known(orders) : x \in Ids /\ orders[x] \in Funds
    BY <1>1 DEF TypeOK, IsMap, Known
  <2>3. ASSUME NEW x \in Known(orders)
        PROVE  \E h \in holds'[orders[x]] : {k \in holds'[orders[x]] : k.order = x} = {h}
    <3>1. PICK h \in holds[orders[x]] : {k \in holds[orders[x]] : k.order = x} = {h}
      BY <1>1 DEF HoldsMatchOrders, HoldOn
    <3>2. {k \in holds'[orders[x]] : k.order = x} = {h}
      BY <2>1, <2>2, <3>1
    <3> QED  BY <3>2
  <2>4. \A g \in Funds : \A h \in holds'[g] : h.order # Nil
    BY <1>1, <1>2, <1>5, <1>6 DEF HoldsMatchOrders
  <2>5. \A g \in Funds : \A h \in holds'[g] : h.order # Nil => h.order \in Known(orders) /\ orders[h.order] = g
    BY <1>1, <1>6 DEF HoldsMatchOrders
  <2>6. Known(orders)' = Known(orders) /\ orders' = orders
    BY <1>2 DEF Known
  <2>7. \A x \in Known(orders)' : \E h \in holds'[orders'[x]] : HoldOn(orders[x], x)' = {h}
    BY <2>3, <2>6 DEF HoldOn
  <2>8. \A g \in Funds : \A h \in holds'[g] :
          IF h.order = Nil THEN main'.op \in {"create", "created"} /\ main'.fund = g
          ELSE h.order \in Known(orders)' /\ orders'[h.order] = g
    BY <2>4, <2>5, <2>6
  <2> QED  BY <2>7, <2>8 DEF HoldsMatchOrders
<1>13. NilHolds'
  BY <1>1, <1>6 DEF NilHolds
<1> QED  BY <1>7, <1>8, <1>9, <1>10, <1>11, <1>12, <1>13 DEF IInv

LEMMA OrderPlacedKeeps ==
  ASSUME IInv, OrderPlaced
  PROVE  IInv'
<1>1. TypeOK /\ OpenLeft /\ Unused /\ Blocked /\ FundsAgree /\ HoldsMatchOrders /\ NilHolds
  BY DEF IInv
<1>2. /\ main.op = "created"
      /\ record' = With(record, main.id, main.fund)
      /\ orders' = With(orders, main.id, main.fund)
      /\ holds' = [holds EXCEPT ![main.fund] = (@ \ {Hold("create", Nil, TRUE)}) \cup {Hold("create", main.id, TRUE)}]
      /\ watched' = watched \cup {main.id} /\ main' = Idle
      /\ UNCHANGED <<named, live, fills, mail, half, stream, cached, known, loaded, history, debit,
                    report, update, last, queue, restarts, owner, missed, settled>>
  BY DEF OrderPlaced, server, inbox, caches, books, bots, thread
<1> HIDE DEF OrderPlaced
<1> DEFINE o == main.id
           f == main.fund
<1>3. /\ o \in Ids /\ f \in Funds /\ owner[o] = f /\ o \notin Known(orders)
      /\ f # Nil
  BY <1>1, <1>2, MainAssumption DEF Blocked
<1>4. main' \in Call /\ main'.op = "idle"
  BY <1>2, MainAssumption DEF Idle, Call, Ops
<1>5. /\ IsMap(record', Ids, Funds) /\ Known(record)' = Known(record) \cup {o}
      /\ record'[o] = f /\ \A x \in Known(record) : x # o => record'[x] = record[x]
  <2>1. IsMap(record, Ids, Funds)
    BY <1>1 DEF TypeOK
  <2>2. record' = With(record, o, f) /\ Known(record)' = Known(With(record, o, f))
    BY <1>2 DEF Known
  <2> QED  BY <1>3, <2>1, <2>2, WithMap
<1>6. /\ IsMap(orders', Ids, Funds) /\ Known(orders)' = Known(orders) \cup {o}
      /\ orders'[o] = f /\ \A x \in Known(orders) : x # o => orders'[x] = orders[x]
  <2>1. IsMap(orders, Ids, Funds)
    BY <1>1 DEF TypeOK
  <2>2. orders' = With(orders, o, f) /\ Known(orders)' = Known(With(orders, o, f))
    BY <1>2 DEF Known
  <2> QED  BY <1>3, <2>1, <2>2, WithMap
<1>7. /\ holds' \in [Funds -> SUBSET AHold]
      /\ holds'[f] = (holds[f] \ {Hold("create", Nil, TRUE)}) \cup {Hold("create", o, TRUE)}
      /\ \A g \in Funds : g # f => holds'[g] = holds[g]
      /\ Hold("create", o, TRUE).order = o /\ Hold("create", Nil, TRUE).order = Nil
  <2>1. Hold("create", o, TRUE) \in AHold /\ Hold("create", o, TRUE).order = o /\ Hold("create", Nil, TRUE).order = Nil
    BY <1>3 DEF Hold, AHold
  <2> QED  BY <1>1, <1>2, <1>3, <2>1 DEF TypeOK
<1> HIDE DEF o, f
<1>8. TypeOK'
  <2>1. watched' \subseteq Ids
    BY <1>1, <1>2, <1>3 DEF TypeOK, o
  <2> QED  BY <1>1, <1>2, <1>4, <1>5, <1>6, <1>7, <2>1 DEF TypeOK
<1>9. OpenLeft'
  BY <1>1, <1>2 DEF OpenLeft
<1>10. Unused'
  BY <1>1, <1>2, <1>3, <1>5, <1>6 DEF Unused, Fresh, About
<1>11. Blocked'
  BY <1>4 DEF Blocked
<1>12. FundsAgree'
  <2>1. \A x \in Known(record)' : record'[x] = owner'[x]
    BY <1>1, <1>2, <1>3, <1>5 DEF FundsAgree
  <2>2. \A x \in Known(orders)' : orders'[x] = OrderIdToFund(x)'
    BY <1>1, <1>3, <1>5, <1>6 DEF FundsAgree, OrderIdToFund
  <2>3. \A x \in Known(history)' : history'[x].fund \in {owner'[x], Main}
    BY <1>1, <1>2 DEF FundsAgree, Known
  <2> QED  BY <1>1, <1>2, <2>1, <2>2, <2>3 DEF FundsAgree
<1>13. HoldsMatchOrders'
  <2>1. \A g \in Funds, x \in Ids : x # o => {h \in holds'[g] : h.order = x} = {h \in holds[g] : h.order = x}
    BY <1>7, MainAssumption
  <2>2. \A h \in holds[f] : h.order # o
    BY <1>1, <1>3, MainAssumption DEF HoldsMatchOrders
  <2>3. {h \in holds'[f] : h.order = o} = {Hold("create", o, TRUE)} /\ Hold("create", o, TRUE) \in holds'[f]
    BY <1>7, <2>2
  <2>4. ASSUME NEW x \in Known(orders), x # o
        PROVE  \E h \in holds'[orders[x]] : {k \in holds'[orders[x]] : k.order = x} = {h}
    <3>1. x \in Ids /\ orders[x] \in Funds
      BY <1>1, <2>4 DEF TypeOK, IsMap, Known
    <3>2. PICK h \in holds[orders[x]] : {k \in holds[orders[x]] : k.order = x} = {h}
      BY <1>1, <2>4 DEF HoldsMatchOrders, HoldOn
    <3>3. {k \in holds'[orders[x]] : k.order = x} = {h}
      BY <2>1, <2>4, <3>1, <3>2
    <3> QED  BY <3>3
  <2>5. \A g \in Funds : \A h \in holds'[g] : h.order # Nil
    <3>1. \A g \in Funds : \A h \in holds[g] : h.order = Nil => g = f
      BY <1>1 DEF HoldsMatchOrders, f
    <3>2. o # Nil
      BY <1>3, MainAssumption
    <3> QED  BY <1>1, <1>3, <1>7, <3>1, <3>2 DEF NilHolds
  <2>6. \A g \in Funds : \A h \in holds'[g] : h.order # Nil => h.order \in Known(orders)' /\ orders'[h.order] = g
    <3> SUFFICES ASSUME NEW g \in Funds, NEW h \in holds'[g], h.order # Nil
                 PROVE  h.order \in Known(orders)' /\ orders'[h.order] = g
      OBVIOUS
    <3>1. CASE h \in holds[g]
      <4>1. h.order \in Known(orders) /\ orders[h.order] = g
        BY <1>1, <3>1 DEF HoldsMatchOrders
      <4> QED  BY <1>3, <1>6, <4>1
    <3>2. CASE h = Hold("create", o, TRUE) /\ g = f
      BY <1>6, <1>7, <3>2
    <3> QED  BY <1>7, <3>1, <3>2
  <2>7. \A x \in Known(orders)' : \E h \in holds'[orders'[x]] : {k \in holds'[orders'[x]] : k.order = x} = {h}
    BY <1>3, <1>6, <2>3, <2>4
  <2>8. \A x \in Known(orders)' : \E h \in holds'[orders'[x]] : HoldOn(orders[x], x)' = {h}
    BY <2>7 DEF HoldOn
  <2> QED  BY <2>5, <2>6, <2>8 DEF HoldsMatchOrders
<1>14. NilHolds'
  BY <1>1, <1>3, <1>7, MainAssumption DEF NilHolds
<1> QED  BY <1>8, <1>9, <1>10, <1>11, <1>12, <1>13, <1>14 DEF IInv

LEMMA OrderCancelledKeeps ==
  ASSUME IInv, OrderCancelled
  PROVE  IInv'
<1>1. TypeOK /\ OpenLeft /\ Unused /\ Blocked /\ FundsAgree /\ HoldsMatchOrders /\ NilHolds
  BY DEF IInv
<1>2. /\ main.op = "cancelled"
      /\ orders' = Without(orders, {main.id})
      /\ holds' = [holds EXCEPT ![orders[main.id]] = {h \in @ : h.order # main.id}]
      /\ main' = Idle
      /\ UNCHANGED <<named, live, fills, mail, half, stream, cached, known, loaded, record,
                    history, debit, watched, report, update, last, queue, restarts, owner, missed, settled>>
  BY DEF OrderCancelled, server, inbox, caches, books, bots, thread
<1> HIDE DEF OrderCancelled
<1> DEFINE o == main.id
<1>3. o \in Known(orders) /\ o \in Ids /\ orders[o] \in Funds
  BY <1>1, <1>2 DEF Blocked, TypeOK, IsMap, Known
<1>4. main' \in Call /\ main'.op = "idle"
  BY <1>2, MainAssumption DEF Idle, Call, Ops
<1>5. /\ IsMap(orders', Ids, Funds) /\ Known(orders)' = Known(orders) \ {o}
      /\ \A x \in Known(orders) \ {o} : orders'[x] = orders[x]
  <2>1. IsMap(orders, Ids, Funds)
    BY <1>1 DEF TypeOK
  <2>2. orders' = Without(orders, {o}) /\ Known(orders)' = Known(Without(orders, {o}))
    BY <1>2 DEF Known
  <2> QED  BY <2>1, <2>2, WithoutMap
<1>6. /\ holds' \in [Funds -> SUBSET AHold]
      /\ holds'[orders[o]] = {h \in holds[orders[o]] : h.order # o}
      /\ \A g \in Funds : g # orders[o] => holds'[g] = holds[g]
  BY <1>1, <1>2, <1>3 DEF TypeOK
<1>7. \A x \in Known(orders) : x # Nil
  BY <1>1, MainAssumption DEF TypeOK, IsMap, Known
<1> HIDE DEF o
<1>8. TypeOK'
  BY <1>1, <1>2, <1>3, <1>4, <1>5, <1>6 DEF TypeOK
<1>9. OpenLeft'
  BY <1>1, <1>2 DEF OpenLeft
<1>10. Unused'
  BY <1>1, <1>2, <1>5 DEF Unused, Known, Fresh, About
<1>11. Blocked'
  BY <1>4 DEF Blocked
<1>12. FundsAgree'
  BY <1>1, <1>2, <1>5 DEF FundsAgree, Known, OrderIdToFund
<1>13. HoldsMatchOrders'
  <2>1. \A g \in Funds : \A h \in holds[g] : h.order \in Known(orders) /\ orders[h.order] = g
    BY <1>1, <1>2 DEF HoldsMatchOrders
  <2>2. \A g \in Funds, x \in Ids : x # o => {h \in holds'[g] : h.order = x} = {h \in holds[g] : h.order = x}
    BY <1>6
  <2>3. \A g \in Funds : \A h \in holds'[g] : h \in holds[g] /\ h.order # o
    BY <1>6, <2>1
  <2>4. ASSUME NEW x \in Known(orders), x # o
        PROVE  \E h \in holds'[orders[x]] : {k \in holds'[orders[x]] : k.order = x} = {h}
    <3>1. x \in Ids /\ orders[x] \in Funds
      BY <1>1, <2>4 DEF TypeOK, IsMap, Known
    <3>2. PICK h \in holds[orders[x]] : {k \in holds[orders[x]] : k.order = x} = {h}
      BY <1>1, <2>4 DEF HoldsMatchOrders, HoldOn
    <3>3. {k \in holds'[orders[x]] : k.order = x} = {h}
      BY <2>2, <2>4, <3>1, <3>2
    <3> QED  BY <3>3
  <2>5. \A x \in Known(orders)' : \E h \in holds'[orders'[x]] : {k \in holds'[orders'[x]] : k.order = x} = {h}
    BY <1>5, <2>4
  <2>6. \A x \in Known(orders)' : \E h \in holds'[orders'[x]] : HoldOn(orders[x], x)' = {h}
    BY <2>5 DEF HoldOn
  <2>7. \A g \in Funds : \A h \in holds'[g] : h.order # Nil /\ h.order \in Known(orders)' /\ orders'[h.order] = g
    BY <1>3, <1>5, <2>1, <2>3, <1>7
  <2> QED  BY <2>6, <2>7 DEF HoldsMatchOrders
<1>14. NilHolds'
  BY <1>1, <1>6 DEF NilHolds
<1> QED  BY <1>8, <1>9, <1>10, <1>11, <1>12, <1>13, <1>14 DEF IInv

-----------------------------------------------------------------------------
(* The update thread.                                                      *)
LEMMA StampRoundKeeps ==
  ASSUME IInv, StampRound
  PROVE  IInv'
<1>1. TypeOK /\ OpenLeft /\ Unused /\ Blocked /\ FundsAgree /\ HoldsMatchOrders /\ NilHolds
  BY DEF IInv
<1>2. /\ update' = [NoUpdate EXCEPT !.stage = "stamped", !.stamped = {o \in Ids : owner[o] # Nil}, !.then = fills]
      /\ UNCHANGED <<named, live, fills, mail, half, stream, cached, known, loaded, main, orders,
                    holds, record, history, debit, watched, report, last, queue, restarts, owner, missed, settled>>
  BY DEF StampRound, server, inbox, caches, books, bots, thread
<1> HIDE DEF StampRound
<1>3. update' \in Round /\ update'.listed = {}
  BY <1>1, <1>2 DEF TypeOK, Round, NoUpdate
<1>4. \A x \in Ids : Fresh(x)' = Fresh(x)
  BY <1>2 DEF Fresh, About
<1>5. TypeOK'
  BY <1>1, <1>2, <1>3, <1>4 DEF TypeOK
<1>6. OpenLeft'
  BY <1>1, <1>2 DEF OpenLeft
<1>7. Unused'
  BY <1>1, <1>2, <1>3, <1>4, FewerUsed
<1>8. Blocked'
  BY <1>1, <1>2, <1>3, <1>4 DEF Blocked, Known
<1>9. FundsAgree'
  BY <1>1, <1>2, SameBooks
<1>10. HoldsMatchOrders'
  BY <1>1, <1>2, <1>3, <1>4, SameHolds
<1>11. NilHolds'
  BY <1>1, <1>2 DEF NilHolds
<1> QED  BY <1>5, <1>6, <1>7, <1>8, <1>9, <1>10, <1>11 DEF IInv

LEMMA ReadOrdersKeeps ==
  ASSUME IInv, ReadOrders
  PROVE  IInv'
<1>1. TypeOK /\ OpenLeft /\ Unused /\ Blocked /\ FundsAgree /\ HoldsMatchOrders /\ NilHolds
  BY DEF IInv
<1>2. /\ update' = [update EXCEPT !.stage = "listed", !.listed = Listing]
      /\ UNCHANGED <<named, live, fills, mail, half, stream, cached, known, loaded, main, orders,
                    holds, record, history, debit, watched, report, last, queue, restarts, owner, missed, settled>>
  BY DEF ReadOrders, server, inbox, caches, books, bots, thread
<1> HIDE DEF ReadOrders
<1>3. update' \in Round /\ update'.listed \subseteq live \cup cached
  BY <1>1, <1>2 DEF TypeOK, Round, Listing
<1>4. \A x \in Ids : Fresh(x)' = Fresh(x)
  BY <1>2 DEF Fresh, About
<1>5. TypeOK'
  BY <1>1, <1>2, <1>3, <1>4 DEF TypeOK
<1>6. OpenLeft'
  BY <1>1, <1>2 DEF OpenLeft
<1>7. Unused'
  BY <1>1, <1>2, <1>3, <1>4, FewerUsed
<1>8. Blocked'
  BY <1>1, <1>2, <1>3, <1>4 DEF Blocked, Known
<1>9. FundsAgree'
  BY <1>1, <1>2, SameBooks
<1>10. HoldsMatchOrders'
  BY <1>1, <1>2, <1>3, <1>4, SameHolds
<1>11. NilHolds'
  BY <1>1, <1>2 DEF NilHolds
<1> QED  BY <1>5, <1>6, <1>7, <1>8, <1>9, <1>10, <1>11 DEF IInv

LEMMA UpdateFailsKeeps ==
  ASSUME IInv, UpdateFails
  PROVE  IInv'
<1>1. TypeOK /\ OpenLeft /\ Unused /\ Blocked /\ FundsAgree /\ HoldsMatchOrders /\ NilHolds
  BY DEF IInv
<1>2. /\ update' = NoUpdate
      /\ UNCHANGED <<named, live, fills, mail, half, stream, cached, known, loaded, main, orders,
                    holds, record, history, debit, watched, report, last, queue, restarts, owner, missed, settled>>
  BY DEF UpdateFails, server, inbox, caches, books, bots, thread
<1> HIDE DEF UpdateFails
<1>3. update' \in Round /\ update'.listed = {}
  BY <1>2, UnitsAssumption DEF Round, NoUpdate, NoFills, Counts
<1>4. \A x \in Ids : Fresh(x)' = Fresh(x)
  BY <1>2 DEF Fresh, About
<1>5. TypeOK'
  BY <1>1, <1>2, <1>3, <1>4 DEF TypeOK
<1>6. OpenLeft'
  BY <1>1, <1>2 DEF OpenLeft
<1>7. Unused'
  BY <1>1, <1>2, <1>3, <1>4, FewerUsed
<1>8. Blocked'
  BY <1>1, <1>2, <1>3, <1>4 DEF Blocked, Known
<1>9. FundsAgree'
  BY <1>1, <1>2, SameBooks
<1>10. HoldsMatchOrders'
  BY <1>1, <1>2, <1>3, <1>4, SameHolds
<1>11. NilHolds'
  BY <1>1, <1>2 DEF NilHolds
<1> QED  BY <1>5, <1>6, <1>7, <1>8, <1>9, <1>10, <1>11 DEF IInv

LEMMA SinceAmounts ==
  ASSUME NEW all \in [Ids -> Amounts], NEW since \in Counts
  PROVE  [o \in Ids |-> [k \in 1..Units |-> IF k > since[o] THEN all[o][k] ELSE 0]] \in [Ids -> Amounts]
<1>1. \A o \in Ids, k \in 1..Units : all[o][k] \in 0..Units /\ 0 \in 0..Units
  BY UnitsAssumption DEF Amounts
<1> QED  BY <1>1 DEF Amounts

LEMMA ReadHistoryKeeps ==
  ASSUME IInv, ReadHistory
  PROVE  IInv'
<1>1. TypeOK /\ OpenLeft /\ Unused /\ Blocked /\ FundsAgree /\ HoldsMatchOrders /\ NilHolds
  BY DEF IInv
<1> DEFINE found == IF stream = "open" /\ loaded THEN known ELSE Since(Made)
           u == [stamped |-> update.stamped, listed |-> update.listed, fills |-> Since(found)]
<1>2. /\ known' = IF stream = "open" THEN found ELSE known
      /\ loaded' = (stream = "open")
      /\ queue' = Append(queue, u)
      /\ last' = update.then /\ update' = NoUpdate
      /\ UNCHANGED <<named, live, fills, mail, half, stream, cached, main, orders, holds, record,
                    history, debit, watched, report, restarts, owner, missed, settled>>
  BY DEF ReadHistory, server, inbox, caches, books, bots, thread
<1> HIDE DEF ReadHistory
<1>3. found \in [Ids -> Amounts] /\ Since(found) \in [Ids -> Amounts]
  <2>1. known \in [Ids -> Amounts] /\ last \in Counts /\ fills \in Counts
    BY <1>1 DEF TypeOK
  <2>2. Made \in [Ids -> Amounts]
    BY UnitsAssumption DEF Made, Amounts
  <2>3. Since(Made) \in [Ids -> Amounts]
    BY <2>1, <2>2, SinceAmounts DEF Since
  <2>4. found \in [Ids -> Amounts]
    BY <2>1, <2>3
  <2> HIDE DEF found
  <2> QED  BY <2>1, <2>4, SinceAmounts DEF Since
<1>4. /\ update' \in Round /\ update'.listed = {} /\ last' \in Counts
      /\ known' \in [Ids -> Amounts] /\ loaded' \in BOOLEAN
  <2>1. update' \in Round /\ update'.listed = {}
    BY <1>2, UnitsAssumption DEF Round, NoUpdate, NoFills, Counts
  <2>2. last' \in Counts
    BY <1>1, <1>2 DEF TypeOK, Round
  <2>3. known' \in [Ids -> Amounts] /\ loaded' \in BOOLEAN
    BY <1>1, <1>2, <1>3 DEF TypeOK
  <2> QED  BY <2>1, <2>2, <2>3
<1>5. u \in Update /\ u.listed = update.listed
  <2>1. update.stamped \subseteq Ids /\ update.listed \subseteq Ids
    BY <1>1 DEF TypeOK, Round
  <2> HIDE DEF found
  <2> QED  BY <1>3, <2>1 DEF Update
<1> HIDE DEF u, found
<1>6. /\ queue' \in Seq(Update) /\ Len(queue') = Len(queue) + 1 /\ Len(queue) \in Nat
      /\ queue'[Len(queue) + 1] = u /\ \A i \in 1..Len(queue) : queue'[i] = queue[i]
  <2>1. queue' = Append(queue, u) /\ queue \in Seq(Update)
    BY <1>1, <1>2 DEF TypeOK
  <2> QED  BY <1>5, <2>1
<1>7. \A x \in Ids : Fresh(x)' = Fresh(x)
  BY <1>2 DEF Fresh, About
<1>8. TypeOK'
  BY <1>1, <1>2, <1>4, <1>6 DEF TypeOK
<1>9. OpenLeft'
  BY <1>1, <1>2 DEF OpenLeft
<1>10. Unused'
  <2> SUFFICES ASSUME NEW o \in Ids, owner[o] = Nil, NEW i \in 1..Len(queue') PROVE o \notin queue'[i].listed
    BY <1>1, <1>2, <1>4, <1>7 DEF Unused, Known
  <2>1. i \in 1..Len(queue) => o \notin queue[i].listed
    BY <1>1 DEF Unused
  <2>2. o \notin u.listed
    BY <1>1, <1>5 DEF Unused
  <2> QED  BY <1>6, <2>1, <2>2
<1>11. Blocked'
  BY <1>1, <1>2, <1>7 DEF Blocked, Known
<1>12. FundsAgree'
  BY <1>1, <1>2, SameBooks
<1>13. HoldsMatchOrders'
  BY <1>1, <1>2, SameHolds
<1>14. NilHolds'
  BY <1>1, <1>2 DEF NilHolds
<1> QED  BY <1>8, <1>9, <1>10, <1>11, <1>12, <1>13, <1>14 DEF IInv

-----------------------------------------------------------------------------
(* The tick of the main loop.                                              *)
LEMMA CheckForCompletedOrdersKeeps ==
  ASSUME IInv, CheckForCompletedOrders
  PROVE  IInv'
<1>1. TypeOK /\ OpenLeft /\ Unused /\ Blocked /\ FundsAgree /\ HoldsMatchOrders /\ NilHolds
  BY DEF IInv
<1>2. /\ main.op \in {"idle", "tick"}
      /\ main' = Idle
      /\ watched' = watched \ (watched \ Known(orders))
      /\ report' = [o \in Ids |-> IF o \notin watched \ Known(orders) THEN report[o]
                                  ELSE IF o \in Known(history) THEN "completed" ELSE "cancelled"]
      /\ UNCHANGED <<named, live, fills, mail, half, stream, cached, known, loaded, orders, holds,
                    record, history, debit, update, last, queue, restarts, owner, missed, settled>>
  BY DEF CheckForCompletedOrders, server, inbox, caches, books, bots, thread
<1> HIDE DEF CheckForCompletedOrders
<1>3. main' \in Call /\ main'.op = "idle"
  BY <1>2, MainAssumption DEF Idle, Call, Ops
<1>4. \A x \in Ids : Fresh(x)' = Fresh(x)
  BY <1>2 DEF Fresh, About
<1>5. TypeOK'
  <2>1. watched' \subseteq Ids /\ report' \in [Ids -> {"none", "completed", "cancelled"}]
    BY <1>1, <1>2 DEF TypeOK
  <2> QED  BY <1>1, <1>2, <1>3, <2>1 DEF TypeOK
<1>6. OpenLeft'
  BY <1>1, <1>2 DEF OpenLeft
<1>7. Unused'
  BY <1>1, <1>2, <1>4, FewerUsed
<1>8. Blocked'
  BY <1>1, <1>2, <1>3 DEF Blocked, Known
<1>9. FundsAgree'
  BY <1>1, <1>2, SameBooks
<1>10. HoldsMatchOrders'
  BY <1>1, <1>2, <1>3, SameHolds
<1>11. NilHolds'
  BY <1>1, <1>2 DEF NilHolds
<1> QED  BY <1>5, <1>6, <1>7, <1>8, <1>9, <1>10, <1>11 DEF IInv

(* The history keeps the fund of an order it has, and takes that of the     *)
(* table for another.                                                      *)
LEMMA RecordedMap ==
  ASSUME IsMap(history, Ids, [fund : Funds, amounts : Amounts]),
         NEW a \in [Ids -> Amounts], \A o \in Ids : OrderIdToFund(o) \in Funds
  PROVE  /\ IsMap(Recorded(a), Ids, [fund : Funds, amounts : Amounts])
         /\ \A o \in Known(Recorded(a)) :
              IF o \in Known(history) THEN Recorded(a)[o].fund = history[o].fund
              ELSE Recorded(a)[o].fund = OrderIdToFund(o)
<1> DEFINE D == Known(history) \cup {x \in Ids : \E k \in 1..Units : a[x][k] > 0}
           old(o) == IF o \in Known(history) THEN history[o]
                     ELSE [fund |-> OrderIdToFund(o), amounts |-> None[o]]
           sums(o) == [k \in 1..Units |-> IF a[o][k] > 0 THEN a[o][k] ELSE old(o).amounts[k]]
           new == Recorded(a)
<1>1. D \subseteq Ids
  BY DEF Known, IsMap
<1>2. new = [o \in D |-> [old(o) EXCEPT !.amounts = sums(o)]]
  BY DEF Recorded
<1>3. ASSUME NEW o \in D
      PROVE  /\ old(o) \in [fund : Funds, amounts : Amounts]
             /\ IF o \in Known(history) THEN old(o).fund = history[o].fund ELSE old(o).fund = OrderIdToFund(o)
  <2>1. None[o] \in Amounts
    BY <1>1, UnitsAssumption DEF None, Amounts
  <2>2. o \in Known(history) => history[o] \in [fund : Funds, amounts : Amounts]
    BY DEF IsMap, Known
  <2> QED  BY <1>1, <2>1, <2>2
<1> HIDE DEF old
<1>4. ASSUME NEW o \in D PROVE sums(o) \in Amounts
  <2>1. old(o).amounts \in [1..Units -> 0..Units] /\ a[o] \in [1..Units -> 0..Units]
    BY <1>1, <1>3 DEF Amounts
  <2>2. \A k \in 1..Units : (IF a[o][k] > 0 THEN a[o][k] ELSE old(o).amounts[k]) \in 0..Units
    BY <2>1
  <2> QED  BY <2>2 DEF Amounts
<1> HIDE DEF D, sums, new
<1>5. ASSUME NEW o \in D
      PROVE  /\ new[o] \in [fund : Funds, amounts : Amounts]
             /\ new[o].fund = old(o).fund
  BY <1>2, <1>3, <1>4
<1>6. DOMAIN new = D /\ Known(new) = D
  BY <1>2 DEF Known
<1>7. IsMap(new, Ids, [fund : Funds, amounts : Amounts])
  BY <1>1, <1>5, <1>6 DEF IsMap
<1> QED  BY <1>3, <1>5, <1>6, <1>7 DEF new

(* SynchroniseOrders leaves a fund that had exactly one hold for each of   *)
(* its orders with exactly one hold for each order it has now.             *)
LEMMA SyncedHold ==
  ASSUME IInv, NEW u \in Update, NEW f \in Funds, NEW x \in Ids,
         main.op \notin {"create", "created"},
         x \in (Known(orders) \ Closed(u)) \cup u.listed, OrderIdToFund(x) = f
  PROVE  \E h \in SyncedHolds(f, u) : {k \in SyncedHolds(f, u) : k.order = x} = {h}
<1> DEFINE gone == {o \in Closed(u) : orders[o] = f}
           mine == {o \in u.listed : OrderIdToFund(o) = f}
           kept == {h \in holds[f] : h.order \notin gone}
           synced(h) == IF h.order \in mine THEN [h EXCEPT !.local = FALSE] ELSE h
           missing == {o \in mine : \A h \in kept : h.order # o}
<1>1. SyncedHolds(f, u) = {synced(h) : h \in kept} \cup {Hold("sync", o, FALSE) : o \in missing}
  BY DEF SyncedHolds
<1>2. \A h \in kept : h \in AHold /\ synced(h).order = h.order
  BY DEF IInv, TypeOK, AHold
<1>3. \A o : Hold("sync", o, FALSE).order = o
  BY DEF Hold
<1>4. x \notin gone
  BY DEF Closed
<1> HIDE DEF synced
<1>5. CASE x \in Known(orders)
  <2>1. orders[x] = f
    BY <1>5 DEF IInv, FundsAgree
  <2>2. PICK h \in holds[f] : {k \in holds[f] : k.order = x} = {h}
    BY <1>5, <2>1 DEF IInv, HoldsMatchOrders, HoldOn
  <2>3. h \in kept /\ h.order = x /\ \A k \in kept : k.order = x => k = h
    BY <1>4, <2>2
  <2>4. x \notin missing
    BY <2>3
  <2> HIDE DEF kept, missing
  <2>5. synced(h) \in SyncedHolds(f, u) /\ synced(h).order = x
    BY <1>1, <1>2, <2>3
  <2>6. ASSUME NEW k \in SyncedHolds(f, u), k.order = x PROVE k = synced(h)
    <3>1. CASE \E j \in kept : k = synced(j)
      BY <1>2, <2>3, <2>6, <3>1
    <3>2. CASE \E o \in missing : k = Hold("sync", o, FALSE)
      BY <1>3, <2>4, <2>6, <3>2
    <3> QED  BY <1>1, <3>1, <3>2
  <2> QED  BY <2>5, <2>6
<1>6. CASE x \notin Known(orders)
  <2>1. x \in mine
    BY <1>6
  <2>2. \A k \in kept : k.order # x
    BY <1>6, MainAssumption DEF IInv, HoldsMatchOrders
  <2>3. x \in missing
    BY <2>1, <2>2
  <2> HIDE DEF kept, missing
  <2>4. Hold("sync", x, FALSE) \in SyncedHolds(f, u) /\ Hold("sync", x, FALSE).order = x
    BY <1>1, <1>3, <2>3
  <2>5. ASSUME NEW k \in SyncedHolds(f, u), k.order = x PROVE k = Hold("sync", x, FALSE)
    <3>1. CASE \E j \in kept : k = synced(j)
      BY <1>2, <2>2, <2>5, <3>1
    <3>2. CASE \E o \in missing : k = Hold("sync", o, FALSE)
      BY <1>3, <2>5, <3>2
    <3> QED  BY <1>1, <3>1, <3>2
  <2> QED  BY <2>4, <2>5
<1> QED  BY <1>5, <1>6

(* ... and with holds for no other orders.                                 *)
LEMMA SyncedOnly ==
  ASSUME IInv, NEW u \in Update, NEW f \in Funds, NEW h \in SyncedHolds(f, u),
         main.op \notin {"create", "created"}
  PROVE  /\ h \in AHold /\ h.order # Nil
         /\ h.order \in (Known(orders) \ Closed(u)) \cup u.listed
         /\ OrderIdToFund(h.order) = f
<1> DEFINE gone == {o \in Closed(u) : orders[o] = f}
           mine == {o \in u.listed : OrderIdToFund(o) = f}
           kept == {k \in holds[f] : k.order \notin gone}
           synced(k) == IF k.order \in mine THEN [k EXCEPT !.local = FALSE] ELSE k
           missing == {o \in mine : \A k \in kept : k.order # o}
<1>1. SyncedHolds(f, u) = {synced(k) : k \in kept} \cup {Hold("sync", o, FALSE) : o \in missing}
  BY DEF SyncedHolds
<1>2. CASE \E k \in kept : h = synced(k)
  <2>1. PICK k \in kept : h = synced(k)
    BY <1>2
  <2>2. k \in holds[f] /\ k \in AHold /\ k.order \notin gone
    BY <2>1 DEF IInv, TypeOK
  <2>3. k.order # Nil /\ k.order \in Known(orders) /\ orders[k.order] = f
    BY <2>2 DEF IInv, HoldsMatchOrders
  <2>4. OrderIdToFund(k.order) = f
    BY <2>3 DEF IInv, FundsAgree
  <2>5. h \in AHold /\ h.order = k.order
    BY <2>1, <2>2 DEF AHold
  <2> QED  BY <2>2, <2>3, <2>4, <2>5
<1>3. CASE \E o \in missing : h = Hold("sync", o, FALSE)
  <2>1. PICK o \in missing : h = Hold("sync", o, FALSE)
    BY <1>3
  <2>2. o \in Ids /\ o \in u.listed /\ OrderIdToFund(o) = f /\ o # Nil
    BY <2>1, MainAssumption DEF Update
  <2>3. h \in AHold /\ h.order = o
    BY <2>1, <2>2 DEF Hold, AHold
  <2> QED  BY <2>2, <2>3
<1> QED  BY <1>1, <1>2, <1>3

LEMMA IntegrateKeeps ==
  ASSUME IInv, Integrate
  PROVE  IInv'
<1>1. TypeOK /\ OpenLeft /\ Unused /\ Blocked /\ FundsAgree /\ HoldsMatchOrders /\ NilHolds
  BY DEF IInv
<1>2. /\ main.op \in {"idle", "tick"}
      /\ queue # <<>>
      /\ history' = Recorded(Head(queue).fills)
      /\ orders' = [o \in (Known(orders) \ Closed(Head(queue))) \cup Head(queue).listed |->
                      IF o \in Known(orders) THEN orders[o] ELSE OrderIdToFund(o)]
      /\ holds' = [f \in Funds |-> SyncedHolds(f, Head(queue))]
      /\ record' = Without(record, Closed(Head(queue)))
      /\ debit' = [f \in Funds |-> [o \in Ids |-> [k \in 1..Units |->
                     debit[f][o][k] + Taken(f, o, k, Head(queue))]]]
      /\ queue' = Tail(queue)
      /\ main' = [Idle EXCEPT !.op = "tick"]
      /\ UNCHANGED <<named, live, fills, mail, half, stream, cached, known, loaded, watched,
                    report, update, last, restarts, owner, missed, settled>>
  BY DEF Integrate, server, inbox, caches, books, bots, thread
<1> HIDE DEF Integrate
<1> DEFINE u == Head(queue)
<1>3. u \in Update
  <2>1. queue \in Seq(Update) /\ queue # <<>>
    BY <1>1, <1>2 DEF TypeOK
  <2> QED  BY <2>1
<1>4. /\ queue' \in Seq(Update)
      /\ \A o : (\A i \in 1..Len(queue) : o \notin queue[i].listed)
                 => o \notin u.listed /\ \A i \in 1..Len(queue') : o \notin queue'[i].listed
  <2>1. queue \in Seq(Update) /\ queue # <<>> /\ queue' = Tail(queue)
    BY <1>1, <1>2 DEF TypeOK
  <2>2. /\ Tail(queue) \in Seq(Update) /\ Len(queue) \in Nat \ {0} /\ u = queue[1]
        /\ \A i \in 1..Len(Tail(queue)) : i + 1 \in 1..Len(queue) /\ Tail(queue)[i] = queue[i + 1]
    BY <2>1
  <2>3. 1 \in 1..Len(queue)
    BY <2>2
  <2> QED  BY <2>1, <2>2, <2>3
<1>5. /\ IsMap(record', Ids, Funds) /\ Known(record)' = Known(record) \ Closed(u)
      /\ \A x \in Known(record) \ Closed(u) : record'[x] = record[x]
  <2>1. IsMap(record, Ids, Funds)
    BY <1>1 DEF TypeOK
  <2>2. record' = Without(record, Closed(u)) /\ Known(record)' = Known(Without(record, Closed(u)))
    BY <1>2 DEF Known
  <2> QED  BY <2>1, <2>2, WithoutMap
<1>6. \A o \in Ids : OrderIdToFund(o) \in Funds /\ OrderIdToFund(o) \in {owner[o], Main}
  BY <1>1, MainAssumption DEF OrderIdToFund, FundsAgree, TypeOK, IsMap, Known
<1>7. /\ IsMap(history', Ids, [fund : Funds, amounts : Amounts])
      /\ \A x \in Known(history)' : x \in Ids /\ history'[x].amounts \in Amounts
                                   /\ (IF x \in Known(history) THEN history'[x].fund = history[x].fund
                                       ELSE history'[x].fund = OrderIdToFund(x))
  <2>1. u.fills \in [Ids -> Amounts]
    BY <1>3 DEF Update
  <2>2. history' = Recorded(u.fills) /\ Known(history)' = Known(Recorded(u.fills))
    BY <1>2 DEF Known
  <2>3. IsMap(history, Ids, [fund : Funds, amounts : Amounts]) /\ \A x \in Ids : OrderIdToFund(x) \in Funds
    BY <1>1, <1>6 DEF TypeOK
  <2> HIDE DEF u
  <2>4. /\ IsMap(history', Ids, [fund : Funds, amounts : Amounts])
        /\ \A x \in Known(history)' : IF x \in Known(history) THEN history'[x].fund = history[x].fund
                                       ELSE history'[x].fund = OrderIdToFund(x)
    BY <2>1, <2>2, <2>3, RecordedMap
  <2>5. \A x \in Known(history)' : x \in Ids /\ history'[x].amounts \in Amounts
    BY <2>4 DEF IsMap, Known
  <2> QED  BY <2>4, <2>5
<1>8. /\ Known(orders)' = (Known(orders) \ Closed(u)) \cup u.listed
      /\ \A x \in Known(orders)' : x \in Ids /\ orders'[x] = OrderIdToFund(x)
  <2>1. \A x \in Known(orders) : x \in Ids /\ orders[x] = OrderIdToFund(x)
    BY <1>1 DEF FundsAgree, TypeOK, IsMap, Known
  <2>2. u.listed \subseteq Ids
    BY <1>3 DEF Update
  <2>3. orders' = [o \in (Known(orders) \ Closed(u)) \cup u.listed |->
                      IF o \in Known(orders) THEN orders[o] ELSE OrderIdToFund(o)]
    BY <1>2
  <2> HIDE DEF u
  <2>4. Known(orders)' = (Known(orders) \ Closed(u)) \cup u.listed
    BY <2>3 DEF Known
  <2> QED  BY <2>1, <2>2, <2>3, <2>4
<1>9. main' \in Call /\ main'.op = "tick"
  BY <1>2, MainAssumption DEF Idle, Call, Ops
<1>10. /\ debit' \in [Funds -> [Ids -> [1..Units -> Nat]]]
       /\ \A f \in Funds, x \in Ids, k \in 1..Units :
            debit'[f][x][k] = debit[f][x][k] \/ (x \in Known(history)' /\ history'[x].fund = f)
  <2> DEFINE sum(f, x, k) == debit[f][x][k] + Taken(f, x, k, u)
  <2>1. debit' = [f \in Funds |-> [x \in Ids |-> [k \in 1..Units |-> sum(f, x, k)]]]
    BY <1>2
  <2>2. Known(history') = Known(history)'
    OBVIOUS
  <2>3. ASSUME NEW f \in Funds, NEW x \in Ids, NEW k \in 1..Units
        PROVE  /\ sum(f, x, k) \in Nat
               /\ sum(f, x, k) = debit[f][x][k] \/ (x \in Known(history)' /\ history'[x].fund = f)
    <3>1. debit[f][x][k] \in Nat
      <4>1. debit \in [Funds -> [Ids -> [1..Units -> Nat]]]
        BY <1>1 DEF TypeOK
      <4> QED  BY <4>1
    <3>2. CASE x \in Closed(u) \cap Known(history') /\ history'[x].fund = f
      <4>1. Taken(f, x, k, u) = history'[x].amounts[k]
        BY <3>2 DEF Taken
      <4>2. history'[x].amounts[k] \in 0..Units
        BY <1>7, <2>2, <3>2 DEF Amounts
      <4> QED  BY <2>2, <3>1, <3>2, <4>1, <4>2, UnitsAssumption
    <3>3. CASE ~(x \in Closed(u) \cap Known(history') /\ history'[x].fund = f)
      <4>1. Taken(f, x, k, u) = 0
        BY <3>3 DEF Taken
      <4> QED  BY <3>1, <4>1
    <3> QED  BY <3>2, <3>3
  <2> HIDE DEF sum
  <2> QED  BY <2>1, <2>3
<1>11. /\ holds' \in [Funds -> SUBSET AHold]
       /\ \A f \in Funds : \A h \in holds'[f] :
            h.order # Nil /\ h.order \in (Known(orders) \ Closed(u)) \cup u.listed /\ OrderIdToFund(h.order) = f
  <2>1. \A f \in Funds : \A h \in SyncedHolds(f, u) :
          h \in AHold /\ h.order # Nil
          /\ h.order \in (Known(orders) \ Closed(u)) \cup u.listed /\ OrderIdToFund(h.order) = f
    BY <1>2, <1>3, SyncedOnly
  <2>2. holds' = [f \in Funds |-> SyncedHolds(f, u)]
    BY <1>2
  <2> QED  BY <2>1, <2>2
<1> HIDE DEF u
<1>12. TypeOK'
  <2>1. \A o \in Ids : OrderIdToFund(o) \in Funds
    BY <1>6
  <2>2. IsMap(orders', Ids, Funds)
    <3>1. DOMAIN orders' = Known(orders)'
      BY DEF Known
    <3> QED  BY <1>8, <2>1, <3>1 DEF IsMap
  <2>3. UNCHANGED <<named, live, fills, mail, half, stream, cached, known, loaded, watched, report,
                    update, last, restarts, owner, missed, settled>>
    BY <1>2
  <2>5. /\ main' \in Call /\ queue' \in Seq(Update)
        /\ IsMap(record', Ids, Funds) /\ IsMap(history', Ids, [fund : Funds, amounts : Amounts])
        /\ holds' \in [Funds -> SUBSET AHold] /\ debit' \in [Funds -> [Ids -> [1..Units -> Nat]]]
    BY <1>4, <1>5, <1>7, <1>9, <1>10, <1>11
  <2>6. TypeOK
    BY <1>1
  <2> QED  BY <2>2, <2>3, <2>5, <2>6 DEF TypeOK
<1>13. OpenLeft'
  BY <1>1, <1>2 DEF OpenLeft
<1>14. Unused'
  <2> SUFFICES ASSUME NEW o \in Ids, owner[o] = Nil
               PROVE  /\ Fresh(o)' /\ o \notin Known(orders)' /\ o \notin Known(record)'
                      /\ o \notin update.listed
                      /\ \A i \in 1..Len(queue') : o \notin queue'[i].listed
    BY <1>2 DEF Unused
  <2>1. o \notin u.listed /\ \A i \in 1..Len(queue') : o \notin queue'[i].listed
    BY <1>1, <1>4 DEF Unused
  <2>2. Fresh(o)'
    BY <1>1, <1>2 DEF Unused, Fresh, About
  <2> QED  BY <1>1, <1>5, <1>8, <2>1, <2>2 DEF Unused
<1>15. Blocked'
  BY <1>9 DEF Blocked
<1>16. FundsAgree'
  <2>1. \A x \in Known(record)' : record'[x] = owner'[x]
    BY <1>1, <1>2, <1>5 DEF FundsAgree
  <2>2. \A x \in Known(orders)' : orders'[x] = OrderIdToFund(x)'
    <3> SUFFICES ASSUME NEW x \in Known(orders)' PROVE OrderIdToFund(x)' = OrderIdToFund(x)
      BY <1>8
    <3>1. x \notin Closed(u)
      BY <1>8 DEF Closed
    <3> QED  BY <1>5, <3>1 DEF OrderIdToFund
  <2>3. \A x \in Known(history)' : history'[x].fund \in {owner'[x], Main}
    BY <1>1, <1>2, <1>7, <1>6 DEF FundsAgree
  <2>4. \A f \in Funds \ {Main}, x \in Ids, k \in 1..Units : debit'[f][x][k] > 0 => owner'[x] = f
    <3> SUFFICES ASSUME NEW f \in Funds \ {Main}, NEW x \in Ids, NEW k \in 1..Units, debit'[f][x][k] > 0
                 PROVE  owner[x] = f
      BY <1>2
    <3>1. CASE debit'[f][x][k] = debit[f][x][k]
      BY <1>1, <3>1 DEF FundsAgree
    <3>2. CASE x \in Known(history)' /\ history'[x].fund = f
      BY <1>2, <2>3, <3>2
    <3> QED  BY <1>10, <3>1, <3>2
  <2> QED  BY <2>1, <2>2, <2>3, <2>4 DEF FundsAgree
<1>17. HoldsMatchOrders'
  <2>1. \A x \in Known(orders)' : x \in Ids /\ orders'[x] \in Funds
    BY <1>8, <1>6
  <2>2. ASSUME NEW x \in Known(orders)'
        PROVE  \E h \in holds'[orders'[x]] : {k \in holds'[orders'[x]] : k.order = x} = {h}
    <3>1. x \in (Known(orders) \ Closed(u)) \cup u.listed /\ orders'[x] = OrderIdToFund(x)
      BY <1>8
    <3>2. holds'[orders'[x]] = SyncedHolds(orders'[x], u)
      BY <1>2, <2>1 DEF u
    <3>3. x \in Ids /\ orders'[x] \in Funds /\ main.op \notin {"create", "created"}
      BY <1>2, <2>1, <2>2
    <3> QED  BY <1>3, <3>1, <3>2, <3>3, SyncedHold
  <2>3. \A x \in Known(orders)' : \E h \in holds'[orders'[x]] : HoldOn(orders[x], x)' = {h}
    BY <2>2 DEF HoldOn
  <2>4. \A g \in Funds : \A h \in holds'[g] : h.order # Nil /\ h.order \in Known(orders)' /\ orders'[h.order] = g
    BY <1>8, <1>11
  <2> QED  BY <2>3, <2>4 DEF HoldsMatchOrders
<1>18. NilHolds'
  BY <1>11 DEF NilHolds
<1> QED  BY <1>12, <1>13, <1>14, <1>15, <1>16, <1>17, <1>18 DEF IInv

LEMMA RestartKeeps ==
  ASSUME IInv, Restart
  PROVE  IInv'
<1>1. TypeOK /\ OpenLeft /\ Unused /\ Blocked /\ FundsAgree /\ HoldsMatchOrders /\ NilHolds
  BY DEF IInv
<1>2. /\ restarts < MaxRestarts /\ restarts' = restarts + 1
      /\ main' = Idle /\ update' = NoUpdate /\ last' = NoFills /\ queue' = <<>>
      /\ orders' = <<>> /\ holds' = [f \in Funds |-> {}]
      /\ stream' = "none" /\ mail' = {} /\ half' = {}
      /\ cached' = {} /\ known' = None /\ loaded' = FALSE
      /\ UNCHANGED <<named, live, fills, record, history, debit, watched, report, owner, missed,
                    settled>>
  BY DEF Restart, server, inbox, caches, books, bots, thread
<1> HIDE DEF Restart
<1>3. /\ main' \in Call /\ main'.op = "idle"
      /\ update' \in Round /\ update'.listed = {}
  BY <1>2, MainAssumption, UnitsAssumption DEF Idle, Call, Ops, Round, NoUpdate, NoFills, Counts
<1>4. /\ Known(orders)' = {} /\ IsMap(orders', Ids, Funds)
      /\ queue' \in Seq(Update) /\ Len(queue') = 0
  BY <1>2 DEF Known, IsMap
<1>5. /\ holds' \in [Funds -> SUBSET AHold] /\ \A f \in Funds : holds'[f] = {}
      /\ restarts' \in 0..MaxRestarts /\ last' \in Counts /\ known' \in [Ids -> Amounts]
  <2>1. restarts \in 0..MaxRestarts /\ MaxRestarts \in Nat
    BY <1>1, BoundsAssumption DEF TypeOK
  <2>2. last' \in Counts /\ known' \in [Ids -> Amounts]
    BY <1>2, UnitsAssumption DEF NoFills, Counts, None, Amounts
  <2> QED  BY <1>2, <2>1, <2>2
<1>6. TypeOK'
  BY <1>1, <1>2, <1>3, <1>4, <1>5 DEF TypeOK
<1>7. OpenLeft'
  BY <1>1, <1>2 DEF OpenLeft
<1>8. Unused'
  <2>1. \A x \in Ids : Fresh(x) => Fresh(x)'
    BY <1>2 DEF Fresh, About
  <2> QED  BY <1>1, <1>2, <1>3, <1>4, <2>1 DEF Unused, Known
<1>9. Blocked'
  BY <1>3 DEF Blocked
<1>10. FundsAgree'
  BY <1>1, <1>2, <1>4 DEF FundsAgree, Known
<1>11. HoldsMatchOrders'
  BY <1>2, <1>4, <1>5 DEF HoldsMatchOrders
<1>12. NilHolds'
  BY <1>5 DEF NilHolds
<1> QED  BY <1>6, <1>7, <1>8, <1>9, <1>10, <1>11, <1>12 DEF IInv

-----------------------------------------------------------------------------
(* Init establishes the invariant, and every step keeps it.                *)
LEMMA InitInvariant == Init => IInv
<1> SUFFICES ASSUME Init PROVE IInv
  OBVIOUS
<1>1. /\ named \in BOOLEAN /\ live = {} /\ fills = NoFills /\ mail = {} /\ half = {}
      /\ stream = "none" /\ cached = {} /\ known = None /\ loaded = FALSE /\ main = Idle
      /\ orders = <<>> /\ record = <<>> /\ history = <<>>
      /\ holds = [f \in Funds |-> {}]
      /\ debit = [f \in Funds |-> None]
      /\ watched = {} /\ report = [o \in Ids |-> "none"]
      /\ update = NoUpdate /\ last = NoFills /\ queue = <<>>
      /\ restarts = 0
      /\ owner = [o \in Ids |-> Nil] /\ missed = {} /\ settled = {}
  BY DEF Init
<1> HIDE DEF Init
<1>2. Known(orders) = {} /\ Known(record) = {} /\ Known(history) = {}
  BY <1>1 DEF Known
<1>3. main \in Call /\ main.op = "idle"
  BY <1>1 DEF Idle, Call, Ops
<1>4. NoFills \in Counts /\ None \in [Ids -> Amounts] /\ \A x \in Ids : NoFills[x] = 0
  BY UnitsAssumption DEF NoFills, Counts, None, Amounts
<1>5. update \in Round /\ update.listed = {} /\ queue \in Seq(Update) /\ Len(queue) = 0
  BY <1>1, <1>4 DEF NoUpdate, Round
<1>6. IsMap(orders, Ids, Funds) /\ IsMap(record, Ids, Funds) /\ IsMap(history, Ids, [fund : Funds, amounts : Amounts])
  BY <1>2 DEF IsMap, Known
<1>7. debit \in [Funds -> [Ids -> [1..Units -> Nat]]] /\ \A f \in Funds, x \in Ids, k \in 1..Units : debit[f][x][k] = 0
  BY <1>1 DEF None
<1>8. /\ holds \in [Funds -> SUBSET AHold]
      /\ report \in [Ids -> {"none", "completed", "cancelled"}]
      /\ owner \in [Ids -> Funds \cup {Nil}] /\ restarts \in 0..MaxRestarts
  BY <1>1, BoundsAssumption
<1>9. TypeOK
  BY <1>1, <1>3, <1>4, <1>5, <1>6, <1>7, <1>8 DEF TypeOK
<1>10. \A x \in Ids : Fresh(x)
  BY <1>1, <1>4 DEF Fresh, About
<1>11. OpenLeft /\ Unused /\ Blocked
  BY <1>1, <1>2, <1>3, <1>5, <1>10 DEF OpenLeft, Unused, Blocked
<1>12. FundsAgree
  BY <1>2, <1>7 DEF FundsAgree
<1>13. HoldsMatchOrders
  BY <1>1, <1>2 DEF HoldsMatchOrders
<1>14. NilHolds
  BY <1>1 DEF NilHolds
<1> QED  BY <1>9, <1>11, <1>12, <1>13, <1>14 DEF IInv

LEMMA NextKeeps == IInv /\ [Next]_vars => IInv'
<1> SUFFICES ASSUME IInv, [Next]_vars PROVE IInv'
  OBVIOUS
<1>1. CASE UNCHANGED vars
  <2>1. UNCHANGED <<named, live, fills, mail, half, stream, cached, known, loaded, main, orders,
                    holds, record, history, debit, watched, report, update, last, queue, restarts, owner, missed, settled>>
    BY <1>1 DEF vars, server, inbox, caches, books, bots, thread
  <2>2. TypeOK'
    BY <2>1 DEF IInv, TypeOK
  <2>3. \A x \in Ids : Fresh(x)' = Fresh(x)
    BY <2>1 DEF Fresh, About
  <2>4. OpenLeft' /\ NilHolds'
    BY <2>1 DEF IInv, OpenLeft, NilHolds
  <2>5. Blocked'
    BY <2>1, <2>3 DEF IInv, Blocked, Known
  <2>6. Unused' /\ FundsAgree' /\ HoldsMatchOrders'
    BY <2>1, <2>3, FewerUsed, SameBooks, SameHolds DEF IInv
  <2> QED  BY <2>2, <2>4, <2>5, <2>6 DEF IInv
<1>2. CASE Serve
  <2>1. ASSUME NEW o \in Ids, Fill(o) PROVE IInv'
    BY <2>1, FillKeeps
  <2> QED  BY <1>2, <2>1, AcceptKeeps, CancelKeeps DEF Serve
<1>3. CASE Reply
  BY <1>3, OrderPlacedKeeps, CreateFailsKeeps, OrderCancelledKeeps, CancelFailsKeeps DEF Reply
<1>4. ASSUME NEW m \in mail, HandleOrders(m) PROVE IInv'
  BY <1>4, HandleOrdersKeeps
<1>5. ASSUME NEW m \in half, HandleHistory(m) PROVE IInv'
  BY <1>5, HandleHistoryKeeps
<1>6. CASE Handle
  BY <1>4, <1>5, <1>6 DEF Handle, HandleOrders, HandleHistory
<1>7. CASE Subscribe \/ CloseStream
  BY <1>7, MakeStreamKeeps, OpenStreamKeeps, CloseStreamKeeps DEF Subscribe
<1>8. ASSUME NEW o \in Ids, NEW f \in Funds, CreateOrder(o, f) PROVE IInv'
  BY <1>8, CreateOrderKeeps
<1>9. ASSUME NEW o \in Ids, CancelOrder(o) PROVE IInv'
  BY <1>9, CancelOrderKeeps
<1>10. CASE StampRound \/ ReadOrders \/ ReadHistory \/ UpdateFails
  BY <1>10, StampRoundKeeps, ReadOrdersKeeps, ReadHistoryKeeps, UpdateFailsKeeps
<1>11. CASE Integrate
  BY <1>11, IntegrateKeeps
<1>12. CASE CheckForCompletedOrders
  BY <1>12, CheckForCompletedOrdersKeeps
<1>13. CASE Restart
  BY <1>13, RestartKeeps
<1> QED  BY <1>1, <1>2, <1>3, <1>6, <1>7, <1>8, <1>9, <1>10, <1>11, <1>12, <1>13 DEF Next

(* The invariant holds of every behaviour.                                 *)
THEOREM Invariance == Spec => []IInv
  BY InitInvariant, NextKeeps, PTL DEF Spec

(* Every variable has its type; an order is never filled beyond its units, *)
(* and no message is about more fills than an order can have.              *)
THEOREM TypeCorrect == Spec => []TypeOK
<1>1. IInv => TypeOK
  BY DEF IInv
<1> QED  BY <1>1, Invariance, PTL

(* CreateOrder, CancelOrder and SynchroniseOrders: an order of Orders has  *)
(* exactly one hold, on its own fund, and no hold outlives its order.      *)
THEOREM OneHoldPerOrder == Spec => []HoldsMatchOrders
<1>1. IInv => HoldsMatchOrders
  BY DEF IInv
<1> QED  BY <1>1, Invariance, PTL

(* OrderIdToFund, SynchroniseOrders and ApplyCompletedOrderToFund: a fund  *)
(* is held and debited for its own orders only.                            *)
THEOREM FundsStayApart == Spec => []OwnFundOnly
<1>1. IInv => OwnFundOnly
  <2> SUFFICES ASSUME IInv, NEW f \in Funds \ {Main}, NEW o \in Ids, HoldOn(f, o) # {} \/ \E k \in 1..Units : debit[f][o][k] > 0
               PROVE  owner[o] = f
    BY DEF OwnFundOnly
  <2>1. CASE \E k \in 1..Units : debit[f][o][k] > 0
    BY <2>1 DEF IInv, FundsAgree
  <2>2. CASE HoldOn(f, o) # {}
    <3>1. PICK h \in holds[f] : h.order = o
      BY <2>2 DEF HoldOn
    <3>2. o \in Known(orders) /\ orders[o] = f
      BY <3>1, MainAssumption DEF IInv, HoldsMatchOrders
    <3>3. OrderIdToFund(o) = f /\ f # Main
      BY <3>2 DEF IInv, FundsAgree
    <3> QED  BY <3>3 DEF OrderIdToFund, IInv, FundsAgree
  <2> QED  BY <2>1, <2>2
<1> QED  BY <1>1, Invariance, PTL

-----------------------------------------------------------------------------
(* What is said about an order and was not handled yet: nothing without an *)
(* open stream; never that an open order closed; its end only once.        *)
MailInv ==
  /\ stream # "open" => mail = {} /\ half = {}
  /\ \A m \in mail : m.kind = "trade" => m.n <= fills[m.order]
  /\ \A m \in mail : Closing(m) => m.order \notin live
  /\ \A m, x \in mail : Closing(m) /\ Closing(x) /\ m.order = x.order => m = x

Added(o) == Message("new", o, 0) \in mail
Ended(o) == \E m \in About(o) : Closing(m)

(* The cache has an order from when the message that it is new is handled  *)
(* until the one that it closed is.                                        *)
Cached(o) ==
  /\ stream = "making" => (o \in cached <=> o \in live)
  /\ stream = "open" => IF Added(o) THEN o \notin cached
                          ELSE o \in cached <=> o \in live \/ Ended(o)
CacheInv == \A o \in Ids \ missed : named \/ fills[o] < Units => Cached(o)

StreamInv == MailInv /\ CacheInv

LEMMA SameStream ==
  ASSUME StreamInv, UNCHANGED <<named, live, fills, mail, half, stream, cached, missed>>
  PROVE  StreamInv'
<1>1. MailInv'
  BY DEF StreamInv, MailInv, Closing
<1>2. CacheInv'
  BY DEF StreamInv, CacheInv, Cached, Added, Ended, About, Message, Closing
<1> QED  BY <1>1, <1>2 DEF StreamInv

(* The server's next message is about an order it had open, or one nobody  *)
(* had heard of.                                                           *)
LEMMA SendMail ==
  ASSUME MailInv, stream \in {"none", "making", "open"}, NEW kind, NEW o, NEW n, Send(kind, o, n),
         UNCHANGED <<half, stream>>,
         kind = "trade" => n <= fills'[o],
         \A m \in mail : m.kind = "trade" => fills[m.order] <= fills'[m.order],
         \A m \in mail : m.kind = "trade" => m.n \in Int /\ fills[m.order] \in Int /\ fills'[m.order] \in Int,
         Closing(Message(kind, o, n)) => o \notin live' /\ ~Ended(o),
         \A m \in mail : Closing(m) => m.order \notin live'
  PROVE  MailInv'
<1>1. /\ Message(kind, o, n).order = o /\ Message(kind, o, n).kind = kind /\ Message(kind, o, n).n = n
  BY DEF Message
<1>2. stream' # "open" => mail' = {} /\ half' = {}
  BY DEF MailInv, Send
<1>3. \A m \in mail' : m \in mail \/ m = Message(kind, o, n)
  BY DEF Send
<1>4. \A m \in mail' : m.kind = "trade" => m.n <= fills'[m.order]
  <2> SUFFICES ASSUME NEW m \in mail', m.kind = "trade" PROVE m.n <= fills'[m.order]
    OBVIOUS
  <2>1. CASE m \in mail
    BY <2>1 DEF MailInv
  <2>2. CASE m = Message(kind, o, n)
    BY <1>1, <2>2
  <2> QED  BY <1>3, <2>1, <2>2
<1>5. \A m \in mail' : Closing(m) => m.order \notin live'
  BY <1>1, <1>3
<1>6. \A m, x \in mail' : Closing(m) /\ Closing(x) /\ m.order = x.order => m = x
  <2>1. \A m \in mail : m.order = o /\ Closing(m) => Ended(o)
    BY DEF Ended, About
  <2> QED  BY <1>1, <1>3, <2>1 DEF MailInv
<1>7. \A m : Closing(m)' = Closing(m)
  BY DEF Closing
<1> QED  BY <1>2, <1>4, <1>5, <1>6, <1>7 DEF MailInv

(* ... and tells nothing of the others.                                    *)
LEMMA SendOther ==
  ASSUME NEW kind, NEW o, NEW n, Send(kind, o, n), NEW x, x # o
  PROVE  About(x)' = About(x) /\ Added(x)' = Added(x) /\ Ended(x)' = Ended(x)
<1>1. Message(kind, o, n).order = o /\ Message("new", x, 0).order = x
  BY DEF Message
<1>2. About(x)' = About(x)
  BY <1>1 DEF Send, About
<1>3. Added(x)' = Added(x)
  BY <1>1 DEF Send, Added, Message
<1>4. Ended(x)' = Ended(x)
  BY <1>2 DEF Ended, Closing
<1> QED  BY <1>2, <1>3, <1>4

(* An order the step is not about stays cached, or not, as it was.         *)
LEMMA SameCached ==
  ASSUME NEW x, Cached(x), UNCHANGED <<stream, cached>>, (x \in live') = (x \in live),
         Added(x)' = Added(x), Ended(x)' = Ended(x)
  PROVE  Cached(x)'
  BY DEF Cached

LEMMA FillStream ==
  ASSUME IInv, StreamInv, NEW o \in Ids, Fill(o)
  PROVE  StreamInv'
<1>1. /\ TypeOK /\ OpenLeft /\ MailInv /\ CacheInv
  BY DEF IInv, StreamInv
<1>2. /\ o \in live /\ fills' = [fills EXCEPT ![o] = @ + 1]
      /\ live' = IF fills'[o] = Units THEN live \ {o} ELSE live
      /\ Send("trade", o, fills'[o])
      /\ missed' = IF stream = "making" THEN missed \cup {o} ELSE missed
      /\ UNCHANGED <<named, half, stream, cached>>
  BY DEF Fill, Send, server, inbox, caches
<1> HIDE DEF Fill
<1> DEFINE n == fills'[o]
<1>3. /\ fills' \in Counts /\ n = fills[o] + 1 /\ fills[o] \in Nat /\ fills[o] < Units
      /\ n \in Nat /\ \A x \in Ids : x # o => fills'[x] = fills[x]
      /\ fills \in Counts /\ mail \subseteq Messages
  <2>1. fills \in Counts /\ fills[o] < Units /\ Units \in Nat /\ mail \subseteq Messages
    BY <1>1, <1>2, UnitsAssumption DEF TypeOK, OpenLeft
  <2>2. fills'[o] = fills[o] + 1 /\ fills[o] \in 0..Units
    BY <1>2, <2>1 DEF Counts
  <2> QED  BY <1>2, <2>1, <2>2 DEF Counts
<1> HIDE DEF n
<1>4. Closing(Message("trade", o, n)) <=> n = Units
  BY DEF Closing, Message
<1>5. ~Ended(o)
  BY <1>1, <1>2 DEF Ended, About, MailInv
<1>6. MailInv'
  <2>1. ASSUME NEW m \in mail, m.kind = "trade"
        PROVE  /\ fills[m.order] <= fills'[m.order] /\ m.n \in Int
               /\ fills[m.order] \in Int /\ fills'[m.order] \in Int
    <3>1. m.order \in Ids /\ m.n \in 1..Units
      BY <1>3, <2>1 DEF Messages
    <3>2. fills[m.order] \in 0..Units /\ fills'[m.order] \in 0..Units
      BY <1>3, <3>1 DEF Counts
    <3>3. m.order = o \/ fills'[m.order] = fills[m.order]
      BY <1>3, <3>1
    <3> QED  BY <1>3, <3>1, <3>2, <3>3 DEF n
  <2>2. Closing(Message("trade", o, n)) => o \notin live' /\ ~Ended(o)
    BY <1>2, <1>4, <1>5 DEF n
  <2>3. \A m \in mail : Closing(m) => m.order \notin live'
    BY <1>1, <1>2 DEF MailInv
  <2>4. stream \in {"none", "making", "open"} /\ n <= fills'[o] /\ Send("trade", o, n)
    BY <1>1, <1>2, <1>3 DEF TypeOK, n
  <2> QED  BY <1>1, <1>2, <2>1, <2>2, <2>3, <2>4, SendMail
<1>7. ASSUME NEW x \in Ids \ missed', named' \/ fills'[x] < Units PROVE Cached(x)'
  <2>1. x \in Ids \ missed /\ (stream = "making" => x # o)
    BY <1>2
  <2>2. Units \in Nat /\ fills[x] \in Nat /\ (named \/ fills[x] < Units)
    BY <1>2, <1>3, <1>7, UnitsAssumption DEF n, Counts
  <2>3. Cached(x)
    BY <1>1, <2>1, <2>2 DEF CacheInv
  <2>4. CASE x # o
    BY <1>2, <2>3, <2>4, SendOther, SameCached
  <2>5. CASE x = o
    <3>1. CASE stream = "open"
      <4>1. /\ Added(o)' <=> Added(o)
            /\ Ended(o)' <=> n = Units
        <5>1. Send("trade", o, n)
          BY <1>2 DEF n
        <5>2. mail' = mail \cup {Message("trade", o, n)}
          BY <3>1, <5>1 DEF Send
        <5>3. Message("trade", o, n).order = o /\ Message("new", o, 0) # Message("trade", o, n)
          BY DEF Message
        <5>4. Added(o)' <=> Added(o)
          BY <5>2, <5>3 DEF Added
        <5>5. Ended(o)' <=> n = Units
          BY <1>4, <1>5, <5>2, <5>3 DEF Ended, About, Closing
        <5> QED  BY <5>4, <5>5
      <4>2. o \in live' <=> n # Units
        BY <1>2 DEF n
      <4> QED  BY <1>2, <2>3, <2>5, <3>1, <4>1, <4>2 DEF Cached
    <3>2. CASE stream # "open"
      BY <1>2, <2>1, <2>5, <3>2 DEF Cached
    <3> QED  BY <3>1, <3>2
  <2> QED  BY <2>4, <2>5
<1>8. CacheInv'
  BY <1>7 DEF CacheInv
<1> QED  BY <1>6, <1>8 DEF StreamInv

LEMMA AcceptStream ==
  ASSUME IInv, StreamInv, Accept
  PROVE  StreamInv'
<1> DEFINE o == main.id
<1>1. TypeOK /\ Blocked /\ MailInv /\ CacheInv
  BY DEF IInv, StreamInv
<1>2. /\ main.op = "create" /\ live' = live \cup {o}
      /\ Send("new", o, 0)
      /\ missed' = IF stream = "making" THEN missed \cup {o} ELSE missed
      /\ UNCHANGED <<named, fills, half, stream, cached>>
  BY DEF Accept, Send, server, inbox, caches
<1> HIDE DEF Accept
<1>3. o \in Ids /\ o \notin live /\ o \notin cached /\ About(o) = {}
  BY <1>1, <1>2 DEF Blocked, Fresh
<1> HIDE DEF o
<1>4. ~Closing(Message("new", o, 0)) /\ ~Ended(o)
  BY <1>3 DEF Closing, Message, Ended
<1>5. MailInv'
  <2>1. \A m \in mail : m.kind = "trade" => m.n \in Int /\ fills[m.order] \in Int
    <3>1. mail \subseteq Messages /\ fills \in Counts
      BY <1>1 DEF TypeOK
    <3> QED  BY <3>1, UnitsAssumption DEF Messages, Counts
  <2>2. \A m \in mail : Closing(m) => m.order \notin live'
    BY <1>1, <1>2, <1>3 DEF MailInv, About
  <2>3. stream \in {"none", "making", "open"} /\ "new" # "trade"
    BY <1>1 DEF TypeOK
  <2> QED  BY <1>1, <1>2, <1>4, <2>1, <2>2, <2>3, SendMail
<1>6. ASSUME NEW x \in Ids \ missed', named' \/ fills'[x] < Units PROVE Cached(x)'
  <2>1. x \in Ids \ missed /\ (stream = "making" => x # o)
    BY <1>2
  <2>2. Cached(x)
    BY <1>1, <1>2, <1>6, <2>1 DEF CacheInv
  <2>3. CASE x # o
    BY <1>2, <2>2, <2>3, SendOther, SameCached
  <2>4. CASE x = o
    <3>1. CASE stream = "open"
      <4>1. Added(x)'
        BY <1>2, <2>4, <3>1 DEF Send, Added
      <4> QED  BY <1>2, <1>3, <2>4, <3>1, <4>1 DEF Cached
    <3>2. CASE stream # "open"
      BY <1>2, <2>1, <2>4, <3>2 DEF Cached
    <3> QED  BY <3>1, <3>2
  <2> QED  BY <2>3, <2>4
<1>7. CacheInv'
  BY <1>6 DEF CacheInv
<1> QED  BY <1>5, <1>7 DEF StreamInv

LEMMA CancelStream ==
  ASSUME IInv, StreamInv, Cancel
  PROVE  StreamInv'
<1> DEFINE o == main.id
<1>1. TypeOK /\ MailInv /\ CacheInv
  BY DEF IInv, StreamInv
<1>2. /\ o \in live /\ live' = live \ {o}
      /\ Send("cancelled", o, 0)
      /\ missed' = IF stream = "making" THEN missed \cup {o} ELSE missed
      /\ UNCHANGED <<named, fills, half, stream, cached>>
  BY DEF Cancel, Send, server, inbox, caches
<1> HIDE DEF Cancel
<1>3. o \in Ids
  BY <1>1, <1>2 DEF TypeOK
<1> HIDE DEF o
<1>4. Closing(Message("cancelled", o, 0)) /\ ~Ended(o)
  BY <1>1, <1>2 DEF Closing, Message, Ended, About, MailInv
<1>5. MailInv'
  <2>1. \A m \in mail : m.kind = "trade" => m.n \in Int /\ fills[m.order] \in Int
    <3>1. mail \subseteq Messages /\ fills \in Counts
      BY <1>1 DEF TypeOK
    <3> QED  BY <3>1, UnitsAssumption DEF Messages, Counts
  <2>2. \A m \in mail : Closing(m) => m.order \notin live'
    BY <1>1, <1>2 DEF MailInv
  <2>3. stream \in {"none", "making", "open"} /\ "cancelled" # "trade"
    BY <1>1 DEF TypeOK
  <2> QED  BY <1>1, <1>2, <1>4, <2>1, <2>2, <2>3, SendMail
<1>6. ASSUME NEW x \in Ids \ missed', named' \/ fills'[x] < Units PROVE Cached(x)'
  <2>1. x \in Ids \ missed /\ (stream = "making" => x # o)
    BY <1>2
  <2>2. Cached(x)
    BY <1>1, <1>2, <1>6, <2>1 DEF CacheInv
  <2>3. CASE x # o
    BY <1>2, <2>2, <2>3, SendOther, SameCached
  <2>4. CASE x = o
    <3>1. CASE stream = "open"
      <4>1. mail' = mail \cup {Message("cancelled", x, 0)} /\ Closing(Message("cancelled", x, 0))
        BY <1>2, <1>4, <2>4, <3>1 DEF Send
      <4>2. Message("cancelled", x, 0).order = x /\ Message("new", x, 0) # Message("cancelled", x, 0)
        BY DEF Message
      <4>3. Added(x)' <=> Added(x)
        BY <4>1, <4>2 DEF Added
      <4>4. Ended(x)'
        BY <4>1, <4>2 DEF Ended, About, Closing
      <4> QED  BY <1>2, <2>2, <2>4, <3>1, <4>3, <4>4 DEF Cached
    <3>2. CASE stream # "open"
      BY <1>2, <2>1, <2>4, <3>2 DEF Cached
    <3> QED  BY <3>1, <3>2
  <2> QED  BY <2>3, <2>4
<1>7. CacheInv'
  BY <1>6 DEF CacheInv
<1> QED  BY <1>5, <1>7 DEF StreamInv

(* A new stream starts from the open orders, and hears of all that happens *)
(* once it is open.                                                        *)
LEMMA SubscribeStream ==
  ASSUME StreamInv, MakeStream \/ OpenStream \/ CloseStream \/ Restart
  PROVE  StreamInv'
<1>1. MailInv /\ CacheInv
  BY DEF StreamInv
<1>2. CASE MakeStream
  <2>1. stream = "none" /\ stream' = "making" /\ cached' = live /\ UNCHANGED <<live, fills, mail, half>>
    BY <1>2 DEF MakeStream, server, inbox
  <2>2. MailInv'
    BY <1>1, <2>1 DEF MailInv, Closing
  <2>3. CacheInv'
    BY <2>1 DEF CacheInv, Cached
  <2> QED  BY <2>2, <2>3 DEF StreamInv
<1>3. CASE OpenStream
  <2>1. stream = "making" /\ stream' = "open" /\ UNCHANGED <<named, live, fills, mail, half, cached, missed>>
    BY <1>3 DEF OpenStream, server, inbox, caches
  <2>2. mail = {}
    BY <1>1, <2>1 DEF MailInv
  <2>3. MailInv'
    BY <2>1, <2>2 DEF MailInv
  <2>4. CacheInv'
    BY <1>1, <2>1, <2>2 DEF CacheInv, Cached, Added, Ended, About
  <2> QED  BY <2>3, <2>4 DEF StreamInv
<1>4. CASE CloseStream \/ Restart
  <2>1. stream' = "none" /\ mail' = {} /\ half' = {}
    BY <1>4 DEF CloseStream, Restart
  <2> QED  BY <2>1 DEF StreamInv, MailInv, CacheInv, Cached
<1> QED  BY <1>2, <1>3, <1>4

LEMMA HandleStream ==
  ASSUME IInv, StreamInv, NEW m \in mail, HandleOrders(m)
  PROVE  StreamInv'
<1> DEFINE o == m.order
<1>1. TypeOK /\ MailInv /\ CacheInv
  BY DEF IInv, StreamInv
<1>2. /\ mail' = mail \ {m} /\ half' = half \cup {m} /\ cached' = ListedAfter(m)
      /\ missed' = IF m.kind = "new" /\ o \notin live /\ ~Ended(o) THEN missed \cup {o} ELSE missed
      /\ UNCHANGED <<named, live, fills, stream>>
  BY DEF HandleOrders, server, Ended
<1> HIDE DEF HandleOrders
<1>3. m \in Messages /\ o \in Ids /\ stream = "open" /\ mail \subseteq Messages
      /\ \A x, y : x.kind = y.kind /\ x.order = y.order /\ x.n = y.n /\ x \in Messages /\ y \in Messages => x = y
  <2>1. mail \subseteq Messages /\ stream = "open"
    BY <1>1 DEF TypeOK, MailInv
  <2> QED  BY <2>1 DEF Messages
<1>4. MailInv'
  BY <1>1, <1>2, <1>3 DEF MailInv, Closing
<1>5. ASSUME NEW x \in Ids \ missed', named' \/ fills'[x] < Units PROVE Cached(x)'
  <2>1. Cached(x) /\ x \notin missed
    BY <1>1, <1>2, <1>5 DEF CacheInv
  <2>2. CASE x # o
    <3>1. About(x)' = About(x)
      BY <1>2, <2>2 DEF About
    <3>2. Added(x)' = Added(x)
      BY <1>2, <2>2 DEF Added, Message
    <3>3. Ended(x)' = Ended(x)
      BY <3>1 DEF Ended, Closing
    <3>4. x \in cached' <=> x \in cached
      BY <1>2, <2>2 DEF ListedAfter
    <3> QED  BY <1>2, <2>1, <3>2, <3>3, <3>4 DEF Cached
  <2>3. CASE x = o /\ m.kind = "new"
    <3>1. m = Message("new", o, 0)
      BY <1>3, <2>3 DEF Messages, Message
    <3>2. ~Added(o)' /\ o \in cached'
      BY <1>2, <2>3, <3>1 DEF Added, Message, ListedAfter
    <3>3. Ended(o)' <=> Ended(o)
      BY <1>2, <2>3 DEF Ended, About, Closing
    <3>4. o \in live \/ Ended(o)
      BY <1>2, <1>5, <2>3
    <3> QED  BY <1>2, <1>3, <2>3, <3>2, <3>3, <3>4 DEF Cached
  <2>4. CASE x = o /\ Closing(m)
    <3>1. o \notin live /\ ~Ended(o)'
      BY <1>1, <1>2, <2>4 DEF MailInv, Ended, About, Closing
    <3>2. m.kind = "cancelled" \/ named
      <4>1. CASE m.kind = "trade" /\ m.n = Units
        <5>1. fills[o] \in 0..Units /\ Units \in Nat /\ Units <= fills[o]
          BY <1>1, <1>3, <4>1, UnitsAssumption DEF TypeOK, Counts, MailInv
        <5> QED  BY <1>2, <1>5, <2>4, <5>1
      <4> QED  BY <2>4, <4>1 DEF Closing
    <3>3. o \notin cached'
      BY <1>2, <2>4, <3>2 DEF ListedAfter, Closing
    <3> QED  BY <1>2, <2>4, <3>1, <3>3 DEF Cached
  <2>5. CASE x = o /\ m.kind # "new" /\ ~Closing(m)
    <3>1. cached' = cached
      BY <1>2, <2>5 DEF ListedAfter, Closing
    <3>2. Added(o)' <=> Added(o)
      BY <1>2, <2>5 DEF Added, Message
    <3>3. Ended(o)' <=> Ended(o)
      BY <1>2, <2>5 DEF Ended, About, Closing
    <3> QED  BY <1>2, <2>1, <2>5, <3>1, <3>2, <3>3 DEF Cached
  <2> QED  BY <2>2, <2>3, <2>4, <2>5
<1>6. CacheInv'
  BY <1>5 DEF CacheInv
<1> QED  BY <1>4, <1>6 DEF StreamInv

LEMMA HistoryStream ==
  ASSUME StreamInv, NEW m \in half, HandleHistory(m)
  PROVE  StreamInv'
<1>1. /\ half' \subseteq half /\ UNCHANGED <<named, live, fills, mail, stream, cached, missed>>
  BY DEF HandleHistory, server
<1>2. MailInv'
  BY <1>1 DEF StreamInv, MailInv, Closing
<1>3. CacheInv'
  BY <1>1 DEF StreamInv, CacheInv, Cached, Added, Ended, About, Message, Closing
<1> QED  BY <1>2, <1>3 DEF StreamInv

(* Every step keeps the invariant of the stream.                           *)
LEMMA StreamKeeps == IInv /\ StreamInv /\ [Next]_vars => StreamInv'
<1> SUFFICES ASSUME IInv, StreamInv, [Next]_vars PROVE StreamInv'
  OBVIOUS
<1> DEFINE Same == UNCHANGED <<named, live, fills, mail, half, stream, cached, missed>>
<1>1. CASE UNCHANGED vars
  BY <1>1, SameStream DEF vars, server, inbox, caches
<1>2. CASE Serve
  <2>1. ASSUME NEW o \in Ids, Fill(o) PROVE StreamInv'
    BY <2>1, FillStream
  <2> QED  BY <1>2, <2>1, AcceptStream, CancelStream DEF Serve
<1>3. CASE Reply
  <2>1. Same
    BY <1>3 DEF Reply, OrderPlaced, CreateFails, OrderCancelled, CancelFails, server, inbox, caches
  <2> QED  BY <2>1, SameStream
<1>4. ASSUME NEW m \in mail, HandleOrders(m) PROVE StreamInv'
  BY <1>4, HandleStream
<1>5. ASSUME NEW m \in half, HandleHistory(m) PROVE StreamInv'
  BY <1>5, HistoryStream
<1>6. CASE Handle
  BY <1>4, <1>5, <1>6 DEF Handle, HandleOrders, HandleHistory
<1>7. CASE Subscribe \/ CloseStream \/ Restart
  BY <1>7, SubscribeStream DEF Subscribe
<1>8. ASSUME NEW o \in Ids, NEW f \in Funds, CreateOrder(o, f) PROVE StreamInv'
  <2>1. Same
    BY <1>8 DEF CreateOrder, server, inbox, caches
  <2> QED  BY <2>1, SameStream
<1>9. ASSUME NEW o \in Ids, CancelOrder(o) PROVE StreamInv'
  <2>1. Same
    BY <1>9 DEF CancelOrder, server, inbox, caches
  <2> QED  BY <2>1, SameStream
<1>10. CASE StampRound \/ ReadOrders \/ ReadHistory \/ UpdateFails
  <2>1. Same
    BY <1>10 DEF StampRound, ReadOrders, ReadHistory, UpdateFails, server, inbox, caches
  <2> QED  BY <2>1, SameStream
<1>11. CASE Integrate \/ CheckForCompletedOrders
  <2>1. Same
    BY <1>11 DEF Integrate, CheckForCompletedOrders, server, inbox, caches
  <2> QED  BY <2>1, SameStream
<1> QED  BY <1>1, <1>2, <1>3, <1>6, <1>7, <1>8, <1>9, <1>10, <1>11 DEF Next

(* The invariant of the stream holds of every behaviour.                   *)
THEOREM StreamInvariance == Spec => []StreamInv
<1>1. Init => StreamInv
  BY DEF Init, StreamInv, MailInv, CacheInv, Cached
<1> QED  BY <1>1, StreamKeeps, Invariance, PTL DEF Spec

(* UserDataStream and OrdersStream.ApplyUpdate: once nothing about an order*)
(* is outstanding, the cache of an open stream lists it exactly when it is *)
(* open, in whatever order and beside whatever reads the messages were     *)
(* handled.                                                                *)
THEOREM ListingIsLive == Spec => []QuietListingIsLive
<1>1. StreamInv => QuietListingIsLive
  <2> SUFFICES ASSUME StreamInv, stream = "open", NEW o \in Ids \ missed,
                      About(o) = {}, named \/ fills[o] < Units
               PROVE  o \in cached <=> o \in live
    BY DEF QuietListingIsLive
  <2>1. Cached(o)
    BY DEF StreamInv, CacheInv
  <2>2. ~Added(o) /\ ~Ended(o)
    BY DEF Added, Ended, About, Message
  <2> QED  BY <2>1, <2>2 DEF Cached
<1> QED  BY <1>1, StreamInvariance, PTL

=============================================================================
