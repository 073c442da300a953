---------------------------- MODULE ExchangeOrders ----------------------------
(***************************************************************************)
(* How CoinFlip keeps its picture of an exchange: the orders it placed,    *)
(* the hold each one has on a fund, the fills that are debited from a fund *)
(* and what the bots are told.  The exchange is Binance, the only one that *)
(* CreateExchanges makes (the other two are not compiled).  Four parties:  *)
(*   - the exchange's server, which accepts, fills and cancels orders and  *)
(*     sends a message about each of these to the user-data stream;        *)
(*   - the handlers of the messages, which bring two caches up to date,    *)
(*     first the open orders and then the fills.  A message is posted to a *)
(*     thread of the pool, so they run in any order and side by side;      *)
(*   - the update thread, which stamps a round, reads the first cache,     *)
(*     then the second, and posts what it read;                            *)
(*   - the main thread, which creates and cancels orders, blocked while    *)
(*     the server answers, and which integrates the posted updates.        *)
(*                                                                         *)
(* A time is only ever compared with the stamp of a round, so a stamp is   *)
(* the set of orders created, and the number of fills made, before it; the *)
(* clocks of the program and of the server are taken to agree.  There is   *)
(* one pair of currencies.  The coins are those an order sells, in units   *)
(* of one fill.                                                            *)
(***************************************************************************)
EXTENDS Integers, Sequences, FiniteSets

CONSTANTS
  Ids,             \* order ids the exchange can hand out
  Funds, Main,     \* the partition of the account, and its remainder
  Units,           \* fills that complete an order
  Nil,             \* no order id, no fund
  MaxQueued,       \* bound: updates waiting to be integrated
  MaxRestarts      \* bound: restarts of the program

ASSUME MainAssumption == Main \in Funds /\ Nil \notin Ids \cup Funds
ASSUME UnitsAssumption == Units \in Nat \ {0}
ASSUME BoundsAssumption == MaxQueued \in Nat /\ MaxRestarts \in Nat

VARIABLES
  named,     \* the message of a last fill names the order as its original one
  live,      \* the server: open orders
  fills,     \* the server: fills of each order
  mail,      \* messages whose handler has not run
  half,      \* messages applied to the open orders, not yet to the fills
  stream,    \* the UserDataStream: none, being made, or open
  cached,    \* OrdersStream: the open orders it knows
  known,     \* HistoryStream: the amount it has for each fill of an order
  loaded,    \* HistoryStream has a list for the pair
  main,      \* what the main thread is in the middle of
  orders,    \* Exchange.Orders: order id -> its fund
  holds,     \* the FundHoldContainer of each fund
  record,    \* the LiveOrders table: order id -> fund
  history,   \* Exchange.History and its tables: order id -> fund, amounts
  debit,     \* what was taken from each fund for each fill of an order
  watched,   \* MonitoredOrders.Orders
  report,    \* the event MonitoredOrders raised for an order
  update,    \* the update thread's round
  last,      \* m_history_last, as the fills made before it
  queue,     \* Model.DataUpdates
  restarts,
  owner,     \* history variable: the fund each order was created for
  missed,    \* history variable: orders whose messages this stream did not get,
             \* or handled the last before the first
  settled    \* history variable: orders closed when a stream was last made

server == <<named, live, fills>>
caches == <<cached, known, loaded>>
inbox == <<mail, half>>
books == <<orders, holds, record, history, debit>>
bots == <<watched, report>>
thread == <<update, last, queue>>
vars == <<server, inbox, stream, caches, main, books, bots, thread, restarts,
          owner, missed, settled>>

Known(fn) == DOMAIN fn
Without(fn, S) == [x \in DOMAIN fn \ S |-> fn[x]]
With(fn, x, v) == [y \in DOMAIN fn \cup {x} |-> IF y = x THEN v ELSE fn[y]]

(* A hold is known by how it came about: one of CreateOrder, which has no  *)
(* order id until the exchange gave one, or one of SynchroniseOrders.      *)
Hold(by, o, local) == [by |-> by, order |-> o, local |-> local]
HoldOn(f, o) == {h \in holds[f] : h.order = o}

(* Takes the first fund for an order that has no row.                      *)
AnyFund(o) == IF o \in Known(record) THEN record[o] ELSE CHOOSE f \in Funds : f # Main

OrderIdToFund(o) == IF o \in Known(record) THEN record[o] ELSE Main

Idle == [op |-> "idle", id |-> Nil, fund |-> Nil]
None == [o \in Ids |-> [k \in 1..Units |-> 0]]
NoFills == [o \in Ids |-> 0]
NoUpdate == [stage |-> "idle", stamped |-> {}, listed |-> {}, then |-> NoFills]

Init ==
  /\ named \in BOOLEAN
  /\ live = {} /\ fills = NoFills
  /\ mail = {} /\ half = {}
  /\ stream = "none" /\ cached = {} /\ known = None /\ loaded = FALSE
  /\ main = Idle
  /\ orders = <<>> /\ record = <<>> /\ history = <<>>
  /\ holds = [f \in Funds |-> {}]
  /\ debit = [f \in Funds |-> None]
  /\ watched = {} /\ report = [o \in Ids |-> "none"]
  /\ update = NoUpdate /\ last = NoFills /\ queue = <<>>
  /\ restarts = 0
  /\ owner = [o \in Ids |-> Nil] /\ missed = {} /\ settled = {}

-----------------------------------------------------------------------------
(* The server.  It sends a message if the stream listens, and the caches   *)
(* miss what happens while the stream is being made.                       *)

Message(kind, o, n) == [kind |-> kind, order |-> o, n |-> n]
Send(kind, o, n) ==
  /\ mail' = IF stream = "open" THEN mail \cup {Message(kind, o, n)} ELSE mail
  /\ missed' = IF stream = "making" THEN missed \cup {o} ELSE missed

Fill(o) ==
  /\ o \in live
  /\ fills' = [fills EXCEPT ![o] = @ + 1]
  /\ live' = IF fills'[o] = Units THEN live \ {o} ELSE live
  /\ Send("trade", o, fills'[o])
  /\ UNCHANGED <<named, half, stream, caches, main, books, bots, thread, restarts, owner, settled>>

(* It answers a creation ...                                               *)
Accept ==
  /\ main.op = "create"
  /\ live' = live \cup {main.id}
  /\ Send("new", main.id, 0)
  /\ main' = [main EXCEPT !.op = "created"]
  /\ UNCHANGED <<named, fills, half, stream, caches, books, bots, thread, restarts, owner, settled>>

(* ... and a cancellation of an open order.                                *)
Cancel ==
  /\ main.op = "cancel"
  /\ main.id \in live
  /\ live' = live \ {main.id}
  /\ Send("cancelled", main.id, 0)
  /\ main' = [main EXCEPT !.op = "cancelled"]
  /\ UNCHANGED <<named, fills, half, stream, caches, books, bots, thread, restarts, owner, settled>>

-----------------------------------------------------------------------------
(* The user-data stream.  UserDataStream asks for the open orders, and only*)
(* then has a stream started and the socket opened; the list of fills is   *)
(* made when it is first needed.                                           *)

(* Orders that will never be open again.                                   *)
ClosedForGood == {o \in Ids : owner[o] # Nil /\ o \notin live /\ ~(main.op = "create" /\ main.id = o)}

MakeStream ==
  /\ stream = "none"
  /\ stream' = "making"
  /\ cached' = live
  /\ missed' = {} /\ settled' = ClosedForGood
  /\ UNCHANGED <<server, inbox, known, loaded, main, books, bots, thread, restarts, owner>>

OpenStream ==
  /\ stream = "making"
  /\ stream' = "open"
  /\ UNCHANGED <<server, inbox, caches, main, books, bots, thread, restarts, owner, missed, settled>>

(* The socket closes, has an error or could not be opened: its handlers    *)
(* are taken off and the next access makes a new stream.                   *)
CloseStream ==
  /\ stream \in {"making", "open"}
  /\ stream' = "none"
  /\ mail' = {} /\ half' = {}
  /\ cached' = {} /\ known' = None /\ loaded' = FALSE
  /\ UNCHANGED <<server, main, books, bots, thread, restarts, owner, missed, settled>>

Closing(m) == m.kind = "cancelled" \/ (m.kind = "trade" /\ m.n = Units)
About(o) == {m \in mail : m.order = o}

(* Takes a cancelled order for the one whose own id the message carries.   *)
ListedByOwnId(m) == IF m.kind = "new" THEN cached \cup {m.order} ELSE cached

(* The open orders after a message, which removes the order it names as    *)
(* the original one: that is the one being cancelled; whether the message  *)
(* of a last fill names one is the server's choice.                        *)
ListedAfter(m) ==
  IF m.kind = "new" THEN cached \cup {m.order}
  ELSE IF m.kind = "cancelled" \/ (Closing(m) /\ named) THEN cached \ {m.order}
  ELSE cached

(* OrdersStream.ApplyUpdate ...                                            *)
HandleOrders(m) ==
  /\ m \in mail
  /\ mail' = mail \ {m}
  /\ half' = half \cup {m}
  /\ cached' = ListedAfter(m)
  /\ missed' = IF m.kind = "new" /\ m.order \notin live /\ ~\E x \in About(m.order) : Closing(x)
               THEN missed \cup {m.order} ELSE missed
  /\ UNCHANGED <<server, stream, known, loaded, main, books, bots, thread, restarts, owner, settled>>

(* ... and HistoryStream.ApplyUpdate.  Whatever the message is about, it   *)
(* makes the list of the pair if there is none; a fill is kept with the    *)
(* quantity of the order, not with the last executed one.                  *)
HandleHistory(m) ==
  /\ m \in half
  /\ half' = half \ {m}
  /\ loaded' = TRUE
  /\ known' = IF m.kind = "trade" THEN [known EXCEPT ![m.order][m.n] = Units] ELSE known
  /\ UNCHANGED <<server, mail, stream, cached, main, books, bots, thread, restarts, owner, missed, settled>>

-----------------------------------------------------------------------------
(* CreateOrder reads the time, takes a local hold and blocks on the reply. *)
CreateOrder(o, f) ==
  /\ main = Idle
  /\ owner[o] = Nil
  /\ main' = [op |-> "create", id |-> o, fund |-> f]
  /\ holds' = [holds EXCEPT ![f] = @ \cup {Hold("create", Nil, TRUE)}]
  /\ owner' = [owner EXCEPT ![o] = f]
  /\ UNCHANGED <<server, inbox, stream, caches, orders, record, history, debit, bots, thread,
                 restarts, missed, settled>>

(* The reply arrives: the rest of CreateOrder, which Binance never answers *)
(* with fills or as filled, and the bot that called it monitors the order. *)
OrderPlaced ==
  LET o == main.id
      f == main.fund
  IN  /\ main.op = "created"
      /\ record' = With(record, o, f)
      /\ orders' = With(orders, o, f)
      /\ holds' = [holds EXCEPT ![f] = (@ \ {Hold("create", Nil, TRUE)})
                                         \cup {Hold("create", o, TRUE)}]
      /\ watched' = watched \cup {o}
      /\ main' = Idle
      /\ UNCHANGED <<server, inbox, stream, caches, history, debit, report, thread,
                     restarts, owner, missed, settled>>

(* The submission throws, before or after the exchange took the order.     *)
CreateFails ==
  /\ main.op \in {"create", "created"}
  /\ holds' = [holds EXCEPT ![main.fund] = @ \ {Hold("create", Nil, TRUE)}]
  /\ main' = Idle
  /\ UNCHANGED <<server, inbox, stream, caches, orders, record, history, debit, bots, thread,
                 restarts, owner, missed, settled>>

(* What UserData.Orders gives: the cache of the stream or, when one could  *)
(* not be made, the answer of the server to a query made now.              *)
Listing == IF stream = "open" THEN cached ELSE live

(* CancelOrder throws, and nothing changes, if the order is not listed.    *)
CancelOrder(o) ==
  /\ main = Idle
  /\ stream # "making"
  /\ o \in Known(orders) \cap Listing
  /\ main' = [Idle EXCEPT !.op = "cancel", !.id = o]
  /\ UNCHANGED <<server, inbox, stream, caches, books, bots, thread, restarts, owner, missed, settled>>

(* The reply arrives: the rest of CancelOrder.  The row in LiveOrders      *)
(* stays.                                                                  *)
OrderCancelled ==
  LET o == main.id
  IN  /\ main.op = "cancelled"
      /\ orders' = Without(orders, {o})
      /\ holds' = [holds EXCEPT ![orders[o]] = {h \in @ : h.order # o}]
      /\ main' = Idle
      /\ UNCHANGED <<server, inbox, stream, caches, record, history, debit, bots, thread,
                     restarts, owner, missed, settled>>

(* The cancellation throws, before or after the exchange did it: the one   *)
(* of an order that is no longer open always does.                         *)
CancelFails ==
  /\ main.op \in {"cancel", "cancelled"}
  /\ main' = Idle
  /\ UNCHANGED <<server, inbox, stream, caches, books, bots, thread, restarts, owner, missed, settled>>

-----------------------------------------------------------------------------
(* UpdateOrdersAndHistoryInternal: the stamp, the open orders, the fills.  *)
StampRound ==
  /\ update.stage = "idle"
  /\ update' = [NoUpdate EXCEPT !.stage = "stamped",
                                !.stamped = {o \in Ids : owner[o] # Nil},
                                !.then = fills]
  /\ UNCHANGED <<server, inbox, stream, caches, main, books, bots, last, queue, restarts,
                 owner, missed, settled>>

ReadOrders ==
  /\ update.stage = "stamped"
  /\ stream # "making"
  /\ update' = [update EXCEPT !.stage = "listed", !.listed = Listing]
  /\ UNCHANGED <<server, inbox, stream, caches, main, books, bots, last, queue, restarts,
                 owner, missed, settled>>

(* The amounts of the fills that were made since m_history_last.           *)
Since(all) == [o \in Ids |-> [k \in 1..Units |-> IF k > last[o] THEN all[o][k] ELSE 0]]

(* What the server answers when asked for the fills.                       *)
Made == [o \in Ids |-> [k \in 1..Units |-> IF k <= fills[o] THEN 1 ELSE 0]]

(* UserData.History: the list of the pair, asked from the server if there  *)
(* is none.  Then the round is posted, and m_history_last is its stamp.    *)
ReadHistory ==
  LET found == IF stream = "open" /\ loaded THEN known ELSE Since(Made)
  IN  /\ update.stage = "listed"
      /\ stream # "making"
      /\ Len(queue) < MaxQueued
      /\ known' = IF stream = "open" THEN found ELSE known
      /\ loaded' = (stream = "open")
      /\ queue' = Append(queue, [stamped |-> update.stamped, listed |-> update.listed,
                                 fills |-> Since(found)])
      /\ last' = update.then
      /\ update' = NoUpdate
      /\ UNCHANGED <<server, inbox, stream, cached, main, books, bots, restarts,
                     owner, missed, settled>>

(* A query throws: the round is dropped.                                   *)
UpdateFails ==
  /\ update.stage # "idle"
  /\ stream # "making"
  /\ update' = NoUpdate
  /\ UNCHANGED <<server, inbox, stream, caches, main, books, bots, last, queue, restarts,
                 owner, missed, settled>>

-----------------------------------------------------------------------------
(* AddToTradeHistory for each fill there is an amount for: a fill is known *)
(* by its trade id, and an order keeps the fund it was first recorded with.*)
Recorded(amounts) ==
  [o \in Known(history) \cup {x \in Ids : \E k \in 1..Units : amounts[x][k] > 0} |->
     LET old == IF o \in Known(history) THEN history[o]
                ELSE [fund |-> OrderIdToFund(o), amounts |-> None[o]]
     IN  [old EXCEPT !.amounts = [k \in 1..Units |->
            IF amounts[o][k] > 0 THEN amounts[o][k] ELSE @[k]]]]

(* Drops an order only once it is in the history.                          *)
ClosedIfFilled(u) ==
  {o \in Known(orders) \ u.listed : o \in u.stamped /\ \E k \in 1..Units : u.fills[o][k] > 0}

(* The orders SynchroniseOrders drops: not listed, and older than the      *)
(* update.                                                                 *)
Closed(u) == {o \in Known(orders) \ u.listed : o \in u.stamped}

(* Gives a listed order a hold that has one already.                       *)
HoldsForAll(f, u) ==
  LET gone == {o \in Closed(u) : orders[o] = f}
      mine == {o \in u.listed : OrderIdToFund(o) = f}
  IN  {h \in holds[f] : h.order \notin gone} \cup {Hold("sync", o, FALSE) : o \in mine}

(* The holds of a fund: those of the dropped orders go, those of the       *)
(* listed ones stop being local, and a listed order without one gets one.  *)
SyncedHolds(f, u) ==
  LET gone == {o \in Closed(u) : orders[o] = f}
      mine == {o \in u.listed : OrderIdToFund(o) = f}
      kept == {h \in holds[f] : h.order \notin gone}
  IN  {IF h.order \in mine THEN [h EXCEPT !.local = FALSE] ELSE h : h \in kept}
        \cup {Hold("sync", o, FALSE) : o \in {x \in mine : \A h \in kept : h.order # x}}

(* ApplyCompletedOrderToFund for the dropped orders that have a history.   *)
Taken(f, o, k, u) ==
  IF o \in Closed(u) \cap Known(history') /\ history'[o].fund = f
  THEN history'[o].amounts[k] ELSE 0

(* HandleTick runs the next posted update: AddToTradeHistory for each fill,*)
(* then SynchroniseOrders.                                                 *)
Integrate ==
  LET u == Head(queue)
  IN  /\ main.op \in {"idle", "tick"}
      /\ queue # <<>>
      /\ history' = Recorded(u.fills)
      /\ orders' = [o \in (Known(orders) \ Closed(u)) \cup u.listed |->
                      IF o \in Known(orders) THEN orders[o] ELSE OrderIdToFund(o)]
      /\ holds' = [f \in Funds |-> SyncedHolds(f, u)]
      /\ record' = Without(record, Closed(u))
      /\ debit' = [f \in Funds |-> [o \in Ids |-> [k \in 1..Units |->
                     debit[f][o][k] + Taken(f, o, k, u)]]]
      /\ queue' = Tail(queue)
      /\ main' = [Idle EXCEPT !.op = "tick"]
      /\ UNCHANGED <<server, inbox, stream, caches, bots, update, last, restarts,
                     owner, missed, settled>>

(* Reports an order only when it is in the history.                        *)
CheckForFilledOrders ==
  LET left == (watched \ Known(orders)) \cap Known(history)
  IN  /\ main.op \in {"idle", "tick"}
      /\ queue = <<>>
      /\ report' = [o \in Ids |-> IF o \in left THEN "completed" ELSE report[o]]
      /\ watched' = watched \ left
      /\ main' = Idle
      /\ UNCHANGED <<server, inbox, stream, caches, books, thread, restarts, owner, missed, settled>>

(* Once nothing is posted the main loop ticks its listeners:               *)
(* CheckForCompletedOrders.                                                *)
CheckForCompletedOrders ==
  LET left == watched \ Known(orders)
  IN  /\ main.op \in {"idle", "tick"}
      /\ queue = <<>>
      /\ report' = [o \in Ids |-> IF o \notin left THEN report[o]
                                  ELSE IF o \in Known(history) THEN "completed" ELSE "cancelled"]
      /\ watched' = watched \ left
      /\ main' = Idle
      /\ UNCHANGED <<server, inbox, stream, caches, books, thread, restarts, owner, missed, settled>>

(* The program ends and starts again: the tables and the settings remain,  *)
(* the collections and the caches are empty.                               *)
Restart ==
  /\ restarts < MaxRestarts
  /\ restarts' = restarts + 1
  /\ main' = Idle /\ update' = NoUpdate /\ last' = NoFills /\ queue' = <<>>
  /\ orders' = <<>> /\ holds' = [f \in Funds |-> {}]
  /\ stream' = "none" /\ mail' = {} /\ half' = {}
  /\ cached' = {} /\ known' = None /\ loaded' = FALSE
  /\ UNCHANGED <<server, record, history, debit, bots, owner, missed, settled>>

Serve == Accept \/ Cancel \/ \E o \in Ids : Fill(o)
Reply == OrderPlaced \/ CreateFails \/ OrderCancelled \/ CancelFails
Handle == \E m \in mail \cup half : HandleOrders(m) \/ HandleHistory(m)
Subscribe == MakeStream \/ OpenStream
Next ==
  \/ Serve \/ Reply \/ Handle \/ Subscribe \/ CloseStream
  \/ \E o \in Ids, f \in Funds : CreateOrder(o, f)
  \/ \E o \in Ids : CancelOrder(o)
  \/ StampRound \/ ReadOrders \/ ReadHistory \/ UpdateFails
  \/ Integrate \/ CheckForCompletedOrders \/ Restart

Spec == Init /\ [][Next]_vars

(* A call to the server ends in an answer or an exception, the making of a *)
(* stream included; rounds are made, and succeed if they are tried again   *)
(* and again; the main loop, every 10 ms, runs what is posted until there  *)
(* is nothing left, which a round made every 100 ms at most does not       *)
(* prevent, and ticks.  Nothing is asked of the pool, nor that a stream    *)
(* opens.                                                                  *)
StreamMade == stream = "making" /\ (OpenStream \/ CloseStream)
FairSpec ==
  /\ Spec
  /\ WF_vars(Reply) /\ WF_vars(StreamMade) /\ WF_vars(StampRound)
  /\ SF_vars(ReadOrders) /\ SF_vars(ReadHistory)
  /\ SF_vars(Integrate) /\ SF_vars(CheckForCompletedOrders)
  /\ []<>(queue = <<>>)

-----------------------------------------------------------------------------
IsMap(fn, S, T) == DOMAIN fn \subseteq S /\ \A x \in DOMAIN fn : fn[x] \in T
Counts == [Ids -> 0..Units]
Amounts == [1..Units -> 0..Units]
Messages == [kind : {"new", "cancelled"}, order : Ids, n : {0}]
              \cup [kind : {"trade"}, order : Ids, n : 1..Units]
Round == [stage : {"idle", "stamped", "listed"}, stamped : SUBSET Ids, listed : SUBSET Ids,
          then : Counts]
Update == [stamped : SUBSET Ids, listed : SUBSET Ids, fills : [Ids -> Amounts]]
Ops == {"idle", "tick", "create", "created", "cancel", "cancelled"}
Call == [op : Ops, id : Ids \cup {Nil}, fund : Funds \cup {Nil}]
AHold == [by : {"create", "sync"}, order : Ids \cup {Nil}, local : BOOLEAN]

TypeOK ==
  /\ named \in BOOLEAN /\ live \subseteq Ids /\ fills \in Counts
  /\ mail \subseteq Messages /\ half \subseteq Messages
  /\ stream \in {"none", "making", "open"}
  /\ cached \subseteq Ids /\ known \in [Ids -> Amounts] /\ loaded \in BOOLEAN
  /\ main \in Call
  /\ IsMap(orders, Ids, Funds) /\ IsMap(record, Ids, Funds)
  /\ IsMap(history, Ids, [fund : Funds, amounts : Amounts])
  /\ holds \in [Funds -> SUBSET AHold]
  /\ debit \in [Funds -> [Ids -> [1..Units -> Nat]]]
  /\ watched \subseteq Ids
  /\ report \in [Ids -> {"none", "completed", "cancelled"}]
  /\ update \in Round /\ last \in Counts /\ queue \in Seq(Update)
  /\ restarts \in 0..MaxRestarts
  /\ owner \in [Ids -> Funds \cup {Nil}] /\ missed \subseteq Ids /\ settled \subseteq Ids

(* "Holds need to exist for the life of the order": an order of Orders has *)
(* exactly one hold, on the fund it belongs to, and every hold that names  *)
(* an order names one of Orders - whatever a creation, a cancellation, a   *)
(* stale update and a restart did in between.                              *)
HoldsMatchOrders ==
  /\ \A o \in Known(orders) : \E h \in holds[orders[o]] : HoldOn(orders[o], o) = {h}
  /\ \A f \in Funds : \A h \in holds[f] :
       IF h.order = Nil THEN main.op \in {"create", "created"} /\ main.fund = f
       ELSE h.order \in Known(orders) /\ orders[h.order] = f

(* A fund other than the remainder is only held, or debited, for orders of *)
(* its own, those the program lost track of included.                      *)
OwnFundOnly ==
  \A f \in Funds \ {Main}, o \in Ids :
    HoldOn(f, o) # {} \/ (\E k \in 1..Units : debit[f][o][k] > 0) => owner[o] = f

(* The cache of an open stream lists an order exactly when it is open, as  *)
(* soon as no message about it is outstanding - however its messages were  *)
(* interleaved with the reads.  Left out are the orders whose messages the *)
(* stream did not get, because something happened to them between the      *)
(* query for the open orders and the opening of the socket, or handled the *)
(* last before the first; and, if a last fill does not name its order, the *)
(* filled ones.                                                            *)
QuietListingIsLive ==
  stream = "open" =>
    \A o \in Ids \ missed :
      About(o) = {} /\ (named \/ fills[o] < Units) => (o \in cached <=> o \in live)

(* An order that was closed when a stream was made is dropped from Orders  *)
(* with its hold, for good: a cache that still lists it went with the old  *)
(* stream, and updates made from it may bring it back, but not for ever.   *)
Gone(o) == o \notin Known(orders) /\ \A f \in Funds : HoldOn(f, o) = {}
GoneForGood == \A o \in Ids : (o \in settled) ~> []Gone(o)

(* A bot that watches an order hears in the end that it is gone, if it was *)
(* closed when a stream was made.                                          *)
ReportedInTheEnd == \A o \in Ids : (o \in settled) ~> (o \notin watched)

(* "If there is a historic trade matching the order id then the order has  *)
(* definitely been filled.  If not, then the order must have been          *)
(* cancelled": what a bot is told to be cancelled is closed and was not    *)
(* filled.                                                                 *)
CancelledMeansCancelled ==
  \A o \in Ids : report[o] = "cancelled" => o \notin live /\ fills[o] < Units

(* "Do orders and history together so there's no chance of a position      *)
(* being filled without it appearing in the history": when a round posts   *)
(* that an order of Orders is not open, and it was filled, then a fill of  *)
(* it is in the history, or posted with this round or an earlier one.      *)
Posted(q, o) == \E i \in 1..Len(q) : \E k \in 1..Units : q[i].fills[o][k] > 0
FilledIsInHistory ==
  [][Len(queue') > Len(queue) =>
       \A o \in (Known(orders) \cap update.stamped) \ update.listed :
         fills[o] = Units => o \in Known(history) \/ Posted(queue', o)]_vars

(* "The amount of currency sold": what is recorded of a fill is what the   *)
(* fill sold, one unit.                                                    *)
FillsAsTraded ==
  \A o \in Known(history) : \A k \in 1..Units : history[o].amounts[k] <= 1

=============================================================================
