---------------------------- MODULE OrderBookStream ----------------------------
(***************************************************************************)
(* CoinFlip's mirror of an order book of the Binance exchange.  A          *)
(* MarketStream opens a socket, over which the server broadcasts what      *)
(* changed, and then asks for a snapshot of the best offers of each side;  *)
(* what arrives before the snapshot is buffered.  The socket's thread posts*)
(* each message to the thread pool, so messages are handled in any order,  *)
(* under the lock of the book.  A stream that lost its socket is replaced  *)
(* at the next access.                                                     *)
(*                                                                         *)
(* The server numbers the changes of the book from 1; each puts an offer   *)
(* at one level or takes the one there away.  The content of a level is    *)
(* abstracted to the number of the last change that touched it, 0 if the   *)
(* book never had anything there.                                          *)
(***************************************************************************)
EXTENDS Integers, Sequences, FiniteSets

CONSTANTS
  Sides,         \* the sides of the book
  Ranks,         \* the price levels of a side, from the best to the worst
  Depth,         \* the offers of a side that a snapshot is asked for
  MaxBuffered,   \* MaxBufferedUpdates
  MaxChanges,    \* bound: changes of the book
  MaxStreams     \* bound: streams created

ASSUME LevelsAssumption == Sides # {} /\ Ranks # {} /\ Ranks \subseteq Nat
ASSUME DepthAssumption == Depth \in Nat
ASSUME BoundsAssumption == MaxBuffered \in Nat /\ MaxChanges \in Nat \ {0} /\ MaxStreams \in Nat

VARIABLES
  past,      \* the server: its book after each change
  removals,  \* the server: the changes that took an offer away
  sent,      \* the server: the last change that was broadcast
  phase,     \* the stream: "none", its constructor, or "live": in Streams
  socket,    \* it has a socket
  posted,    \* messages in the thread pool
  pending,   \* m_pending
  applying,  \* a handler is in the loop of ApplyUpdate, with the lock
  snapshot,  \* the number of the snapshot on its way
  book, seq, \* MarketDepth and its SequenceNo
  streams,   \* streams created so far
  gap,       \* history variable: the stream reported a gap
  overtaken  \* history variable: it handled a message before an older one

server == <<past, removals, sent>>
depth == <<book, seq>>
vars == <<server, phase, socket, posted, pending, applying, snapshot, depth, streams, gap, overtaken>>

Levels == Sides \X Ranks
Book == [Levels -> Nat]
Empty == [p \in Levels |-> 0]
Now == Len(past)

Offers(b) == {p \in Levels : b[p] \notin removals \cup {0}}

(* The levels with fewer than Depth better offers on their side, and what  *)
(* the server answers for book b when asked for these only.                *)
InDepth(b) == {p \in Levels : Cardinality({q \in Offers(b) : q[1] = p[1] /\ q[2] < p[2]}) < Depth}
Answer(b) == [p \in Levels |-> IF p \in InDepth(b) THEN b[p] ELSE 0]

(* A broadcast: every level that changed in beg..end, as it is after end.  *)
Message == [beg : Nat, end : Nat, book : Book]
Changed(m) == {p \in Levels : m.book[p] >= m.beg}

Init ==
  /\ \E p \in Levels : past = <<[Empty EXCEPT ![p] = 1]>>
  /\ removals = {} /\ sent = 1
  /\ phase = "none" /\ socket = FALSE /\ posted = {}
  /\ pending = {} /\ applying = FALSE /\ snapshot = 0
  /\ book = Empty /\ seq = 0
  /\ streams = 0 /\ gap = FALSE /\ overtaken = FALSE

-----------------------------------------------------------------------------
(* The server. *)

Change(p) ==
  /\ Now < MaxChanges
  /\ past' = Append(past, [past[Now] EXCEPT ![p] = Now + 1])
  /\ \/ removals' = removals
     \/ p \in Offers(past[Now]) /\ removals' = removals \cup {Now + 1}
  /\ UNCHANGED <<sent, phase, socket, posted, pending, applying, snapshot, depth, streams, gap, overtaken>>

Broadcast ==
  /\ sent < Now
  /\ sent' = Now
  /\ posted' = IF socket THEN posted \cup {[beg |-> sent + 1, end |-> Now, book |-> past[Now]]} ELSE posted
  /\ UNCHANGED <<past, removals, phase, socket, pending, applying, snapshot, depth, streams, gap, overtaken>>

-----------------------------------------------------------------------------
(* this[pair] creates the stream if there is none or it lost its socket:   *)
(* the constructor opens the socket, which may fail at once; ...           *)
Access(open) ==
  /\ phase = "none" \/ (phase = "live" /\ ~socket)
  /\ streams < MaxStreams
  /\ streams' = streams + 1
  /\ phase' = "opened"
  /\ socket' = open
  /\ posted' = {} /\ pending' = {} /\ applying' = FALSE
  /\ book' = Empty /\ seq' = 0
  /\ gap' = FALSE /\ overtaken' = FALSE
  /\ UNCHANGED <<server, snapshot>>

(* ... the server answers with what its book is at some time after this:   *)
(* no snapshot is taken to be older than the opening of the stream; ...    *)
GetOrderBook ==
  /\ phase = "opened"
  /\ snapshot' = Now
  /\ phase' = "answered"
  /\ UNCHANGED <<server, socket, posted, pending, applying, depth, streams, gap, overtaken>>

(* Starts with an empty buffer.                                            *)
AssignAfresh ==
  /\ phase = "answered"
  /\ book' = Answer(past[snapshot]) /\ seq' = snapshot
  /\ phase' = "live"
  /\ pending' = {}
  /\ UNCHANGED <<server, socket, posted, applying, snapshot, streams, gap, overtaken>>

(* ... and the answer becomes the book.                                    *)
AssignSnapshot ==
  /\ phase = "answered"
  /\ book' = Answer(past[snapshot]) /\ seq' = snapshot
  /\ phase' = "live"
  /\ UNCHANGED <<server, socket, posted, pending, applying, snapshot, streams, gap, overtaken>>

(* The request throws: the stream is disposed and taken out of Streams.    *)
GetOrderBookFails ==
  /\ phase \in {"opened", "answered"}
  /\ phase' = "none"
  /\ socket' = FALSE /\ posted' = {}
  /\ UNCHANGED <<server, pending, applying, snapshot, depth, streams, gap, overtaken>>

(* The connection ends: the socket goes, and with it its handlers, so the  *)
(* messages still in the pool reach nobody.  A handler that had begun and  *)
(* waits for the lock may still apply its message; it does so to a book    *)
(* that the next access replaces before it is read.                        *)
SocketCloses ==
  /\ socket
  /\ socket' = FALSE /\ posted' = {}
  /\ UNCHANGED <<server, phase, pending, applying, snapshot, depth, streams, gap, overtaken>>

(* Forget: what the stream does from then on reaches nobody either.        *)
Forget ==
  /\ phase = "live"
  /\ phase' = "none"
  /\ socket' = FALSE /\ posted' = {}
  /\ applying' = FALSE
  /\ UNCHANGED <<server, pending, snapshot, depth, streams, gap, overtaken>>

-----------------------------------------------------------------------------
(* Waits for a second update.                                              *)
HandleInPairs(m) ==
  /\ m \in posted /\ ~applying
  /\ pending' = pending \cup {m}
  /\ overtaken' = (overtaken \/ \E k \in posted : k.end < m.end)
  /\ IF seq = 0 /\ Cardinality(pending') >= MaxBuffered
     THEN socket' = FALSE /\ posted' = {}
     ELSE socket' = socket /\ posted' = posted \ {m}
  /\ applying' = (seq # 0 /\ pending # {})
  /\ UNCHANGED <<server, phase, snapshot, depth, streams, gap>>

(* ApplyUpdate, up to its loop: before the snapshot the update is buffered,*)
(* and too many of them end the stream.                                    *)
HandleMessage(m) ==
  /\ m \in posted /\ ~applying
  /\ pending' = pending \cup {m}
  /\ overtaken' = (overtaken \/ \E k \in posted : k.end < m.end)
  /\ IF seq = 0 /\ Cardinality(pending') >= MaxBuffered
     THEN socket' = FALSE /\ posted' = {}
     ELSE socket' = socket /\ posted' = posted \ {m}
  /\ applying' = (seq # 0)
  /\ UNCHANGED <<server, phase, snapshot, depth, streams, gap>>

Follows(m, ok) ==
  /\ gap' = (gap \/ ~ok)
  /\ book' = [p \in Levels |-> IF p \in Changed(m) THEN m.book[p] ELSE book[p]]

Taken(m) ==
  /\ applying
  /\ m \in pending
  /\ pending' = pending \ {m}
  /\ applying' = (pending' # {})
  /\ UNCHANGED <<server, phase, socket, posted, snapshot, streams, overtaken>>

Oldest(m) == \A k \in pending : m.end <= k.end

(* Lets one missing change pass.                                           *)
ApplyLoosely(m) ==
  /\ Taken(m) /\ Oldest(m)
  /\ IF m.end <= seq
     THEN UNCHANGED <<depth, gap>>
     ELSE Follows(m, m.beg <= seq + 2) /\ seq' = m.end

(* Counts from the beginning of an update.                                 *)
ApplyFromBeg(m) ==
  /\ Taken(m) /\ Oldest(m)
  /\ IF m.end <= seq
     THEN UNCHANGED <<depth, gap>>
     ELSE Follows(m, seq + 1 \in m.beg..m.end) /\ seq' = m.beg

(* Applies what is from before the book, too.                              *)
ApplyOld(m) ==
  /\ Taken(m) /\ Oldest(m)
  /\ Follows(m, seq + 1 \in m.beg..m.end)
  /\ seq' = m.end

(* One round of the loop, over the updates sorted by their end: an update  *)
(* from before the book is skipped; one that does not follow it is         *)
(* reported, and applied.                                                  *)
ApplyNext(m) ==
  /\ Taken(m) /\ Oldest(m)
  /\ IF m.end <= seq
     THEN UNCHANGED <<depth, gap>>
     ELSE Follows(m, seq + 1 \in m.beg..m.end) /\ seq' = m.end

Next ==
  \/ \E p \in Levels : Change(p)
  \/ Broadcast
  \/ \E open \in BOOLEAN : Access(open)
  \/ GetOrderBook \/ AssignSnapshot \/ GetOrderBookFails
  \/ SocketCloses \/ Forget
  \/ \E m \in posted : HandleMessage(m)
  \/ \E m \in pending : ApplyNext(m)

Spec == Init /\ [][Next]_vars

(* The pool runs what is posted to it, and a handler ends.                 *)
FairSpec ==
  /\ Spec
  /\ WF_vars(\E m \in posted : HandleMessage(m))
  /\ WF_vars(\E m \in pending : ApplyNext(m))

-----------------------------------------------------------------------------
TypeOK ==
  /\ past \in Seq(Book) /\ Now \in 1..MaxChanges /\ removals \subseteq 1..Now
  /\ sent \in 1..Now
  /\ phase \in {"none", "opened", "answered", "live"}
  /\ socket \in BOOLEAN /\ applying \in BOOLEAN
  /\ posted \subseteq Message /\ pending \subseteq Message
  /\ snapshot \in 0..Now
  /\ book \in Book /\ seq \in 0..Now
  /\ streams \in 0..MaxStreams
  /\ gap \in BOOLEAN /\ overtaken \in BOOLEAN

(* As long as no gap was reported the mirror is the server's book as it was*)
(* after change SequenceNo, whatever was buffered, posted late or handled  *)
(* in another order.  What it misses has not changed since the snapshot,   *)
(* and lies beyond the Depth best offers that the side had in it.          *)
Missing(p) == book[p] = 0 /\ p \notin InDepth(past[snapshot]) /\ past[seq][p] <= snapshot
BookIsExact ==
  phase = "live" /\ ~gap => \A p \in Levels : book[p] = past[seq][p] \/ Missing(p)

(* A gap is only reported if a message overtook an older one in the pool:  *)
(* the socket that is opened before the snapshot is asked for, and the     *)
(* buffer, leave none.                                                     *)
GapMeansOvertaken == gap => overtaken

(* Even after a gap what the mirror has at a level is what the server's    *)
(* book had there, and not newer than SequenceNo says.                     *)
NeverAhead ==
  phase = "live" => \A p \in Levels : book[p] # 0 => \E n \in 1..seq : book[p] = past[n][p]

(* Neither SequenceNo nor a level of a stream ever goes back.              *)
NeverBack ==
  [][streams' = streams => seq' >= seq /\ \A p \in Levels : book'[p] >= book[p]]_vars

(* What reaches a live stream is in its book in the end, or the stream is  *)
(* replaced.                                                               *)
EndsInBook ==
  \A n \in 1..MaxChanges :
    (phase = "live" /\ socket /\ \E m \in posted : m.end = n) ~> (seq >= n \/ phase # "live" \/ ~socket)

=============================================================================
