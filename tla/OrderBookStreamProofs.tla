------------------------- MODULE OrderBookStreamProofs -------------------------
(***************************************************************************)
(* Proofs about OrderBookStream, for any sides, ranks of price, depth of   *)
(* the snapshot, buffer size and number of changes and streams.            *)
(***************************************************************************)
EXTENDS OrderBookStream, TLAPS

Messages == posted \cup pending

(* What a message says is what the server's book was after its last change.*)
MessagesTrue ==
  \A m \in Messages : m.beg \in 1..m.end /\ m.end \in 1..sent /\ m.book = past[m.end]

(* Levels only ever move on to a newer change: a level that shows change i *)
(* or an older one after change j has not moved between the two.           *)
PastMovesOn ==
  \A i, j \in 1..Now, p \in Levels : i <= j =>
    /\ past[i][p] <= past[j][p]
    /\ past[j][p] <= j
    /\ past[j][p] <= i => past[j][p] = past[i][p]

Phases ==
  /\ applying => seq # 0 /\ phase = "live"
  /\ phase = "live" => seq # 0
  /\ phase \in {"opened", "answered"} => seq = 0 /\ book = Empty
  /\ phase = "answered" => snapshot # 0
  /\ posted # {} => socket
  /\ socket => phase # "none"

BookTrue ==
  seq # 0 => /\ snapshot \in 1..seq
             /\ ~gap => \A p \in Levels : book[p] = past[seq][p] \/ Missing(p)
             /\ \A p \in Levels : book[p] # 0 => \E n \in 1..seq : book[p] = past[n][p]

IInv == TypeOK /\ MessagesTrue /\ PastMovesOn /\ Phases /\ BookTrue

-----------------------------------------------------------------------------
(* What an element of a sequence is after one was appended.                *)
LEMMA AppendElement ==
  ASSUME NEW S, NEW s \in Seq(S), NEW x \in S
  PROVE  /\ Append(s, x) \in Seq(S)
         /\ Len(Append(s, x)) = Len(s) + 1
         /\ Append(s, x)[Len(s) + 1] = x
         /\ \A i \in 1..Len(s) : Append(s, x)[i] = s[i] /\ s[i] \in S
  OBVIOUS

LEMMA PastElement == ASSUME TypeOK, NEW i \in 1..Now PROVE past[i] \in Book
  BY DEF TypeOK, Now

(* Init establishes the invariant.                                         *)
LEMMA InitInvariant == Init => IInv
<1> SUFFICES ASSUME Init PROVE IInv
  OBVIOUS
<1> USE BoundsAssumption, LevelsAssumption
<1>1. PICK q \in Levels : past = <<[Empty EXCEPT ![q] = 1]>>
  BY DEF Init
<1>2. /\ removals = {} /\ sent = 1 /\ phase = "none" /\ socket = FALSE /\ posted = {}
      /\ pending = {} /\ applying = FALSE /\ snapshot = 0
      /\ book = Empty /\ seq = 0
      /\ streams = 0 /\ gap = FALSE /\ overtaken = FALSE
  BY DEF Init
<1>3. PICK b \in Book : past = <<b>> /\ \A p \in Levels : b[p] \in {0, 1}
  <2> DEFINE b == [Empty EXCEPT ![q] = 1]
  <2>1. b \in Book /\ \A p \in Levels : b[p] \in {0, 1}
    BY DEF Book, Empty
  <2> QED  BY <1>1, <2>1
<1>4. Empty \in Book
  BY DEF Empty, Book
<1>5. past \in Seq(Book) /\ Len(past) = 1 /\ past[1] = b
  BY <1>3
<1> HIDE DEF Init
<1>6. TypeOK
  <2>1. Now = 1 /\ removals = {}
    BY <1>2, <1>5 DEF Now
  <2>2. past \in Seq(Book) /\ Now \in 1..MaxChanges /\ sent \in 1..Now /\ removals \subseteq 1..Now
    BY <1>2, <1>5, <2>1
  <2>3. snapshot \in 0..Now /\ seq \in 0..Now /\ streams \in 0..MaxStreams
    BY <1>2, <2>1
  <2>4. posted \subseteq Message /\ pending \subseteq Message
    BY <1>2
  <2> QED  BY <1>2, <1>4, <2>2, <2>3, <2>4 DEF TypeOK
<1>7. MessagesTrue
  BY <1>2 DEF MessagesTrue, Messages
<1>8. PastMovesOn
  BY <1>3, <1>5 DEF PastMovesOn, Now
<1>9. Phases /\ BookTrue
  BY <1>2 DEF Phases, BookTrue
<1> QED  BY <1>6, <1>7, <1>8, <1>9 DEF IInv

-----------------------------------------------------------------------------
(* Steps that leave the server's book alone keep what is said about it.    *)
LEMMA SamePast ==
  ASSUME PastMovesOn, past' = past
  PROVE  PastMovesOn'
  BY DEF PastMovesOn, Now

LEMMA SameBook ==
  ASSUME BookTrue, UNCHANGED <<past, removals, snapshot, book, seq, gap>>
  PROVE  BookTrue'
  BY DEF BookTrue, Missing, InDepth, Offers

LEMMA FewerMessages ==
  ASSUME MessagesTrue, UNCHANGED <<past, sent>>, Messages' \subseteq Messages
  PROVE  MessagesTrue'
  BY DEF MessagesTrue

-----------------------------------------------------------------------------
(* A later removal does not change what a snapshot reached down to.        *)
LEMMA SameDepth ==
  ASSUME NEW b, \A p \in Levels : b[p] \in removals' \cup {0} <=> b[p] \in removals \cup {0}
  PROVE  InDepth(b)' = InDepth(b)
  BY DEF InDepth, Offers

LEMMA ChangeKeeps ==
  ASSUME IInv, NEW q \in Levels, Change(q)
  PROVE  IInv'
<1> USE BoundsAssumption
<1> DEFINE b == [past[Now] EXCEPT ![q] = Now + 1]
<1>1. TypeOK /\ MessagesTrue /\ PastMovesOn /\ Phases /\ BookTrue
  BY DEF IInv
<1>2. /\ past' = Append(past, b) /\ Now < MaxChanges
      /\ removals' \in {removals, removals \cup {Now + 1}}
      /\ UNCHANGED <<sent, phase, socket, posted, pending, applying, snapshot, book, seq, streams, gap, overtaken>>
  BY DEF Change, depth
<1>3. Now \in 1..MaxChanges /\ past \in Seq(Book) /\ Now = Len(past)
  BY <1>1 DEF TypeOK, Now
<1>4. past[Now] \in Book /\ b \in Book
  BY <1>3 DEF Book
<1>5. b[q] = Now + 1 /\ \A p \in Levels : p # q => b[p] = past[Now][p]
  BY <1>3, <1>4 DEF Book
<1> HIDE DEF b
<1>6. /\ past' \in Seq(Book) /\ Now' = Now + 1 /\ past'[Now + 1] = b
      /\ \A i \in 1..Now : past'[i] = past[i] /\ past[i] \in Book
  BY <1>2, <1>3, <1>4, AppendElement DEF Now
<1>7. TypeOK'
  <2>1. removals' \subseteq 1..Now'
    BY <1>1, <1>2, <1>3, <1>6 DEF TypeOK
  <2> QED  BY <1>1, <1>2, <1>3, <1>6, <2>1 DEF TypeOK
<1>8. MessagesTrue'
  <2>1. Messages' = Messages /\ sent' = sent /\ sent \in 1..Now
    BY <1>1, <1>2 DEF Messages, TypeOK
  <2>2. \A m \in Messages : m.end \in 1..sent => m.end \in 1..Now /\ past'[m.end] = past[m.end]
    BY <1>3, <1>6, <2>1
  <2> QED  BY <1>1, <2>1, <2>2 DEF MessagesTrue
<1>9. PastMovesOn'
  <2> SUFFICES ASSUME NEW i \in 1..Now', NEW j \in 1..Now', NEW p \in Levels, i <= j
               PROVE  /\ past'[i][p] <= past'[j][p]
                      /\ past'[j][p] <= j
                      /\ past'[j][p] <= i => past'[j][p] = past'[i][p]
    BY DEF PastMovesOn
  <2>1. \A k \in 1..Now : /\ past[k][p] \in Nat /\ past[k][p] <= past[Now][p] /\ past[k][p] <= k
                          /\ past[Now][p] <= k => past[Now][p] = past[k][p]
    <3> SUFFICES ASSUME NEW k \in 1..Now
                 PROVE  /\ past[k][p] \in Nat /\ past[k][p] <= past[Now][p] /\ past[k][p] <= k
                        /\ past[Now][p] <= k => past[Now][p] = past[k][p]
      OBVIOUS
    <3>1. past[k][p] \in Nat
      BY <1>6 DEF Book
    <3>2. Now \in 1..Now /\ k <= Now /\ k <= k
      BY <1>3
    <3> QED  BY <1>1, <3>1, <3>2 DEF PastMovesOn
  <2>2. CASE j \in 1..Now
    BY <1>1, <1>3, <1>6, <2>2 DEF PastMovesOn
  <2>3. CASE j = Now + 1 /\ p # q
    BY <1>3, <1>5, <1>6, <2>1, <2>3
  <2>4. CASE j = Now + 1 /\ p = q
    BY <1>3, <1>5, <1>6, <2>1, <2>4
  <2> QED  BY <1>3, <1>6, <2>2, <2>3, <2>4
<1>10. Phases'
  BY <1>1, <1>2 DEF Phases
<1>11. BookTrue'
  <2> SUFFICES ASSUME seq # 0 PROVE BookTrue'
    BY <1>2 DEF BookTrue
  <2>1. snapshot \in 1..Now /\ seq \in 1..Now /\ past'[snapshot] = past[snapshot] /\ past'[seq] = past[seq]
    BY <1>1, <1>3, <1>6 DEF BookTrue, TypeOK
  <2>2. InDepth(past[snapshot])' = InDepth(past[snapshot])
    <3>1. PICK c : c = past[snapshot]
      OBVIOUS
    <3>2. c \in Book /\ \A p \in Levels : c[p] <= snapshot
      BY <1>1, <1>6, <2>1, <3>1 DEF PastMovesOn
    <3>3. \A p \in Levels : c[p] # Now + 1
      BY <1>3, <2>1, <3>2 DEF Book
    <3>4. InDepth(c)' = InDepth(c)
      BY <1>2, <3>3, SameDepth
    <3>5. past'[snapshot'] = c
      BY <1>2, <2>1, <3>1
    <3> QED  BY <3>1, <3>4, <3>5 DEF InDepth, Offers
  <2>3. \A p \in Levels : Missing(p) => Missing(p)'
    BY <1>2, <2>1, <2>2 DEF Missing
  <2>4. \A n \in 1..seq : past'[n] = past[n]
    BY <1>3, <1>6, <2>1
  <2> QED  BY <1>1, <1>2, <2>1, <2>3, <2>4 DEF BookTrue
<1> QED  BY <1>7, <1>8, <1>9, <1>10, <1>11 DEF IInv

LEMMA BroadcastKeeps ==
  ASSUME IInv, Broadcast
  PROVE  IInv'
<1>1. TypeOK /\ MessagesTrue /\ PastMovesOn /\ Phases /\ BookTrue
  BY DEF IInv
<1>2. /\ sent < Now /\ sent' = Now
      /\ UNCHANGED <<past, removals, phase, socket, pending, applying, snapshot, book, seq, streams, gap, overtaken>>
      /\ ~socket => posted' = posted
      /\ socket => posted' = posted \cup {[beg |-> sent + 1, end |-> Now, book |-> past[Now]]}
  BY DEF Broadcast, server, depth
<1>3. Now \in 1..MaxChanges /\ past \in Seq(Book) /\ Now' = Now
  BY <1>1, <1>2 DEF TypeOK, Now
<1>4. PastMovesOn'
  BY <1>1, <1>2, SamePast
<1> DEFINE m == [beg |-> sent + 1, end |-> Now, book |-> past[Now]]
<1>5. sent \in 1..Now /\ past[Now] \in Book
  BY <1>1, <1>3 DEF TypeOK, Now
<1>6. m \in Message /\ m.beg \in 1..m.end /\ m.end = Now /\ Now \in 1..Now /\ m.book = past[m.end]
  BY <1>2, <1>3, <1>5 DEF Message
<1>7. posted' \subseteq posted \cup {m}
  BY <1>2
<1> HIDE DEF m
<1>8. TypeOK'
  BY <1>1, <1>2, <1>3, <1>6, <1>7 DEF TypeOK
<1>9. MessagesTrue'
  <2>1. Messages' \subseteq Messages \cup {m} /\ past' = past
    BY <1>2, <1>7 DEF Messages
  <2>2. \A k \in Messages : k.end \in 1..sent => k.end \in 1..sent'
    BY <1>2, <1>3, <1>5
  <2>3. m.end \in 1..sent'
    BY <1>2, <1>6
  <2> QED  BY <1>1, <1>6, <2>1, <2>2, <2>3 DEF MessagesTrue
<1>10. Phases'
  <2>1. posted' # {} => posted # {} \/ socket
    BY <1>2
  <2>2. socket => phase # "none"
    BY <1>1 DEF Phases
  <2> QED  BY <1>1, <1>2, <2>1, <2>2 DEF Phases
<1>11. BookTrue'
  BY <1>1, <1>2, SameBook
<1> QED  BY <1>4, <1>8, <1>9, <1>10, <1>11 DEF IInv

LEMMA AccessKeeps ==
  ASSUME IInv, NEW open \in BOOLEAN, Access(open)
  PROVE  IInv'
<1>1. TypeOK /\ MessagesTrue /\ PastMovesOn /\ Phases /\ BookTrue
  BY DEF IInv
<1>2. /\ streams < MaxStreams /\ streams' = streams + 1
      /\ phase' = "opened" /\ socket' = open
      /\ posted' = {} /\ pending' = {} /\ applying' = FALSE
      /\ book' = Empty /\ seq' = 0 /\ gap' = FALSE /\ overtaken' = FALSE
      /\ UNCHANGED <<past, removals, sent, snapshot>>
  BY DEF Access, server, depth
<1>3. Now \in 1..MaxChanges /\ past \in Seq(Book) /\ Now' = Now
  BY <1>1, <1>2 DEF TypeOK, Now
<1>4. PastMovesOn'
  BY <1>1, <1>2, SamePast
<1>5. Empty \in Book /\ streams' \in 0..MaxStreams
  <2>1. streams \in 0..MaxStreams /\ MaxStreams \in Nat
    BY <1>1, BoundsAssumption DEF TypeOK
  <2> QED  BY <1>2, <2>1 DEF Empty, Book
<1>6. TypeOK'
  <2>1. socket' \in BOOLEAN /\ gap' \in BOOLEAN /\ overtaken' \in BOOLEAN /\ applying' \in BOOLEAN
    BY <1>2
  <2>2. posted' \subseteq Message /\ pending' \subseteq Message /\ seq' \in 0..Now'
    BY <1>2, <1>3
  <2> HIDE DEF Access
  <2> QED  BY <1>1, <1>2, <1>3, <1>5, <2>1, <2>2 DEF TypeOK
<1>7. MessagesTrue'
  BY <1>1, <1>2, FewerMessages DEF Messages
<1>8. Phases'
  BY <1>1, <1>2 DEF Phases, Empty
<1>9. BookTrue'
  BY <1>2 DEF BookTrue
<1> QED  BY <1>4, <1>6, <1>7, <1>8, <1>9 DEF IInv

LEMMA GetOrderBookKeeps ==
  ASSUME IInv, GetOrderBook
  PROVE  IInv'
<1>1. TypeOK /\ MessagesTrue /\ PastMovesOn /\ Phases /\ BookTrue
  BY DEF IInv
<1>2. /\ phase = "opened" /\ phase' = "answered" /\ snapshot' = Now
      /\ UNCHANGED <<past, removals, sent, socket, posted, pending, applying, book, seq, streams, gap, overtaken>>
  BY DEF GetOrderBook, server, depth
<1>3. Now \in 1..MaxChanges /\ past \in Seq(Book) /\ Now' = Now
  BY <1>1, <1>2 DEF TypeOK, Now
<1>4. PastMovesOn'
  BY <1>1, <1>2, SamePast
<1>5. TypeOK'
  BY <1>1, <1>2, <1>3 DEF TypeOK
<1>6. MessagesTrue'
  BY <1>1, <1>2, FewerMessages DEF Messages
<1>7. Phases'
  BY <1>1, <1>2, <1>3 DEF Phases, Empty
<1>8. BookTrue'
  BY <1>1, <1>2 DEF Phases, BookTrue
<1> QED  BY <1>4, <1>5, <1>6, <1>7, <1>8 DEF IInv

LEMMA AssignSnapshotKeeps ==
  ASSUME IInv, AssignSnapshot
  PROVE  IInv'
<1>1. TypeOK /\ MessagesTrue /\ PastMovesOn /\ Phases /\ BookTrue
  BY DEF IInv
<1>2. /\ phase = "answered" /\ phase' = "live"
      /\ book' = Answer(past[snapshot]) /\ seq' = snapshot
      /\ UNCHANGED <<past, removals, sent, socket, posted, pending, applying, snapshot, streams, gap, overtaken>>
  BY DEF AssignSnapshot, server, depth
<1>3. Now \in 1..MaxChanges /\ past \in Seq(Book) /\ Now' = Now
  BY <1>1, <1>2 DEF TypeOK, Now
<1>4. PastMovesOn'
  BY <1>1, <1>2, SamePast
<1>5. snapshot \in 1..Now
  BY <1>1, <1>2, <1>3 DEF TypeOK, Phases
<1>6. past[snapshot] \in Book
  BY <1>3, <1>5 DEF Now
<1>7. /\ book' \in Book
      /\ \A p \in Levels : book'[p] = IF p \in InDepth(past[snapshot]) THEN past[snapshot][p] ELSE 0
  BY <1>2, <1>6 DEF Answer, Book
<1>8. TypeOK'
  BY <1>1, <1>2, <1>3, <1>5, <1>7 DEF TypeOK
<1>9. MessagesTrue'
  BY <1>1, <1>2, FewerMessages DEF Messages
<1>10. Phases'
  BY <1>1, <1>2, <1>5 DEF Phases
<1>11. BookTrue'
  <2>1. InDepth(past[snapshot])' = InDepth(past[snapshot])
    BY <1>2 DEF InDepth, Offers
  <2>2. \A p \in Levels : past[snapshot][p] <= snapshot
    BY <1>1, <1>5 DEF PastMovesOn
  <2>3. \A p \in Levels : book'[p] = past[snapshot][p] \/ Missing(p)'
    BY <1>2, <1>7, <2>1, <2>2 DEF Missing
  <2> QED  BY <1>2, <1>5, <1>7, <2>3 DEF BookTrue
<1> QED  BY <1>4, <1>8, <1>9, <1>10, <1>11 DEF IInv

LEMMA GetOrderBookFailsKeeps ==
  ASSUME IInv, GetOrderBookFails
  PROVE  IInv'
<1>1. TypeOK /\ MessagesTrue /\ PastMovesOn /\ Phases /\ BookTrue
  BY DEF IInv
<1>2. /\ phase \in {"opened", "answered"} /\ phase' = "none"
      /\ socket' = FALSE /\ posted' = {}
      /\ UNCHANGED <<past, removals, sent, pending, applying, snapshot, book, seq, streams, gap, overtaken>>
  BY DEF GetOrderBookFails, server, depth
<1>3. Now \in 1..MaxChanges /\ past \in Seq(Book) /\ Now' = Now
  BY <1>1, <1>2 DEF TypeOK, Now
<1>4. PastMovesOn'
  BY <1>1, <1>2, SamePast
<1>5. TypeOK'
  BY <1>1, <1>2, <1>3 DEF TypeOK
<1>6. MessagesTrue'
  BY <1>1, <1>2, FewerMessages DEF Messages
<1>7. Phases'
  BY <1>1, <1>2 DEF Phases
<1>8. BookTrue'
  BY <1>1, <1>2, SameBook
<1> QED  BY <1>4, <1>5, <1>6, <1>7, <1>8 DEF IInv

LEMMA SocketClosesKeeps ==
  ASSUME IInv, SocketCloses
  PROVE  IInv'
<1>1. TypeOK /\ MessagesTrue /\ PastMovesOn /\ Phases /\ BookTrue
  BY DEF IInv
<1>2. /\ socket' = FALSE /\ posted' = {}
      /\ UNCHANGED <<past, removals, sent, phase, pending, applying, snapshot, book, seq, streams, gap, overtaken>>
  BY DEF SocketCloses, server, depth
<1>3. Now \in 1..MaxChanges /\ past \in Seq(Book) /\ Now' = Now
  BY <1>1, <1>2 DEF TypeOK, Now
<1>4. PastMovesOn'
  BY <1>1, <1>2, SamePast
<1>5. TypeOK'
  BY <1>1, <1>2, <1>3 DEF TypeOK
<1>6. MessagesTrue'
  BY <1>1, <1>2, FewerMessages DEF Messages
<1>7. Phases'
  BY <1>1, <1>2 DEF Phases
<1>8. BookTrue'
  BY <1>1, <1>2, SameBook
<1> QED  BY <1>4, <1>5, <1>6, <1>7, <1>8 DEF IInv

LEMMA ForgetKeeps ==
  ASSUME IInv, Forget
  PROVE  IInv'
<1>1. TypeOK /\ MessagesTrue /\ PastMovesOn /\ Phases /\ BookTrue
  BY DEF IInv
<1>2. /\ phase' = "none" /\ socket' = FALSE /\ posted' = {} /\ applying' = FALSE
      /\ UNCHANGED <<past, removals, sent, pending, snapshot, book, seq, streams, gap, overtaken>>
  BY DEF Forget, server, depth
<1>3. Now \in 1..MaxChanges /\ past \in Seq(Book) /\ Now' = Now
  BY <1>1, <1>2 DEF TypeOK, Now
<1>4. PastMovesOn'
  BY <1>1, <1>2, SamePast
<1>5. TypeOK'
  BY <1>1, <1>2, <1>3 DEF TypeOK
<1>6. MessagesTrue'
  BY <1>1, <1>2, FewerMessages DEF Messages
<1>7. Phases'
  BY <1>1, <1>2 DEF Phases
<1>8. BookTrue'
  BY <1>1, <1>2, SameBook
<1> QED  BY <1>4, <1>5, <1>6, <1>7, <1>8 DEF IInv

LEMMA HandleMessageKeeps ==
  ASSUME IInv, NEW m \in posted, HandleMessage(m)
  PROVE  IInv'
<1>1. TypeOK /\ MessagesTrue /\ PastMovesOn /\ Phases /\ BookTrue
  BY DEF IInv
<1>2. /\ pending' = pending \cup {m} /\ posted' \subseteq posted
      /\ socket' \in {socket, FALSE} /\ (posted' = {} \/ socket' = socket)
      /\ applying' = (seq # 0)
      /\ overtaken' = (overtaken \/ \E k \in posted : k.end < m.end)
      /\ UNCHANGED <<past, removals, sent, phase, snapshot, book, seq, streams, gap>>
  BY DEF HandleMessage, server, depth
<1>3. Now \in 1..MaxChanges /\ past \in Seq(Book) /\ Now' = Now
  BY <1>1, <1>2 DEF TypeOK, Now
<1>4. PastMovesOn'
  BY <1>1, <1>2, SamePast
<1>5. overtaken' \in BOOLEAN /\ applying' \in BOOLEAN /\ socket' \in BOOLEAN
  BY <1>1, <1>2 DEF TypeOK
<1> HIDE DEF HandleMessage
<1>6. posted' \subseteq Message /\ pending' \subseteq Message
  BY <1>1, <1>2 DEF TypeOK
<1>7. phase # "none" /\ socket
  BY <1>1 DEF Phases
<1>8. TypeOK'
  BY <1>1, <1>2, <1>3, <1>5, <1>6 DEF TypeOK
<1>9. MessagesTrue'
  BY <1>1, <1>2, FewerMessages DEF Messages
<1>10. Phases'
  BY <1>1, <1>2, <1>7 DEF Phases, TypeOK
<1>11. BookTrue'
  BY <1>1, <1>2, SameBook
<1> QED  BY <1>4, <1>8, <1>9, <1>10, <1>11 DEF IInv

LEMMA ApplyNextKeeps ==
  ASSUME IInv, NEW m \in pending, ApplyNext(m)
  PROVE  /\ IInv'
         /\ seq' >= seq
         /\ \A p \in Levels : book'[p] >= book[p]
<1>1. TypeOK /\ MessagesTrue /\ PastMovesOn /\ Phases /\ BookTrue
  BY DEF IInv
<1>2. /\ applying /\ pending' = pending \ {m} /\ applying' = (pending' # {})
      /\ UNCHANGED <<past, removals, sent, phase, socket, posted, snapshot, streams, overtaken>>
      /\ m.end <= seq => UNCHANGED <<book, seq, gap>>
      /\ ~(m.end <= seq) =>
           /\ seq' = m.end
           /\ gap' = (gap \/ ~(seq + 1 \in m.beg..m.end))
           /\ book' = [p \in Levels |-> IF p \in Changed(m) THEN m.book[p] ELSE book[p]]
  BY DEF ApplyNext, Taken, Follows, server, depth
<1> HIDE DEF ApplyNext
<1>3. Now \in 1..MaxChanges /\ past \in Seq(Book) /\ Now' = Now
  BY <1>1, <1>2 DEF TypeOK, Now
<1>4. PastMovesOn'
  BY <1>1, <1>2, SamePast
<1>5. MessagesTrue'
  BY <1>1, <1>2, FewerMessages DEF Messages
<1>6. Phases'
  <2>1. seq \in 0..Now /\ seq # 0 /\ phase = "live"
    BY <1>1, <1>2 DEF TypeOK, Phases
  <2>2. seq' # 0
    BY <1>2, <1>3, <2>1, <1>1 DEF MessagesTrue, Messages
  <2> QED  BY <1>1, <1>2, <2>1, <2>2 DEF Phases
<1>7. CASE m.end <= seq
  <2>1. seq \in Int /\ book \in Book /\ applying' \in BOOLEAN
    BY <1>1, <1>2, <1>3 DEF TypeOK
  <2>2. TypeOK'
    BY <1>1, <1>2, <1>3, <1>7, <2>1 DEF TypeOK
  <2>3. BookTrue'
    BY <1>1, <1>2, <1>7, SameBook
  <2>4. seq' >= seq /\ \A p \in Levels : book'[p] >= book[p]
    BY <1>2, <1>7, <2>1 DEF Book
  <2> QED  BY <1>4, <1>5, <1>6, <2>2, <2>3, <2>4 DEF IInv
<1>8. CASE ~(m.end <= seq)
  <2> DEFINE e == m.end
  <2>1. /\ m.beg \in 1..e /\ e \in 1..Now /\ m.book = past[e]
        /\ seq \in 1..Now /\ seq < e
    <3>1. m.beg \in 1..m.end /\ m.end \in 1..sent /\ m.book = past[m.end]
      BY <1>1 DEF MessagesTrue, Messages
    <3>2. sent \in 1..Now /\ seq \in 0..Now /\ seq # 0
      BY <1>1, <1>2 DEF TypeOK, Phases
    <3> QED  BY <1>3, <1>8, <3>1, <3>2
  <2>2. past[e] \in Book /\ past[seq] \in Book /\ book \in Book
    BY <1>1, <1>3, <2>1 DEF Now, TypeOK
  <2>3. /\ book' = [p \in Levels |-> IF past[e][p] >= m.beg THEN past[e][p] ELSE book[p]]
        /\ gap' = (gap \/ ~(seq + 1 \in m.beg..e))
        /\ seq' = e
    BY <1>2, <1>8, <2>1 DEF Changed
  <2> HIDE DEF e
  <2>4. book' \in Book
    BY <2>2, <2>3 DEF Book
  <2>5. TypeOK'
    <3>1. applying' \in BOOLEAN /\ gap' \in BOOLEAN
      BY <1>1, <1>2, <2>3 DEF TypeOK
    <3>2. seq' \in 0..Now'
      BY <1>3, <2>1, <2>3
    <3>3. pending' \subseteq Message
      BY <1>1, <1>2 DEF TypeOK
    <3> QED  BY <1>1, <1>2, <1>3, <2>4, <3>1, <3>2, <3>3 DEF TypeOK
  <2>6. \A p \in Levels : book[p] # 0 => \E n \in 1..seq : book[p] = past[n][p]
    BY <1>1, <2>1 DEF BookTrue
  <2>7. \A p \in Levels : /\ book'[p] # 0 => \E n \in 1..e : book'[p] = past[n][p]
                          /\ book'[p] >= book[p]
    <3> SUFFICES ASSUME NEW p \in Levels
                 PROVE  /\ book'[p] # 0 => \E n \in 1..e : book'[p] = past[n][p]
                        /\ book'[p] >= book[p]
      OBVIOUS
    <3>1. book[p] \in Nat /\ past[e][p] \in Nat /\ (book'[p] = past[e][p] \/ book'[p] = book[p])
      BY <2>2, <2>3 DEF Book
    <3>2. CASE book[p] = 0
      BY <2>1, <3>1, <3>2
    <3>3. CASE book[p] # 0
      <4>1. PICK n \in 1..seq : book[p] = past[n][p]
        BY <2>6, <3>3
      <4>2. n \in 1..e /\ n \in 1..Now /\ n <= e /\ e \in 1..e
        BY <2>1, <1>3
      <4>3. past[n][p] <= past[e][p]
        BY <1>1, <2>1, <4>2 DEF PastMovesOn
      <4> QED  BY <3>1, <4>1, <4>2, <4>3
    <3> QED  BY <3>2, <3>3
  <2>8. ~gap' => \A p \in Levels : book'[p] = past[e][p] \/ Missing(p)'
    <3> SUFFICES ASSUME ~gap', NEW p \in Levels
                 PROVE  book'[p] = past[e][p] \/ Missing(p)'
      OBVIOUS
    <3>1. ~gap /\ m.beg <= seq + 1
      <4>1. gap' = (gap \/ ~(seq + 1 \in m.beg..e))
        BY <2>3
      <4>2. ~gap /\ seq + 1 \in m.beg..e
        BY <4>1
      <4> QED  BY <2>1, <4>2
    <3>2. CASE past[e][p] >= m.beg
      BY <2>3, <3>2
    <3>3. CASE ~(past[e][p] >= m.beg)
      <4>1. past[e][p] \in Nat
        BY <2>2 DEF Book
      <4>2. past[e][p] <= seq
        BY <2>1, <3>1, <3>3, <4>1
      <4>3. seq \in 1..Now /\ e \in 1..Now /\ seq <= e
        BY <2>1, <1>3
      <4>4. past[e][p] = past[seq][p]
        BY <1>1, <4>2, <4>3 DEF PastMovesOn
      <4>5. book[p] = past[seq][p] \/ Missing(p)
        BY <1>1, <2>1, <3>1 DEF BookTrue
      <4>6. book'[p] = book[p] /\ seq' = e
        BY <2>3, <3>3
      <4>7. InDepth(past[snapshot])' = InDepth(past[snapshot]) /\ past' = past /\ snapshot' = snapshot
        BY <1>2 DEF InDepth, Offers
      <4>8. Missing(p) => Missing(p)'
        BY <4>4, <4>6, <4>7 DEF Missing
      <4> QED  BY <4>4, <4>5, <4>6, <4>8
    <3> QED  BY <3>2, <3>3
  <2>9. BookTrue'
    <3>1. snapshot \in 1..seq /\ snapshot' = snapshot /\ past' = past
      BY <1>1, <1>2, <2>1 DEF BookTrue
    <3>2. snapshot' \in 1..seq'
      BY <2>1, <2>3, <3>1
    <3> QED  BY <2>3, <2>7, <2>8, <3>1, <3>2 DEF BookTrue
  <2>10. seq' >= seq
    BY <2>1, <2>3, <1>3
  <2> QED  BY <1>4, <1>5, <1>6, <2>5, <2>7, <2>9, <2>10 DEF IInv
<1> QED  BY <1>7, <1>8

-----------------------------------------------------------------------------
(* Every step keeps the invariant.                                         *)
LEMMA NextKeeps == IInv /\ [Next]_vars => IInv'
<1> SUFFICES ASSUME IInv, [Next]_vars PROVE IInv'
  OBVIOUS
<1>1. CASE UNCHANGED vars
  <2>1. UNCHANGED <<past, removals, sent, phase, socket, posted, pending, applying, snapshot, book, seq, streams, gap, overtaken>>
    BY <1>1 DEF vars, server, depth
  <2>2. Messages' = Messages /\ Now' = Now
    BY <2>1 DEF Messages, Now
  <2>3. TypeOK'
    BY <2>1, <2>2 DEF IInv, TypeOK
  <2>4. MessagesTrue' /\ PastMovesOn' /\ BookTrue'
    BY <2>1, <2>2, SamePast, SameBook, FewerMessages DEF IInv
  <2>5. Phases'
    BY <2>1 DEF IInv, Phases
  <2> QED  BY <2>3, <2>4, <2>5 DEF IInv
<1>2. ASSUME NEW p \in Levels, Change(p) PROVE IInv'
  BY <1>2, ChangeKeeps
<1>3. CASE Broadcast
  BY <1>3, BroadcastKeeps
<1>4. ASSUME NEW open \in BOOLEAN, Access(open) PROVE IInv'
  BY <1>4, AccessKeeps
<1>5. CASE GetOrderBook
  BY <1>5, GetOrderBookKeeps
<1>6. CASE AssignSnapshot
  BY <1>6, AssignSnapshotKeeps
<1>7. CASE GetOrderBookFails
  BY <1>7, GetOrderBookFailsKeeps
<1>8. CASE SocketCloses
  BY <1>8, SocketClosesKeeps
<1>9. CASE Forget
  BY <1>9, ForgetKeeps
<1>10. ASSUME NEW m \in posted, HandleMessage(m) PROVE IInv'
  BY <1>10, HandleMessageKeeps
<1>11. ASSUME NEW m \in pending, ApplyNext(m) PROVE IInv'
  BY <1>11, ApplyNextKeeps
<1> QED  BY <1>1, <1>2, <1>3, <1>4, <1>5, <1>6, <1>7, <1>8, <1>9, <1>10, <1>11 DEF Next

(* The invariant holds of every behaviour.                                 *)
THEOREM Invariance == Spec => []IInv
  BY InitInvariant, NextKeeps, PTL DEF Spec

(* Every variable has its type: the numbers stay within the changes made,  *)
(* the buffered messages are messages.                                     *)
THEOREM TypeCorrect == Spec => []TypeOK
<1>1. IInv => TypeOK
  BY DEF IInv
<1> QED  BY <1>1, Invariance, PTL

(* AssignSnapshot, ApplyUpdate: without a reported gap the mirror is the   *)
(* server's book after change SequenceNo, but for offers beyond the depth  *)
(* of the snapshot.                                                        *)
THEOREM MirrorIsExact == Spec => []BookIsExact
<1>1. IInv => BookIsExact
  BY DEF IInv, Phases, BookTrue, BookIsExact
<1> QED  BY <1>1, Invariance, PTL

(* AssignSnapshot, ApplyUpdate: even after a gap, what the mirror has at a *)
(* level the server's book once had there, up to SequenceNo.               *)
THEOREM MirrorNeverAhead == Spec => []NeverAhead
<1>1. IInv => NeverAhead
  BY DEF IInv, Phases, BookTrue, NeverAhead
<1> QED  BY <1>1, Invariance, PTL

(* ApplyUpdate: SequenceNo and the levels of a stream never go back.       *)
THEOREM MirrorNeverBack == Spec => NeverBack
<1> DEFINE Onward == streams' = streams => seq' >= seq /\ \A p \in Levels : book'[p] >= book[p]
<1>1. IInv /\ [Next]_vars => [Onward]_vars
  <2> SUFFICES ASSUME IInv, Next, streams' = streams
               PROVE  seq' >= seq /\ \A p \in Levels : book'[p] >= book[p]
    OBVIOUS
  <2>1. seq \in Int /\ streams \in Int /\ \A p \in Levels : book[p] \in Int
    BY DEF IInv, TypeOK, Book
  <2>2. ASSUME UNCHANGED depth PROVE seq' >= seq /\ \A p \in Levels : book'[p] >= book[p]
    BY <2>1, <2>2 DEF depth
  <2>3. CASE Broadcast \/ GetOrderBook \/ GetOrderBookFails \/ SocketCloses \/ Forget \/ \E p \in Levels : Change(p)
    BY <2>2, <2>3 DEF Broadcast, GetOrderBook, GetOrderBookFails, SocketCloses, Forget, Change
  <2>4. ASSUME NEW open \in BOOLEAN, Access(open) PROVE FALSE
    BY <2>1, <2>4 DEF Access
  <2>5. CASE AssignSnapshot
    <3>1. /\ phase = "answered" /\ book' = Answer(past[snapshot]) /\ seq' = snapshot
          /\ seq = 0 /\ book = Empty /\ snapshot # 0
      BY <2>5 DEF AssignSnapshot, IInv, Phases
    <3>2. snapshot \in 1..Now /\ past[snapshot] \in Book
      BY <3>1 DEF IInv, TypeOK, Now
    <3> QED  BY <3>1, <3>2 DEF Answer, Book, Empty
  <2>6. ASSUME NEW m \in posted, HandleMessage(m) PROVE UNCHANGED depth
    BY <2>6 DEF HandleMessage
  <2>7. ASSUME NEW m \in pending, ApplyNext(m) PROVE seq' >= seq /\ \A p \in Levels : book'[p] >= book[p]
    BY <2>7, ApplyNextKeeps
  <2> QED  BY <2>2, <2>3, <2>4, <2>5, <2>6, <2>7 DEF Next
<1> QED  BY <1>1, Invariance, PTL DEF Spec, NeverBack

-----------------------------------------------------------------------------
(* Why only a message that overtook an older one leaves a gap.  Base is the*)
(* change the book is at, or will be at when the snapshot on its way has   *)
(* become the book; what was broadcast after it is in a message that is    *)
(* posted or pending, as long as the stream has its socket.                *)
Base == IF phase = "opened" THEN Now ELSE IF phase = "answered" THEN snapshot ELSE seq

Covered(n) == \E k \in Messages : n \in k.beg..k.end

(* Nothing is missing between the book and change e.                       *)
Whole(e) == \A n \in (Base + 1)..e : Covered(n)

(* No change is in two messages.                                           *)
Apart == \A m, k \in Messages : m = k \/ m.end < k.beg \/ k.end < m.beg

(* Until a message overtakes an older one, what is pending is older than   *)
(* what is posted, and nothing is missing between the book and any message.*)
InTurn ==
  ~overtaken =>
    /\ ~gap
    /\ \A m \in pending, k \in posted : m.end < k.beg
    /\ phase # "none" => /\ \A m \in Messages : Whole(m.end)
                         /\ socket => Whole(sent)

LEMMA Numbers ==
  ASSUME IInv
  PROVE  /\ \A m \in Messages : /\ m.beg \in Nat /\ m.end \in Nat
                                /\ m.beg <= m.end /\ m.end <= sent /\ 1 <= m.beg
         /\ sent \in Nat /\ Now \in Nat /\ sent <= Now
         /\ Base \in Nat /\ seq \in Nat /\ snapshot \in Nat /\ snapshot <= Now
<1>1. TypeOK /\ MessagesTrue
  BY DEF IInv
<1>2. sent \in Nat /\ Now \in Nat /\ sent <= Now /\ seq \in Nat /\ snapshot \in Nat /\ snapshot <= Now
  BY <1>1 DEF TypeOK
<1>3. Base \in Nat
  BY <1>2 DEF Base
<1>4. \A m \in Messages : m.beg \in 1..m.end /\ m.end \in 1..sent
  BY <1>1 DEF MessagesTrue
<1> QED  BY <1>2, <1>3, <1>4

LEMMA RangeStep ==
  ASSUME NEW a \in Nat, NEW b \in Nat, a <= b, NEW e \in Nat, NEW n \in (b + 1)..e
  PROVE  n \in (a + 1)..e /\ n \in Nat /\ n > b
  OBVIOUS

LEMMA WholeAt ==
  ASSUME NEW e, Whole(e), NEW n \in (Base + 1)..e
  PROVE  \E k \in Messages : n \in k.beg..k.end
  BY DEF Whole, Covered

(* A step that only moves Base on.                                         *)
LEMMA BaseMovesOn ==
  ASSUME IInv, Apart, InTurn, UNCHANGED <<posted, pending, sent, socket, gap, overtaken>>,
         phase' # "none" => phase # "none" /\ Base' \in Nat /\ Base <= Base'
  PROVE  Apart' /\ InTurn'
<1>1. Messages' = Messages /\ \A n : Covered(n)' = Covered(n)
  BY DEF Messages, Covered
<1>2. Apart'
  BY <1>1 DEF Apart
<1>3. ASSUME phase' # "none", NEW e \in Nat, Whole(e)
      PROVE  Whole(e)'
  <2> SUFFICES ASSUME NEW n \in (Base' + 1)..e PROVE Covered(n)
    BY <1>1 DEF Whole
  <2>1. Base \in Nat
    BY Numbers
  <2>2. n \in (Base + 1)..e
    BY <1>3, <2>1, RangeStep
  <2> QED  BY <1>3, <2>2 DEF Whole
<1>4. \A m \in Messages : m.end \in Nat
  BY Numbers
<1>5. sent \in Nat
  BY Numbers
<1>6. ASSUME ~overtaken, phase' # "none"
      PROVE  (\A m \in Messages : Whole(m.end)') /\ (socket => Whole(sent)')
  <2>1. (\A m \in Messages : Whole(m.end)) /\ (socket => Whole(sent))
    BY <1>6 DEF InTurn
  <2> QED  BY <1>3, <1>4, <1>5, <1>6, <2>1
<1>7. InTurn'
  BY <1>1, <1>6 DEF InTurn
<1> QED  BY <1>2, <1>7

(* The socket goes, and the posted messages with it.                       *)
LEMMA PostedIsLost ==
  ASSUME IInv, Apart, InTurn, UNCHANGED <<pending, gap, overtaken>>,
         posted' = {}, socket' = FALSE,
         phase' # "none" => phase # "none" /\ Base' = Base
  PROVE  Apart' /\ InTurn'
<1>1. Messages' = pending
  BY DEF Messages
<1>2. Apart'
  BY <1>1 DEF Apart, Messages
<1>3. ASSUME ~overtaken, phase' # "none", NEW m \in pending, NEW n \in (Base + 1)..m.end
      PROVE  Covered(n)'
  <2>0. Whole(m.end)
    BY <1>3 DEF InTurn, Messages
  <2>1. PICK k \in Messages : n \in k.beg..k.end
    BY <2>0, WholeAt
  <2>2. k \in posted => m.end < k.beg
    BY <1>3 DEF InTurn
  <2>3. k \notin posted
    <3>1. m.end \in Nat /\ k.beg \in Nat /\ Base \in Nat
      BY <2>1, Numbers DEF Messages
    <3> QED  BY <2>1, <2>2, <3>1
  <2> QED  BY <1>1, <2>1, <2>3 DEF Covered, Messages
<1>4. InTurn'
  BY <1>1, <1>3 DEF InTurn, Whole
<1> QED  BY <1>2, <1>4

LEMMA BroadcastInTurn ==
  ASSUME IInv, Apart, InTurn, Broadcast
  PROVE  Apart' /\ InTurn'
<1>1. /\ sent < Now /\ sent' = Now
      /\ UNCHANGED <<past, removals, phase, socket, pending, applying, snapshot, book, seq, streams, gap, overtaken>>
      /\ ~socket => posted' = posted
      /\ socket => posted' = posted \cup {[beg |-> sent + 1, end |-> Now, book |-> past[Now]]}
  BY DEF Broadcast, depth
<1>2. Base' = Base
  BY <1>1 DEF Base, Now
<1> HIDE DEF Broadcast
<1>3. CASE ~socket
  <2>1. Messages' = Messages /\ posted' = posted
    BY <1>1, <1>3 DEF Messages
  <2>2. \A n : Covered(n)' = Covered(n)
    BY <2>1 DEF Covered
  <2>3. \A e : Whole(e)' = Whole(e)
    BY <1>2, <2>2 DEF Whole
  <2> QED  BY <1>1, <1>3, <2>1, <2>3 DEF Apart, InTurn
<1>4. CASE socket
  <2> DEFINE m == [beg |-> sent + 1, end |-> Now, book |-> past[Now]]
  <2>1. posted' = posted \cup {m} /\ m.beg = sent + 1 /\ m.end = Now
    BY <1>1, <1>4
  <2> HIDE DEF m
  <2>2. Messages' = Messages \cup {m}
    BY <1>1, <2>1 DEF Messages
  <2>3. \A k \in Messages : k.end < m.beg
    BY <2>1, Numbers
  <2>4. Apart'
    BY <2>2, <2>3 DEF Apart
  <2>5. \A n : Covered(n) => Covered(n)'
    BY <2>2 DEF Covered
  <2>6. ASSUME ~overtaken, phase # "none", NEW n \in (Base + 1)..Now
        PROVE  Covered(n)'
    <3>1. CASE n <= sent
      <4>1. Base \in Nat /\ sent \in Nat /\ Now \in Nat
        BY Numbers
      <4>2. n \in (Base + 1)..sent
        BY <3>1, <4>1
      <4>3. Whole(sent)
        BY <1>4, <2>6 DEF InTurn
      <4> QED  BY <2>5, <4>2, <4>3 DEF Whole
    <3>2. CASE ~(n <= sent)
      <4>1. n \in m.beg..m.end
        BY <2>1, <2>6, <3>2, Numbers
      <4> QED  BY <2>2, <4>1 DEF Covered
    <3> QED  BY <3>1, <3>2
  <2>7. \A k \in Messages' : k.end \in Nat /\ k.end <= Now
    BY <1>1, <2>1, <2>2, Numbers
  <2>8. ASSUME ~overtaken, phase # "none", NEW k \in Messages', NEW n \in (Base + 1)..k.end
        PROVE  Covered(n)'
    <3>1. Base \in Nat /\ Now \in Nat /\ k.end \in Nat /\ k.end <= Now
      BY <2>7, <2>8, Numbers
    <3>2. n \in (Base + 1)..Now
      BY <3>1
    <3> QED  BY <2>6, <2>8, <3>2
  <2>9. ASSUME ~overtaken PROVE \A j \in pending, k \in posted' : j.end < k.beg
    BY <2>1, <2>3, <2>9 DEF InTurn, Messages
  <2>10. InTurn'
    BY <1>1, <1>2, <2>6, <2>8, <2>9 DEF InTurn, Whole
  <2> QED  BY <2>4, <2>10
<1> QED  BY <1>3, <1>4

LEMMA AccessInTurn ==
  ASSUME IInv, NEW open \in BOOLEAN, Access(open)
  PROVE  Apart' /\ InTurn'
<1>1. /\ posted' = {} /\ pending' = {} /\ phase' = "opened" /\ gap' = FALSE
      /\ UNCHANGED <<past, sent>>
  BY DEF Access, server
<1>2. Messages' = {} /\ Base' = Now
  BY <1>1 DEF Messages, Base, Now
<1>3. (Base' + 1)..sent' = {}
  BY <1>1, <1>2, Numbers
<1> QED  BY <1>1, <1>2, <1>3 DEF Apart, InTurn, Whole

LEMMA HandleMessageInTurn ==
  ASSUME IInv, Apart, InTurn, NEW m \in posted, HandleMessage(m)
  PROVE  Apart' /\ InTurn'
<1>1. /\ pending' = pending \cup {m}
      /\ (posted' = posted \ {m} /\ socket' = socket) \/ (posted' = {} /\ socket' = FALSE)
      /\ overtaken' = (overtaken \/ \E k \in posted : k.end < m.end)
      /\ UNCHANGED <<past, removals, sent, phase, snapshot, book, seq, streams, gap>>
  BY DEF HandleMessage, server, depth
<1> HIDE DEF HandleMessage
<1>2. Base' = Base
  BY <1>1 DEF Base, Now
<1>3. Messages' \subseteq Messages /\ m \in Messages
  BY <1>1 DEF Messages
<1>4. Apart'
  BY <1>3 DEF Apart
<1>5. ASSUME ~overtaken', NEW j \in pending', NEW k \in posted \ {m}
      PROVE  j.end < k.beg
  <2>1. CASE j \in pending
    BY <1>1, <1>5, <2>1 DEF InTurn
  <2>2. CASE j = m
    <3>1. ~(k.end < m.end) /\ k # m
      BY <1>1, <1>5
    <3>2. m.end < k.beg \/ k.end < m.beg
      BY <1>3, <1>5, <3>1 DEF Apart, Messages
    <3>3. m.beg \in Nat /\ m.end \in Nat /\ k.beg \in Nat /\ k.end \in Nat /\ m.beg <= m.end
      BY Numbers DEF Messages
    <3> QED  BY <2>2, <3>1, <3>2, <3>3
  <2> QED  BY <1>1, <2>1, <2>2
<1>6. ASSUME ~overtaken', phase # "none", NEW j \in Messages', NEW n \in (Base + 1)..j.end
      PROVE  Covered(n)'
  <2>0. Whole(j.end)
    BY <1>1, <1>3, <1>6 DEF InTurn
  <2>1. PICK k \in Messages : n \in k.beg..k.end
    BY <2>0, WholeAt
  <2>2. CASE k \in Messages'
    BY <2>1, <2>2 DEF Covered
  <2>3. CASE k \notin Messages'
    <3>1. k \in posted \ {m} /\ posted' = {} /\ j \in pending'
      BY <1>1, <1>6, <2>1, <2>3 DEF Messages
    <3>2. j.end < k.beg
      BY <1>5, <1>6, <3>1
    <3>3. j.end \in Nat /\ k.beg \in Nat /\ Base \in Nat
      BY <1>3, <2>1, Numbers
    <3> QED  BY <2>1, <3>2, <3>3
  <2> QED  BY <2>2, <2>3
<1>7. ASSUME socket' PROVE Messages' = Messages /\ \A n : Covered(n)' = Covered(n)
  <2>1. posted' = posted \ {m}
    BY <1>1, <1>7
  <2>2. Messages' = Messages
    BY <1>1, <2>1 DEF Messages
  <2> QED  BY <2>2 DEF Covered
<1>8. ASSUME ~overtaken' PROVE \A j \in pending', k \in posted' : j.end < k.beg
  BY <1>1, <1>5, <1>8
<1>9. ASSUME ~overtaken', phase # "none", socket' PROVE \A n \in (Base + 1)..sent : Covered(n)'
  <2>1. Whole(sent)
    BY <1>1, <1>9 DEF InTurn
  <2> QED  BY <1>7, <1>9, <2>1 DEF Whole
<1>10. ASSUME ~overtaken' PROVE ~gap
  BY <1>1, <1>10 DEF InTurn
<1>11. InTurn'
  BY <1>1, <1>2, <1>6, <1>8, <1>9, <1>10 DEF InTurn, Whole
<1> QED  BY <1>4, <1>11

LEMMA ApplyNextInTurn ==
  ASSUME IInv, Apart, InTurn, NEW m \in pending, ApplyNext(m)
  PROVE  Apart' /\ InTurn'
<1>1. /\ applying /\ pending' = pending \ {m}
      /\ \A k \in pending : m.end <= k.end
      /\ UNCHANGED <<past, removals, sent, phase, socket, posted, snapshot, streams, overtaken>>
      /\ m.end <= seq => UNCHANGED <<book, seq, gap>>
      /\ ~(m.end <= seq) => /\ seq' = m.end
                            /\ gap' = (gap \/ ~(seq + 1 \in m.beg..m.end))
  BY DEF ApplyNext, Taken, Oldest, Follows, server, depth
<1> HIDE DEF ApplyNext
<1>2. phase = "live" /\ Base = seq /\ Base' = seq'
  BY <1>1 DEF IInv, Phases, Base
<1>3. Messages' \subseteq Messages /\ m \in Messages /\ Messages \subseteq Messages' \cup {m}
  BY <1>1 DEF Messages
<1>4. Apart'
  BY <1>3 DEF Apart
<1>5. m.end \in Nat /\ m.beg \in Nat /\ m.beg <= m.end /\ seq \in Nat /\ sent \in Nat /\ m.end <= sent
  BY <1>3, Numbers
<1>6. seq' \in Nat /\ seq <= seq' /\ m.end <= seq'
  BY <1>1, <1>5
<1>7. ASSUME NEW n \in Nat, n > seq', Covered(n)
      PROVE  Covered(n)'
  <2>1. PICK k \in Messages : n \in k.beg..k.end
    BY <1>7 DEF Covered
  <2>2. k # m
    BY <1>5, <1>6, <1>7, <2>1
  <2> QED  BY <1>3, <2>1, <2>2 DEF Covered
<1>8. ASSUME NEW e \in Nat, Whole(e)
      PROVE  Whole(e)'
  <2> SUFFICES ASSUME NEW n \in (seq' + 1)..e PROVE Covered(n)'
    BY <1>2 DEF Whole
  <2>1. seq \in Nat
    BY <1>5
  <2>2. n \in (seq + 1)..e /\ n \in Nat /\ n > seq'
    BY <1>6, <2>1, RangeStep
  <2> QED  BY <1>2, <1>7, <1>8, <2>2 DEF Whole
<1>9. \A k \in Messages' : k.end \in Nat
  BY <1>3, Numbers
<1>10. ASSUME ~overtaken PROVE \A k \in Messages' : Whole(k.end)'
  <2>1. \A k \in Messages : Whole(k.end)
    BY <1>2, <1>10 DEF InTurn
  <2> QED  BY <1>3, <1>8, <1>9, <2>1
<1>11. ASSUME ~overtaken, socket PROVE Whole(sent)'
  <2>1. Whole(sent)
    BY <1>2, <1>11 DEF InTurn
  <2> QED  BY <1>1, <1>5, <1>8, <2>1
<1>12. ASSUME ~overtaken PROVE ~gap'
  <2>1. ~gap
    BY <1>12 DEF InTurn
  <2>2. CASE m.end <= seq
    BY <1>1, <2>1, <2>2
  <2>3. CASE ~(m.end <= seq)
    <3>1. seq + 1 \in (Base + 1)..m.end
      BY <1>2, <1>5, <2>3
    <3>0. Whole(m.end)
      BY <1>2, <1>3, <1>12 DEF InTurn
    <3>2. PICK k \in Messages : seq + 1 \in k.beg..k.end
      BY <3>0, <3>1, WholeAt
    <3>3. k.beg \in Nat /\ k.end \in Nat /\ k.beg <= k.end
      BY <3>2, Numbers
    <3>4. k = m
      <4>1. k = m \/ k.end < m.beg \/ m.end < k.beg
        BY <1>3, <3>2 DEF Apart
      <4>2. ~(m.end < k.beg)
        BY <1>5, <2>3, <3>2, <3>3
      <4>3. k \in posted => m.end < k.beg
        BY <1>12 DEF InTurn
      <4>4. k \in pending => ~(k.end < m.beg)
        BY <1>1, <1>5, <3>3
      <4> QED  BY <3>2, <4>1, <4>2, <4>3, <4>4 DEF Messages
    <3>5. gap' = (gap \/ ~(seq + 1 \in m.beg..m.end)) /\ seq + 1 \in m.beg..m.end
      BY <1>1, <2>3, <3>2, <3>4
    <3> QED  BY <2>1, <3>5
  <2> QED  BY <2>2, <2>3
<1>13. ASSUME ~overtaken PROVE \A j \in pending', k \in posted' : j.end < k.beg
  BY <1>1, <1>13 DEF InTurn
<1>14. InTurn'
  BY <1>1, <1>2, <1>10, <1>11, <1>12, <1>13 DEF InTurn
<1> QED  BY <1>4, <1>14

LEMMA NextInTurn == IInv /\ Apart /\ InTurn /\ [Next]_vars => Apart' /\ InTurn'
<1> SUFFICES ASSUME IInv, Apart, InTurn, [Next]_vars PROVE Apart' /\ InTurn'
  OBVIOUS
<1>1. CASE UNCHANGED vars
  <2>1. UNCHANGED <<posted, pending, sent, socket, gap, overtaken, phase>> /\ Base' = Base
    BY <1>1 DEF vars, server, depth, Base, Now
  <2> QED  BY <2>1, BaseMovesOn, Numbers
<1>2. ASSUME NEW p \in Levels, Change(p) PROVE Apart' /\ InTurn'
  <2>1. /\ UNCHANGED <<posted, pending, sent, socket, gap, overtaken, phase, seq, snapshot>>
        /\ past' = Append(past, [past[Now] EXCEPT ![p] = Now + 1])
    BY <1>2 DEF Change, depth
  <2>2. Now' = Now + 1
    BY <2>1 DEF Now, IInv, TypeOK
  <2>3. Base' \in Nat /\ Base <= Base'
    BY <2>1, <2>2, Numbers DEF Base
  <2> QED  BY <2>1, <2>3, BaseMovesOn
<1>3. CASE Broadcast
  BY <1>3, BroadcastInTurn
<1>4. ASSUME NEW open \in BOOLEAN, Access(open) PROVE Apart' /\ InTurn'
  BY <1>4, AccessInTurn
<1>5. CASE GetOrderBook
  <2>1. /\ UNCHANGED <<posted, pending, sent, socket, gap, overtaken>>
        /\ phase = "opened" /\ phase' = "answered" /\ snapshot' = Now
    BY <1>5 DEF GetOrderBook, server
  <2> QED  BY <2>1, BaseMovesOn, Numbers DEF Base
<1>6. CASE AssignSnapshot
  <2>1. /\ UNCHANGED <<posted, pending, sent, socket, gap, overtaken>>
        /\ phase = "answered" /\ phase' = "live" /\ seq' = snapshot
    BY <1>6 DEF AssignSnapshot, server
  <2> QED  BY <2>1, BaseMovesOn, Numbers DEF Base
<1>7. CASE GetOrderBookFails \/ Forget
  <2>1. UNCHANGED <<pending, gap, overtaken>> /\ posted' = {} /\ socket' = FALSE /\ phase' = "none"
    BY <1>7 DEF GetOrderBookFails, Forget
  <2> QED  BY <2>1, PostedIsLost
<1>8. CASE SocketCloses
  <2>1. UNCHANGED <<pending, gap, overtaken, phase>> /\ posted' = {} /\ socket' = FALSE /\ Base' = Base
    BY <1>8 DEF SocketCloses, Base, server, depth, Now
  <2> QED  BY <2>1, PostedIsLost
<1>9. ASSUME NEW m \in posted, HandleMessage(m) PROVE Apart' /\ InTurn'
  BY <1>9, HandleMessageInTurn
<1>10. ASSUME NEW m \in pending, ApplyNext(m) PROVE Apart' /\ InTurn'
  BY <1>10, ApplyNextInTurn
<1> QED  BY <1>1, <1>2, <1>3, <1>4, <1>5, <1>6, <1>7, <1>8, <1>9, <1>10 DEF Next

(* MarketStream: the socket that is opened before the snapshot is asked    *)
(* for, and the buffer, leave no gap: one is only reported after a message *)
(* overtook an older one in the pool.                                      *)
THEOREM NoGapInTurn == Spec => []GapMeansOvertaken
<1>1. Init => Apart /\ InTurn
  BY DEF Init, Apart, InTurn, Messages
<1>2. Apart /\ InTurn => GapMeansOvertaken
  BY DEF InTurn, GapMeansOvertaken
<1> QED  BY <1>1, <1>2, NextInTurn, Invariance, PTL DEF Spec
=============================================================================
