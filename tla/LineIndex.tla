------------------------------- MODULE LineIndex -------------------------------
(***************************************************************************)
(* The line index of the log viewer: the byte ranges of the lines of a log *)
(* file around a position.  The UI thread asks for builds, by a reload     *)
(* when the file watcher or the user says so, and incrementally when the   *)
(* tail timer sees that the file grew.  A build runs on the thread pool    *)
(* and posts its lines back to the UI thread, which merges them unless a   *)
(* later build was started meanwhile.                                      *)
(*                                                                         *)
(* Every line of the file is LineWidth bytes long, with its line end of    *)
(* one byte; what the file may end with is a part of a line.  The file     *)
(* only grows, it fits in the buffer of a scan and no filter is set.       *)
(***************************************************************************)
EXTENDS Integers, Sequences, FiniteSets, SequencesExt

CONSTANTS
  LineWidth,   \* bytes of a line
  CacheCount,  \* m_line_cache_count
  FileSizes,   \* bound: the lengths the file may have
  MaxBuilds    \* bound: builds

ASSUME LineWidthAssumption == LineWidth \in Nat /\ LineWidth >= 2
ASSUME CacheCountAssumption == CacheCount \in Nat /\ CacheCount >= 3
ASSUME BoundsAssumption == FileSizes \subseteq Nat /\ MaxBuilds \in Nat \ {0}

VARIABLES
  size,       \* the file: its length
  settings,   \* TailEnabled, WatchEnabled
  changed,    \* the file watcher has posted HandleFileChanged
  known,      \* m_last_known_file_length
  issue,      \* m_issue
  reloading,  \* m_reload_in_progress
  index,      \* m_line_index
  fileend,    \* m_state.m_fileend
  workers,    \* the builds in the thread pool
  posted,     \* the dispatcher's queue of what they posted
  astray,     \* history variable: an index was merged from too far from the end
  lost        \* history variable: the last word on the file led to no build

file == <<size, settings, changed, known>>
indexVars == <<file, issue, reloading, index, fileend, workers, posted, astray, lost>>

-----------------------------------------------------------------------------
(* Ranges and lines. *)

Zero == [beg |-> 0, end |-> 0]
IsEmpty(r) == r.beg = r.end
Least(a, b) == IF a < b THEN a ELSE b
Most(a, b) == IF a < b THEN b ELSE a
Clamp(x, lo, hi) == Most(lo, Least(hi, x))

FirstOf(s, n) == SubSeq(s, 1, Least(n, Len(s)))
LastOf(s, n) == SubSeq(s, Most(1, Len(s) - n + 1), Len(s))

FindLineStart(pos) == (pos \div LineWidth) * LineWidth

(* Takes the last line for a whole one.                                    *)
WholeLinesIn(beg, end) ==
  LET k == beg \div LineWidth
  IN [i \in 1..(IF beg < end THEN (end - 1) \div LineWidth - k + 1 ELSE 0) |->
        [beg |-> Most(beg, (k + i - 1) * LineWidth), end |-> (k + i) * LineWidth - 1]]

(* The lines between two positions, the last of them maybe a part.         *)
LinesIn(beg, end) ==
  LET k == beg \div LineWidth
  IN [i \in 1..(IF beg < end THEN (end - 1) \div LineWidth - k + 1 ELSE 0) |->
        [beg |-> Most(beg, (k + i - 1) * LineWidth),
         end |-> Least((k + i) * LineWidth - 1, end)]]

GetRange(s) == IF s = <<>> THEN Zero ELSE [beg |-> Head(s).beg, end |-> Last(s).end]

LineStartRange ==
  IF index = <<>> THEN Zero ELSE [beg |-> Head(index).beg, end |-> Last(index).beg]

FindIndex(pos) ==
  IF index = <<>> THEN 0
  ELSE IF pos >= Last(index).end THEN Len(index)
  ELSE Cardinality({i \in DOMAIN index : index[i].beg <= pos}) - 1

BwdLines == Most(1, CacheCount \div 2)
FwdLines == Most(2, CacheCount - BwdLines)

-----------------------------------------------------------------------------
(* The scan of a build.  The first direction that fills up ends it.        *)
ScanForLines(pos, scan, bwdFirst, bwd, fwd) ==
  LET from   == Clamp(pos, scan.beg, scan.end)
      ahead  == LinesIn(from, scan.end)
      behind == LinesIn(scan.beg, from)
      limit  == IF bwdFirst THEN bwd ELSE fwd
      first  == IF bwdFirst THEN LastOf(behind, limit) ELSE FirstOf(ahead, limit)
      rest   == IF Len(first) = limit /\ limit > 0 THEN 0 ELSE bwd + fwd - Len(first)
  IN IF bwdFirst THEN first \o FirstOf(ahead, rest) ELSE LastOf(behind, rest) \o first

(* An incremental scan extends the index on one side, ...                  *)
ScanIncrement(w, pos, end) ==
  LET left  == [beg |-> 0, end |-> w.lines.beg]
      right == [beg |-> w.lines.end, end |-> end]
      side  == CASE ~IsEmpty(left) /\ ~IsEmpty(right) -> 2 * w.centre - CacheCount
                 [] ~IsEmpty(left) /\ IsEmpty(right) -> -1
                 [] IsEmpty(left) /\ ~IsEmpty(right) -> 1
                 [] OTHER -> 0
  IN CASE side < 0 -> ScanForLines(pos, left, TRUE, BwdLines - Clamp(w.centre, 0, BwdLines), 0)
       [] side > 0 -> ScanForLines(pos, right, FALSE, 0, FwdLines - Clamp(w.count - w.centre - 1, 0, FwdLines))
       [] OTHER -> <<>>

(* ... any other one reads the file around the position of the build.      *)
BuildAsync(w, end) ==
  LET pos == FindLineStart(Clamp(w.filepos, 0, end))
  IN IF w.reload \/ IsEmpty(w.lines)
     THEN ScanForLines(pos, [beg |-> 0, end |-> end], end - pos > pos, BwdLines, FwdLines)
     ELSE ScanIncrement(w, pos, end)

-----------------------------------------------------------------------------
(* Build.                                                                  *)

(* Refuses another reload, too.                                            *)
RefusedWhileReloading(reload) == reloading

(* An incremental build cannot interrupt a reload.                         *)
Refused(reload) == reloading /\ ~reload

(* Cancels the build before it.  The program sets no limit to the builds:  *)
(* MaxBuilds only bounds a run, and no property holds because of it.       *)
Start(pos, reload) ==
  /\ issue < MaxBuilds
  /\ issue' = issue + 1
  /\ reloading' = reload
  /\ workers' = workers \cup
       {[issue |-> issue', reload |-> reload, filepos |-> pos, lines |-> LineStartRange,
         centre |-> FindIndex(pos), count |-> Len(index)]}
  /\ lost' = FALSE

Build(pos, reload) ==
  /\ IF Refused(reload)
     THEN lost' = (lost \/ ~reload) /\ UNCHANGED <<issue, reloading, workers>>
     ELSE Start(pos, reload)
  /\ UNCHANGED <<index, fileend, posted, astray>>

Settings == [tail : BOOLEAN, watch : BOOLEAN]

(* The log is opened, at its start or its end.                             *)
IndexInit ==
  /\ size \in FileSizes
  /\ settings \in Settings
  /\ changed = FALSE /\ known = size
  /\ issue = 1 /\ reloading = TRUE
  /\ index = <<>> /\ fileend = 0
  /\ \E pos \in {0, size} :
       workers = {[issue |-> 1, reload |-> TRUE, filepos |-> pos, lines |-> Zero, centre |-> 0, count |-> 0]}
  /\ posted = <<>> /\ astray = FALSE /\ lost = FALSE

-----------------------------------------------------------------------------
(* Another program writes to the log; the file watcher notices.            *)
Grow(n) ==
  /\ n > size
  /\ size' = n
  /\ changed' = settings.watch
  /\ UNCHANGED <<settings, known, issue, reloading, index, fileend, workers, posted, astray, lost>>

HandleTailTimerTick ==
  /\ settings.tail
  /\ size # known
  /\ known' = size
  /\ Build(size, FALSE)
  /\ UNCHANGED <<size, settings, changed>>

(* The file may be locked: the event is ignored.                           *)
HandleFileChanged(locked) ==
  /\ changed /\ changed' = FALSE
  /\ IF locked
     THEN lost' = TRUE /\ UNCHANGED <<known, issue, reloading, index, fileend, workers, posted, astray>>
     ELSE known' = size /\ Build(fileend, TRUE)
  /\ UNCHANGED <<size, settings>>

(* The filters or the highlights changed.                                  *)
RebuildIndex ==
  /\ Build(fileend, TRUE)
  /\ UNCHANGED file

-----------------------------------------------------------------------------
(* The thread pool: BuildWorker.  It posts its lines, and then its end; a  *)
(* step of the UI thread between the two is one between their turns in the *)
(* queue.                                                                  *)

LinesOf(w) ==
  [merge |-> TRUE, issue |-> w.issue, reload |-> w.reload, filepos |-> w.filepos, fileend |-> size,
   lines |-> IF w.issue = issue THEN BuildAsync(w, size) ELSE <<>>]

EndOf(w) == [merge |-> FALSE, issue |-> w.issue, reload |-> w.reload]

ScanFile(w) ==
  /\ workers' = workers \ {w}
  /\ posted' = posted \o <<LinesOf(w), EndOf(w)>>
  /\ UNCHANGED <<file, issue, reloading, index, fileend, astray, lost>>

(* Says nothing of an exception.                                           *)
ScanFailsSilently(w) ==
  /\ workers' = workers \ {w}
  /\ posted' = posted
  /\ lost' = (lost \/ w.issue = issue)
  /\ UNCHANGED <<file, issue, reloading, index, fileend, astray>>

(* An exception: nothing is merged.                                        *)
ScanFails(w) ==
  /\ workers' = workers \ {w}
  /\ posted' = Append(posted, EndOf(w))
  /\ lost' = (lost \/ w.issue = issue)
  /\ UNCHANGED <<file, issue, reloading, index, fileend, astray>>

-----------------------------------------------------------------------------
(* The UI thread runs what was posted.                                     *)

(* Puts the lines at the right end and leaves the old ones as they are.    *)
MergedOverlapping(d) ==
  LET new == GetRange(d.lines)
      old == GetRange(index)
  IN CASE d.reload -> d.lines
       [] ~d.reload /\ new.beg < old.beg /\ new.end <= old.end -> FirstOf(d.lines \o index, CacheCount)
       [] ~d.reload /\ new.beg >= old.beg /\ new.end > old.end -> LastOf(index \o d.lines, CacheCount)
       [] OTHER -> index

(* Lines are taken off the index from the side of the new ones as long as  *)
(* they overlap.                                                           *)
Merged(d) ==
  LET new == GetRange(d.lines)
      old == GetRange(index)
      n   == Len(index)
      off == CHOOSE t \in 0..n : /\ \A i \in 1..t : index[i].beg < new.end
                                 /\ t < n => index[t + 1].beg >= new.end
      on  == CHOOSE t \in 0..n : /\ \A i \in (t + 1)..n : index[i].end > new.beg
                                 /\ t > 0 => index[t].end <= new.beg
  IN CASE d.reload -> d.lines
       [] ~d.reload /\ new.beg < old.beg /\ new.end <= old.end ->
            FirstOf(d.lines \o SubSeq(index, off + 1, n), CacheCount)
       [] ~d.reload /\ new.beg >= old.beg /\ new.end > old.end ->
            LastOf(SubSeq(index, 1, on) \o d.lines, CacheCount)
       [] OTHER -> index

(* From its position, or from the end it knew, the build had less than     *)
(* half the cache to the end of the file.                                  *)
Near(d) ==
  Len(LinesIn(FindLineStart(IF d.reload THEN d.filepos ELSE fileend), d.fileend)) < FwdLines

MergeAny ==
  /\ posted # <<>> /\ Head(posted).merge
  /\ LET d == Head(posted)
     IN index' = Merged(d) /\ fileend' = d.fileend /\ astray' = (~Near(d) \/ (astray /\ ~d.reload))
  /\ posted' = Tail(posted)
  /\ UNCHANGED <<file, issue, reloading, workers, lost>>

MergeResults ==
  /\ posted # <<>> /\ Head(posted).merge
  /\ LET d == Head(posted)
     IN IF d.issue = issue
        THEN index' = Merged(d) /\ fileend' = d.fileend /\ astray' = (~Near(d) \/ (astray /\ ~d.reload))
        ELSE UNCHANGED <<index, fileend, astray>>
  /\ posted' = Tail(posted)
  /\ UNCHANGED <<file, issue, reloading, workers, lost>>

(* A cancelled build clears the flag, too.                                 *)
BuildDoneAny ==
  /\ posted # <<>> /\ ~Head(posted).merge
  /\ reloading' = FALSE
  /\ posted' = Tail(posted)
  /\ UNCHANGED <<file, issue, index, fileend, workers, astray, lost>>

BuildDone ==
  /\ posted # <<>> /\ ~Head(posted).merge
  /\ reloading' = (reloading /\ Head(posted).issue # issue)
  /\ posted' = Tail(posted)
  /\ UNCHANGED <<file, issue, index, fileend, workers, astray, lost>>

IndexNext ==
  \/ \E n \in FileSizes : Grow(n)
  \/ HandleTailTimerTick
  \/ \E locked \in BOOLEAN : HandleFileChanged(locked)
  \/ RebuildIndex
  \/ \E w \in workers : ScanFile(w) \/ ScanFails(w)
  \/ MergeResults \/ BuildDone

IndexSpec == IndexInit /\ [][IndexNext]_indexVars

(* The pool runs its work items and the dispatcher its queue.              *)
IndexFairSpec ==
  /\ IndexSpec
  /\ WF_indexVars(\E w \in workers : ScanFile(w) \/ ScanFails(w))
  /\ WF_indexVars(MergeResults \/ BuildDone)

-----------------------------------------------------------------------------
ByteRange == [beg : 0..size, end : 0..size]

ControlOK ==
  /\ size \in FileSizes /\ known \in 0..size
  /\ settings \in Settings
  /\ changed \in BOOLEAN /\ reloading \in BOOLEAN /\ lost \in BOOLEAN
  /\ issue \in 1..MaxBuilds
  /\ \A w \in workers : w.issue \in 1..issue /\ w.reload \in BOOLEAN
  /\ \A i \in DOMAIN posted :
       posted[i].issue \in 1..issue /\ posted[i].reload \in BOOLEAN /\ posted[i].merge \in BOOLEAN

IndexTypeOK ==
  /\ ControlOK
  /\ fileend \in 0..size
  /\ astray \in BOOLEAN
  /\ index \in Seq(ByteRange)
  /\ \A w \in workers : w.filepos \in 0..size /\ w.lines \in ByteRange

(* The index never holds more lines than the cache, and they are in order, *)
(* do not overlap and lie in the part of the file it knows, whatever the   *)
(* builds that were merged had been asked for.                             *)
Ordered ==
  /\ Len(index) <= CacheCount
  /\ \A i, j \in DOMAIN index : i < j => index[i].end <= index[j].beg
  /\ \A i \in DOMAIN index : index[i].end <= fileend

(* As long as the file grows by less than half the cache between builds,   *)
(* incremental builds never leave a hole or a part of a line behind: the   *)
(* index is a run of whole lines up to the end of the file it knows, from  *)
(* the first one on or as many as the cache holds.                         *)
ShowsTheEnd ==
  ~astray =>
    /\ (index = <<>>) = (fileend = 0)
    /\ index # <<>> =>
         /\ index = LinesIn(Head(index).beg, fileend)
         /\ Head(index).beg = 0 \/ Len(index) = CacheCount

(* Incremental builds are refused as long as a reload is under way and no  *)
(* longer: the flag is up exactly while the latest build is a reload that  *)
(* has not reported its end, also when builds cancel each other or throw.  *)
FlagMeansReload ==
  reloading = \/ \E w \in workers : w.issue = issue /\ w.reload
              \/ \E i \in DOMAIN posted : posted[i].issue = issue /\ ~posted[i].merge /\ posted[i].reload

(* With the tail timer or the file watcher on, once they have nothing more *)
(* to report the index knows the whole file, unless the last report was    *)
(* refused because of a reload, or its build or the look at the file       *)
(* failed.  With both off nobody tells the viewer that the file grew.      *)
QuietKnowsAll ==
  /\ settings.tail \/ settings.watch
  /\ workers = {} /\ posted = <<>>
  /\ ~changed /\ (settings.tail => known = size)
  /\ ~lost
  => fileend = size

(* A reload comes to its end, and with it the refusal of the tail, also    *)
(* when it throws, unless a later build cancels it.  More is not so: each  *)
(* change of the file or of the filters starts a reload that cancels the   *)
(* one before, and on a busy log the flag need never come down.            *)
ReloadEnds ==
  \A n \in 1..MaxBuilds : (reloading /\ issue = n) ~> (~reloading \/ issue > n)

-----------------------------------------------------------------------------
(* What the proofs need besides. *)

(* A build is in the pool or has posted its end, and it has an issue of    *)
(* its own.                                                                *)
OneEach ==
  /\ \A v, w \in workers : v.issue = w.issue => v = w
  /\ \A w \in workers, i \in DOMAIN posted : posted[i].issue # w.issue
  /\ \A i, j \in DOMAIN posted :
       /\ posted[i].issue = posted[j].issue /\ ~posted[i].merge /\ ~posted[j].merge
       => i = j

(* Once the latest build has left the pool, what it posted says how long   *)
(* the file is, or has been merged.                                        *)
Upto(i) == posted[i].merge /\ posted[i].issue = issue

LatestKnows ==
  /\ settings.tail \/ settings.watch
  /\ ~lost /\ ~changed /\ (settings.tail => known = size)
  /\ \A w \in workers : w.issue # issue
  => /\ \A i \in DOMAIN posted : Upto(i) => posted[i].fileend = size
     /\ (\A i \in DOMAIN posted : ~Upto(i)) => fileend = size
=============================================================================
