---------------------------- MODULE EvidenceLog ----------------------------
(***************************************************************************)
(* The evidence journal (evidence.rs): reports of agents, which may be     *)
(* repeated, and of recalls; a reader that follows the journal; a reader   *)
(* that walks the episodes, newest first; and spaces that are deleted      *)
(* meanwhile.  The episode that a report names is looked up before the     *)
(* transaction that looks up and inserts the report.                       *)
(***************************************************************************)
EXTENDS Integers, SequencesExt

CONSTANTS
  LogSpaces,
  Reports,       \* [space, source, content, episode] of an agent
  Filing,        \* the episodes there are at first: id |-> its space
  NoSource,      \* a report without a source_event_id
  NoEpisodeId,
  LogPage,       \* the limit of a page
  MaxEvents,     \* bound: events ever written
  MaxEpisodeId   \* bound: ids of episodes

ASSUME LogAssumption ==
  LogPage \in Nat \ {0} /\ MaxEpisodeId \in Nat /\ DOMAIN Filing \subseteq 1 .. MaxEpisodeId

VARIABLES
  journal,       \* the rows, told apart by their ids
  lastEvent,     \* AUTOINCREMENT: the largest id ever given
  filed,         \* the episodes: id |-> its space
  checked,       \* reports whose episode was found
  receipts,      \* <<report, id>>: what was recorded, and as what
  reader,        \* which of the two readers there is
  follower,      \* the reader of the journal: its space, kind, cursor, and the pages it saw
  walker,        \* the reader of the episodes: its boundary, and the pages it saw
  wiped          \* history: the spaces that were deleted

logVars == <<journal, lastEvent, filed, checked, receipts, reader, follower, walker, wiped>>

LogInit ==
  /\ journal = {} /\ lastEvent = 0
  /\ filed = Filing /\ reader \in {"follows", "walks"}
  /\ checked = {} /\ receipts = {} /\ wiped = {}
  /\ follower \in [space : LogSpaces, kind : {"any", "agent"}, after : {0}, seen : {<<>>}]
  /\ walker = [space |-> follower.space, before |-> MaxEpisodeId + 1, seen |-> <<>>,
               standing |-> {}, at |-> "ready"]

Filed(space) == {x \in DOMAIN filed : filed[x] = space}

-----------------------------------------------------------------------------
(* Writing.                                                                *)

(* record_agent_event: a report that names an episode names one of its     *)
(* space.                                                                  *)
CheckReport(r) ==
  /\ reader = "follows"
  /\ r \notin checked
  /\ r.episode = NoEpisodeId \/ r.episode \in Filed(r.space)
  /\ checked' = checked \cup {r}
  /\ UNCHANGED <<journal, lastEvent, filed, receipts, follower, walker, reader, wiped>>

Row(kind, r) ==
  [id |-> lastEvent + 1, kind |-> kind, space |-> r.space, source |-> r.source, content |-> r.content]

Insert(kind, r) ==
  /\ lastEvent < MaxEvents
  /\ journal' = journal \cup {Row(kind, r)}
  /\ lastEvent' = lastEvent + 1
  /\ receipts' = receipts \cup {<<r, lastEvent + 1>>}

SameReport(row, r) == r.source # NoSource /\ row.source = r.source /\ row.space = r.space

(* append_evidence.  A report that was recorded is answered with its id if *)
(* its content is the same, and refused otherwise.                         *)
AppendReport(r) ==
  LET same == {row \in journal : SameReport(row, r)}
  IN  /\ r \in checked
      /\ checked' = checked \ {r}
      /\ \/ same = {} /\ Insert("agent", r)
         \/ /\ same # {}
            /\ receipts' = receipts \cup
                 {<<r, row.id>> : row \in {w \in same : w.content = r.content}}
            /\ UNCHANGED <<journal, lastEvent>>
      /\ UNCHANGED <<filed, follower, walker, reader, wiped>>

(* record_recall_evidence *)
RecordRecall(space) ==
  /\ reader = "follows"
  /\ Insert("recall", [space |-> space, source |-> NoSource, content |-> "recall",
                       episode |-> NoEpisodeId])
  /\ UNCHANGED <<filed, checked, follower, walker, reader, wiped>>

-----------------------------------------------------------------------------
(* Reading: a page is a set of ids, of which the reader is shown each one   *)
(* in the order of the statement.                                          *)

(* ORDER BY id LIMIT n, and ORDER BY id DESC LIMIT n *)
Lowest(n, ids) == {x \in ids : Cardinality({y \in ids : y < x}) < n}
Highest(n, ids) == {x \in ids : Cardinality({y \in ids : y > x}) < n}

(* Seeded fault: the cursor is taken before the page is cut. *)
NextCursorUncut(page, after) ==
  IF page = {} THEN after ELSE Max(page)

(* evidence_events after a cursor: one row more than the limit is read, to *)
(* know whether there is more.                                             *)
NextCursor(page, after) ==
  LET cut == Lowest(LogPage, page)
  IN  IF cut = {} THEN after ELSE Max(cut)

Followed(row) == row.space = follower.space /\ follower.kind \in {"any", row.kind}

Follow ==
  LET rest == {row.id : row \in {w \in journal : Followed(w) /\ w.id > follower.after}}
      page == Lowest(LogPage + 1, rest)
  IN  /\ page # {}
      /\ follower' = [follower EXCEPT !.after = NextCursor(page, @),
                        !.seen = Append(@, Lowest(LogPage, page))]
      /\ UNCHANGED <<journal, lastEvent, filed, checked, receipts, walker, reader, wiped>>

BeginWalk ==
  /\ reader = "walks"
  /\ walker.at = "ready"
  /\ walker' = [walker EXCEPT !.at = "walking", !.standing = Filed(walker.space)]
  /\ UNCHANGED <<journal, lastEvent, filed, checked, receipts, follower, reader, wiped>>

(* source_page: the newest episodes below the boundary, which need not     *)
(* exist any more.                                                         *)
WalkPage ==
  LET below == {x \in Filed(walker.space) : x < walker.before}
      page == Highest(LogPage + 1, below)
      cut == Highest(LogPage, page)
      more == Cardinality(page) > LogPage
  IN  /\ walker.at = "walking"
      /\ walker' = [walker EXCEPT !.seen = Append(@, cut),
                      !.before = IF more THEN Min(cut) ELSE @,
                      !.at = IF more THEN "walking" ELSE "done"]
      /\ UNCHANGED <<journal, lastEvent, filed, checked, receipts, follower, reader, wiped>>

-----------------------------------------------------------------------------
(* The rest of the engine.  An episode's id follows the largest there is.  *)

FileEpisode(space) ==
  LET x == 1 + Max({0} \cup DOMAIN filed)
  IN  /\ reader = "walks"
      /\ x <= MaxEpisodeId
      /\ filed' = [y \in DOMAIN filed \cup {x} |-> IF y = x THEN space ELSE filed[y]]
      /\ UNCHANGED <<journal, lastEvent, checked, receipts, follower, walker, reader, wiped>>

WipeSpace(space) ==
  /\ space \notin wiped
  /\ wiped' = wiped \cup {space}
  /\ journal' = {row \in journal : row.space # space}
  /\ filed' = [x \in DOMAIN filed \ Filed(space) |-> filed[x]]
  /\ walker' = [walker EXCEPT !.standing = IF space = walker.space THEN {} ELSE @]
  /\ UNCHANGED <<lastEvent, checked, receipts, reader, follower>>

LogNext ==
  \/ \E r \in Reports : CheckReport(r)
  \/ \E r \in Reports : AppendReport(r)
  \/ \E s \in LogSpaces : RecordRecall(s)
  \/ Follow
  \/ BeginWalk
  \/ WalkPage
  \/ \E s \in LogSpaces : FileEpisode(s)
  \/ \E s \in LogSpaces : WipeSpace(s)

LogSpec == LogInit /\ [][LogNext]_logVars

-----------------------------------------------------------------------------

Shown(pages) == UNION ToSet(pages)
Ascending(pages) ==
  \A j, k \in DOMAIN pages : j < k => \A x \in pages[j], y \in pages[k] : x < y
Descending(pages) ==
  \A j, k \in DOMAIN pages : j < k => \A x \in pages[j], y \in pages[k] : x > y

(* A report is recorded once, however often and by however many processes  *)
(* it is sent: two receipts of one source in one space name one event with *)
(* one content, unless the space was deleted in between.  A reader that    *)
(* follows the journal page by page is shown every event of its space and  *)
(* kind up to its cursor, in order and once, while events arrive and other *)
(* spaces are deleted (evidence.rs:148, 207); one that walks the episodes  *)
(* is shown each that stands from the first page to the last, and none     *)
(* twice.                                                                  *)
JournalIsReadAsWritten ==
  /\ \A a, b \in receipts :
       /\ a[1].source # NoSource /\ a[1].source = b[1].source /\ a[1].space = b[1].space
       /\ a[1].space \notin wiped
       => a[2] = b[2] /\ a[1].content = b[1].content
  /\ \A a \in receipts : a[1].space \notin wiped =>
       \E row \in journal :
         row.id = a[2] /\ row.space = a[1].space /\ row.content = a[1].content
  /\ Ascending(follower.seen)
  /\ \A row \in journal : Followed(row) /\ row.id <= follower.after =>
       row.id \in Shown(follower.seen)
  /\ Descending(walker.seen)
  /\ walker.at = "done" => walker.standing \subseteq Shown(walker.seen)

=============================================================================
