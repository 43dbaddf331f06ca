# ProjectScone, specified

TLA+ models of ProjectScone (Rust): a local memory engine that stores what it is
given as *episodes*, indexes them for recall, and distils them into a *ledger of
dated facts*. The modules here are translated from the code under `src/`; TLC
checks them on small instances, and TLAPS proves most of their safety properties
for every value of the constants: of the ledger, the derived indexes, space
deletion, the distillation queue, recall, fact links, sync, import, the HTTP
server, migrations and the evidence journal.

Paths below are relative to `src/crates/`.

## Running it

    tlc -workers 2 -config MCFactLedger_arrival.cfg MCFactLedger
    for m in FactLedger IndexStore SpaceErasure DistillLane \
             Recall FactLinks Transfer Periphery
    do tlapm ${m}Proofs.tla; done

`PROJECT.json` lists every run with its configuration, what each definition was
translated from, the hazards the properties are aimed at, and the theorems.

## 1. The system

One SQLite file is the truth. Two derived indexes (tantivy for text, usearch for
vectors) sit beside it and can be rebuilt from it. The engine is a synchronous
library (`scone-core`); the command line, the HTTP server, the MCP server, the
hooks and the C ABI call it. Within one process it is used from one thread (the
HTTP server holds it behind a mutex). Several *processes* share a store: a
daemon, an editor's MCP server, a hook, a person at a terminal. That is where the
concurrency is.

| Component | State | Operations | Talks to | What is hard | What makes it correct |
|---|---|---|---|---|---|
| Fact ledger (`distill.rs`, `recall.rs` 857-937) | `facts`, `fact_provenance`, `entities`, `entity_aliases`, `spaces.revision` | `apply_facts`, approve, decline, close, exclude, include, decay, alias, the reinforcement after a recall | queue (calls `apply_facts`), recall (reads), HTTP and MCP (review) | documents arrive in any order; proposals are approved late; reads and their reinforcement are apart | one active fact per topic; no duplicate rows; superseding is recorded and dated; history is kept; older news never replaces newer |
| Derived indexes (`ingest.rs`, `lib.rs`, `index/`) | `chunks`, `meta.indexed_max`, `meta.index_dirty`, the two index directories, their copies in memory | ingest, lazy flush, catch-up at open, drop, `doctor --rebuild` | every caller of the engine; the writer's lock | rows commit before indexes; two flushes and a mark; crash anywhere; several processes | the mark never covers what an index has lost; an open writer finds everything; indexes are never ahead of the rows |
| Space lifecycle (`auth.rs`, `spaces.rs`) | `spaces.deleted_at`; a `ScopedSpace` handle in each caller | `resolve`, `space_impact`, `delete_space` | all tables, both indexes | three removals, not atomic; row ids are used again; handles outlive the space | a deletion that succeeded is complete and stays so; living spaces lose nothing |
| Distillation queue (`distill.rs`, `mcp.rs`) | `distill_queue` | `distill`, `pending_episodes`, `complete_distillation` | language model or agent; ledger | a snapshot is read, a model is asked, and only then written, with no claim on the row | true provenance; nothing marked done unread; rows park after three failures; no row waits for ever |
| Recall (`recall.rs`, `cutoff.rs`, `diversity.rs`, `rerank.rs`, `phrases.rs`) | none of its own | `recall`, `recall_facts`, `profile` | indexes, ledger, evidence | indexes may be stale: each hit is re-checked against SQLite; byte budget | only stored, in-scope, in-date text is returned; the budget holds; order is deterministic |
| Temporal answers (`temporal.rs`, `timeparse.rs`) | none | plan a question, compute windows and spans | recall | calendar arithmetic | days, months and years agree with the calendar |
| Fact links (`links.rs`) | `fact_links` | `link_facts`, `fact_links` | ledger | the cycle check and the insert are separate statements | dependencies have no cycle; a quote is in its source |
| Export and import (`portability.rs`) | none | `export_jsonl`, `import_jsonl` | ledger, ingest | imports bypass settling | a round trip loses nothing; importing twice changes nothing |
| Evidence journal, source graph, metrics (`evidence.rs`, `metrics.rs`) | `evidence_events`, `episode_metadata` | append, page, graph, figures | recall, agents | repeated and concurrent appends; paging while events arrive | each event once; pages neither skip nor repeat |
| HTTP server (`scone/src/serve.rs`) | keys and roles; the engine's mutex | one handler per route | engine | deleted spaces; a page's revision | a key does only what its role allows, in its own space |
| MCP server (`scone/src/mcp.rs`) | none | one tool per operation | engine | an agent answers late, or twice | as for the queue |
| Connectors and sync (`connectors.rs`, `main.rs`) | `connectors.toml`: token and cursor per provider | `connect`, `sync` | outside services; ingest | pages, equal timestamps, interruption | no document is skipped for good |
| Chunker (`chunker.rs`) | none | cut a text into spans | ingest | boundaries, overlong paragraphs, UTF-8 | spans are ordered, within the text and within the size |
| Schema and migrations (`db.rs`) | `meta.schema_version` | open | everything | a crash between a step and its stamp | a step may be repeated |
| Models (`embed.rs`, `llm.rs`) | none | embed, extract | ingest, queue | failure | taken as given |
| Tags (`tags.rs`) | `tags`, `episode_tags` | tag, list | recall filters | none | scoped to the space |
| Command line, hooks, setup, web page | configuration files | dispatch | engine | none of its own | taken into the other modules where it decides who runs what |
| C ABI (`scone-ffi`), benchmark (`scone-bench`) | none | wrappers, measurements | engine | memory across the boundary | out of TLC's reach; not part of the running system |

The fact ledger, the indexes, space deletion and the queue carry the system's own
logic and its hard behaviours, so they were modelled first and are proved about.
The other parts with logic of their own (recall, temporal answers, links, import,
journal, server, sync, chunker, migrations) have each a module of their own too.

## 2. The modules

```
CurrentTruth  <--- implemented by ---  FactLedger    <---  FactLedgerProofs
                                        MCFactLedger
IndexStore    <--- extended by ------  SpaceErasure
 MCIndexStore                           MCSpaceErasure
 IndexStoreProofs  <--- extended by --  SpaceErasureProofs
DistillLane   <---  DistillLaneProofs
 MCDistillLane

RecallSelect  <--- extended by ------  Recall     <---+--  RecallProofs
Calendar      <--- extended by ------  Temporal   <-+ |
SourceGraph  <--------------------------------------+ |
                     SamplesProofs  --->  Samples  <-+ +---  MCAnswers  \
                                                                         \
SyncCursor, Portability  <---  TransferProofs          (all eight parts) +--  MCPeriphery
FactLinks, EvidenceLog, Migrations, ServeApi,                            /
  ChunkSpans             <---  PeripheryProofs                          /
```

Some operators are preceded by a variant marked *seeded fault*. No specification
uses them. Each is a plausible mistake in the code (a dropped guard, a swapped
order, a forgotten date), and putting it in the place of the definition below it
makes a named property fail; `PROJECT.json` lists the pairs under `mutants`. They
show that the properties can tell right code from wrong.

### FactLedger and CurrentTruth

`CurrentTruth` is what a reader is promised: on each topic (space, subject,
predicate) at most one belief is held true now; learning replaces a belief only by
one that is not older; a person or decay may take a belief away.

`FactLedger` is the `facts` table and everything that writes it.

| Definition | Code |
|---|---|
| `facts` | the table: a function from row ids to rows. `until = 0` is SQL's NULL; `by` is the id in `status_reason = 'superseded by fact N'` |
| `BeginApply`, `ApplyFact`, `CommitApply`, `AbortApply` | `apply_facts` (`distill.rs` 175-268), one transaction; `staged` is its view |
| `Restated`, `Strengthen`, `Insert` | lines 202-264: a statement already active, proposed or declined is strengthened, anything else is a new row |
| `Outdated`, `Newer`, `Supersede`, `Settle` | `settle_active_fact` (350-390) |
| `FactsApprove`, `FactsDecline`, `FactsClose`, `FactsExclude`, `FactsInclude` | the reviewer's operations |
| `DecayFacts`, `Stale` | `decay_facts` (607-623) |
| `RecallFacts`, `Reinforce`, `RecallFails` | `recall_facts`: the read, then one UPDATE per row served |
| `AddEntityAlias` | `add_entity_alias` (162-172) |

A write by another process waits for the open transaction (SQLite's write lock),
hence `phase = "idle"` in their guards; a recall's read does not wait. Times are
small numbers: code compares timestamps only for order. Confidences are small
numbers, for the same reason. A topic's subject is the entity, after aliases.

### IndexStore

Chunks, the mark, two indexes on disk, two copies in memory, several processes.
`Ingest` is the transaction of `ingest_raw`, `FeedIndexes` and `FeedFails` what
happens after it; `CommitFts`, `SaveVectors`, `Mark` are the three steps of
`flush_indexes`; `LoadVectors`, `TakeLock`, `CatchUp` those of `open_inner`;
`Close`, `Drop` of dropping an engine; `WipeFts` to `Unflag` of
`doctor_rebuild`. `Crash` may come at any of them.

`FtsIndex::add` replaces a document that has the same id (`Upsert`);
`VectorIndex::add` keeps what a key already has (`AddNew`). Row ids are SQLite's
for an `INTEGER PRIMARY KEY` without `AUTOINCREMENT`: one above the highest in
use, so ids of deleted rows return.

`lapses` is a history variable. While modelling it became clear that three things
can make the indexes differ from the rows without a trace on disk: a copy of the
vectors is older than the file it will overwrite ("copy"), a rebuild is cut short,
rows are deleted. Instead of excluding them, the model records that one has
happened, and the safety properties say exactly what holds when none has. The
findings below are properties without that excuse.

### SpaceErasure

Extends `IndexStore` with `auth::resolve`, the handles it gives out, and
`delete_space` in five steps: the check, the ids, the transaction, the vectors,
the full text. Each may fail, and the process may die between them. All steps of
`IndexStore` go on meanwhile; `StoreStep` wraps them and forgets a process's
handles and deletion when it ends. The ids are collected before the transaction
(`spaces.rs:87`), so they may be short of what the transaction deletes; and a
deletion by one process leaves the space's vectors in the copy of every other.
Both count as "copy" in `lapses`, from which `PurgedLeavesNoTrace` excuses the
vectors, never the text.

### DistillLane

The queue and the two paths that drain it. `BeginDistill` takes the snapshot;
`Extract`/`ExtractFails` the model's answer; `Apply`/`ApplyFails` the
transaction; `MarkDone` the UPDATE after it. `PendingEpisodes`,
`CompleteDistillation` and `SubmitFails` are the agent's path, where `listed`
is everything any agent has ever been shown and may still submit.
`BeginErase`/`EraseSpace` is what `delete_space` does to the lane. An episode and
its queue row are inserted and deleted together and share an id. `read` is a
history variable.

A fact is reduced to where it is said to come from (`space`, `source`) and the
document it was really read in (`told`); what it says is FactLedger's subject.

### Recall and RecallSelect

`Recall` is one recall from its options to its pack, in the stages of
`recall.rs`: `Ask`, `Search` (both lanes and their fusion), `Verify` (one
statement per candidate), `Select`, `Expand` (one statement per kept item),
`Pack`. No transaction holds these statements together, so another process
may delete a space or ingest between any two (`OtherDeletes`, `OtherIngests`), and
row ids are used again. `RecallSelect` holds what has no state: which passage
holds which phrase, reranking, maximal marginal relevance, the cap per episode,
the cut, the byte budget. An order is the sequence in which each element comes
before what it precedes, and a greedy choice a recursive function, so that both
can be reasoned about. Scores and cosines are hundredths. One filter on
episodes (`within`) stands for tags, sources, scopes and dates, which the code
applies at the same place with the same effect.

### Calendar, Temporal, SourceGraph, Samples

Pure functions, translated as operators. `Samples` gives them bounded
inputs, one per initial state, and says of each result what it must be in terms
that are not the code's: the day after each day is one more, a weekday window is
the one day of that name in the week before today, the answer to a question about
an event is counted from the closest passage, a graph has
no edge without its ends and no kind crowds out the rest.

### FactLinks, EvidenceLog, Migrations, SyncCursor, Portability, ServeApi, ChunkSpans

Each is a component with its own processes and failures. In `EvidenceLog` the
journal is the set of its rows and a page the set of the ids on it: the order
within a page is that of the ids.

| Module | State | Actions | Where the steps interleave |
|---|---|---|---|
| `FactLinks` (`links.rs`) | the links, the call each process is in and how far its walk is | `BeginLink`, `Walk` (one fact's links), `InsertLink`, `LinkFails` | the walk is a statement per fact, the insert another |
| `EvidenceLog` (`evidence.rs`) | journal, episodes, a reader that follows and one that walks | `CheckReport`, `AppendReport`, `RecordRecall`, `Follow`, `BeginWalk`, `WalkPage`, `FileEpisode`, `WipeSpace` | reports repeat; pages are read while events arrive and spaces go |
| `Migrations` (`db.rs`) | the file's version and parts, where each opener is | `BaseSchema`, `FirstVersion`, `ReadVersion`, `BeginStep`, `Apply`, `Stamp`, `StoreExclusion`, `Ends` | two openers; death between a step and its stamp |
| `SyncCursor` (`connectors.rs`, `main.rs`) | the services' documents, the credentials file, where each sync is | `Edit`, `Tick`, `BeginSync`, `PassOver`, `List`, `ReadBody`, `ImportOne`, `ServiceRead`, `EmptyFile`, `WriteFile`, `SyncEnds`, `BeginConnect` | edits between listing and reading; two processes and one file, which is emptied before it is written; a sync that ends anywhere |
| `Portability` (`portability.rs`) | two stores, the export and the import under way | `ExportEpisodes`, `ExportAliases`, `ExportFacts`, `BeginImport`, `ImportText`, `ImportAlias`, `ImportFact`, `EndImport`, `ImportDies`, and the writes of others | the export is three statements, the import a transaction per record |
| `ChunkSpans` (`chunker.rs`) | the text read so far, the open chunk and its boundaries, the soft spans, the chunks | `CutAtDeclaration`, `ReadLine`, `EndOfText`; `KeepSpan`, `BeginSplit`, `SplitPiece`, `LastPiece`, `ChunksEnd` | they do not: one call, a step per line and then per piece |
| `ServeApi` (`serve.rs`) | a ledger per space, the page being read, the pages served | `Handle`, `ReadList`, `ReadRevision`, `ReadSources`, `Elsewhere` | requests take turns by the mutex; other processes do not |

Several properties are conditional on a history variable (`crossed`, `late`,
`leftOut`, `reused`), each set in exactly the step whose
order the code leaves open. As with `lapses`, the variable keeps the behaviour in
the model and says what holds as long as it has not happened; section 5 lists
what happens when it has.

## 3. What the runs check

Bounds are in the `.cfg` files. State counts are distinct states.

| Run | Result | What it asks |
|---|---|---|
| `ledger_arrival` | holds (1.3 M) | two documents of different dates, each a list of up to two facts, read in either order, above and below the gate, then approved, declined, closed, decayed in any order: `OneActivePerTopic` (I2), `OneRowPerStatement`, `SourcesInSpace` (I4), `SupersededInPlace` (I3), `IntervalsOrdered`, and that the ledger implements `CurrentTruth` |
| `ledger_review` | holds (1.7 M) | the clock running, two names that may become aliases, recalls that reinforce late, exclusion: `ServedOnlyLedger`, `HistoryIsKept`, `PastIsSettled` |
| `index_crash` | holds (184 k) | two processes ingest, recall, close, crash, fail and rebuild: `MarkIsDurable`, `WriterFindsAll`, `TruthFirst`, `RebuildIsWhole` |
| `erasure_purge` | holds (2.6 M) | deletion with failures and crashes between its removals and with ids used again, by one process over two spaces or by two over one (`focus`): `PurgedLeavesNoTrace`, `LivingTextIsTrue` |
| `lane_shared` | holds (1.1 M) | two processes drain two spaces by model and by agent while spaces are deleted and ids used again: `ProvenanceIsTrue`, `DoneWasRead`, `AttemptsAreBounded`, `ParkedIsLeftAlone` |
| `lane_daemon` | holds (419 k) | a daemon beside a process that fails, crashes and deletes: `EverythingSettles` |
| `periphery` | holds (1.3 M) | eight parts, each on its own (`focus`): `LinksStayAcyclic`, `JournalIsReadAsWritten`, `MigrationsKeepEveryColumn`, `CursorNeverPassesUnread`, `ReimportChangesNothing`, `RereadShowsItsRevision`, `ChunksTileTheText`; and, in focus "answers", one recall of each combination of options beside a process that deletes and ingests: `AnswerIsOfTheSpace`, `PhrasesDecideBeforePlaces`, `EpisodesShareTheAnswer`, `BudgetKeepsTheTop`, `CutFallsInADrop`, and every sample of the pure parts: `CalendarIsExact`, `WindowsHoldTheirDay`, `AnswersFollowTheirAnchors`, `GraphIsClosedAndFair` |
| `ledger_backfill`, `index_open`, `erasure_catchup`, `lane_erased`, `schema_links` | violated | the five findings |

**Why these bounds.** The ledger's rules relate two rows of one topic; three rows
and two dates give every order of an older, an equal and a newer fact with a
proposal waiting, and the second space shows that topics do not mix. The index
properties fail, when they do, for two processes and one document of two chunks:
a chunk that is in one index and not in the other, and a reader that becomes the
writer. For the erasure, two documents and three row ids let one space's ids
become another's. `erasure_purge` has two foci. "alone" is one process, which may
die and be started again, with two spaces; "pair" is two processes and one
space, enough for a deletion beside an ingest, a recall's copy, a second deletion
of the same space, or a take-over of the lock. In the lane, two ids and two spaces let
an id return in another space; two processes are enough for every
read-ask-write race of two distillers, or a distiller and an agent; and
`AttemptsAreBounded` is stated for any number of processes.

For `periphery`, first its focus "answers": six passages in four bodies and two spaces, one body of three
passages so that the cap of two bites, lanes of four candidates so that a lane can
be full of another space's passages, three stored episodes and two acts of the
other process, enough to delete a space and give its ids to another. Requests
combine lanes, limits 1 to 4, phrases, reranking, diversity, clauses, the cut
(with and without diversity, over positive and negative cosines), neighbours and
budgets in groups, each group over everything it interacts with.
Samples: every day of eleven years that have every kind of leap rule, every
reference asked on each day of six months, with leap and short ones before them, up to three anchors of three episodes with
a cosine above the threshold, one below 0 or (for one episode) none at all, and two events, three episodes and two claims under
graph budgets from 1 to 20. The other foci: two linkers and three facts (the
shortest circle that is not a pair), two reporters' contents under one source,
pages of one row, and two openers of files of versions 0, 1, 2, 5 and 8 (an opening of one
of these passes through the files of the other versions). For the sync, five scenes:
three documents of GitHub and a listing of two, two pages of Notion that are edited three times,
Slack and Drive in one sync, and two processes at one service, whose comparison is
strict (Notion) or not (GitHub). Then
four writes of others around an export and its imports (`MaxWrites`) with one alias,
so that the aliases of aliases, which the property excludes (`Chained`), are the theorem's
subject alone, and
a full set of roles, one claim that comes as active or proposed, two changes of
the revision and three pages (the second with a revision is the first that may be
relied on, and the third compares two of these), of the active claims or of all. Last, texts of up to three lines of every kind,
from 1 to 27 bytes in characters of one, three and four, cut at the targets 0, 4, 8 and 16, so that a line may be a quarter of
a chunk or four of them. TLC stops at the bounds in this run,
so it sets `CHECK_DEADLOCK FALSE`: a recall that has answered, and a
journal that is full, are done. `schema_links` needs one opener only.

**Conditions in properties.** `IntervalsOrdered` needs episodes that are not dated
in the future (`HappenedAt <= StartTime` in its run): closing a future-dated fact
by hand ends it before it begins. `DoneWasRead` is conditional on no space having
been deleted: an id that returns while a distiller is at work may be marked done
for the wrong episode. `MarkIsDurable` and `WriterFindsAll` are conditional on no
lapse; `Loud` states are those the program reports.

**Fairness.** Only `lane_daemon` assumes any: weak fairness of the daemon's
resolving of its space and of its steps in `distill`, because `Cmd::Daemon`
(`scone/src/main.rs` 957-993) resolves once and then loops for ever in one
thread: scan, distil, decay, sleep. Nothing is assumed of the model, which may
always fail, nor of the other process. The daemon is assumed to stay up; SQLite
statements outside the apply transaction are assumed to succeed (the daemon ends
when one does not).

## 4. What is proved

Each proof module extends the modules it is about. It proves its theorems from
the named assumptions on their constants (`LedgerAssumption`, `StoreAssumption`,
`LaneAssumption`, `RecallAssumption`, `LinkCallsAssumption`, `ScenesAssumption`,
`PortAssumption`, `KeysAssumption`, `LogAssumption`, `SamplesAssumption`,
`ChunksAssumption`), which say what a constant
is and nothing about its size; TLC evaluates them in the runs. A safety property
follows from an inductive invariant, listed as a theorem of its own.

Five statements of the documentation are violated (section 5). Of the first four a theorem says
where each is right: its hypothesis names the one thing that the
counterexample needs, and everything else (failures, crashes, other processes
where it does not exclude them) stays allowed. They come last in their parts. For the fifth, `OpenedStoresAreWhole` names the files
it fails for (`NeverMade`).

### The ledger

`FactLedgerProofs`, for any number of documents, rows, spaces, batches of any
length, any gate, any clock:

| Theorem | Statement |
|---|---|
| `TypeCorrect` | `Spec => []TypeOK` |
| `OneActiveFact` | `Spec => []OneActivePerTopic` |
| `OneStandingRow` | `Spec => []OneRowPerStatement` |
| `ImplementsCurrentTruth` | `Spec => TruthMovesForward`, the refinement |
| `LedgerInvariant` | the inductive invariant `IInv` they rest on |
| `SourcesStayInSpace` | `Spec => []SourcesInSpace` |
| `SupersededStaysInPlace` | `Spec => []SupersededInPlace` |
| `OnlyLedgerIsServed` | `Spec => []ServedOnlyLedger` |
| `KeepsItsHistory`, `KeepsThePast` | `Spec => HistoryIsKept`, `Spec => PastIsSettled` |
| `IntervalsStayOrdered` | `Spec /\ []DatedByNow => []IntervalsOrdered` |
| `IntervalsOrderedFromStart` | `Spec => []IntervalsOrdered` where no document is dated after the clock's start |

`OneActivePerTopic` is not inductive by itself: an open transaction is about to
replace `facts` by `staged`. `IInv` therefore says of *both* that they are a
well-typed table, have one active fact per topic and one standing row per
statement (`Sound`), and, while a transaction is open, that `staged` is `Ahead`
of `facts`: every topic active in `facts` is active in `staged`, with a fact that
is no older. `Ahead` is what makes a commit a `Learn` step of `CurrentTruth`, and
what makes an abort harmless. It holds because nobody else writes while the
transaction is open. The heart of the argument is the lemma on `Settle`: if a
table has one active fact per topic apart from a row that has just become active,
then after `Settle` it has exactly one, and that one is no older than either. It
is used twice, for an inserted fact and for an approved proposal.

What the ledger remembers needs a second invariant, `HInv`. Every row of either
table is `Lawful`: its sources are of its space, and if it was superseded it
names a ledger row of its topic that begins where it ends. And a commit is *one*
step that stands for a batch of any length, so `HInv` keeps, between `facts` and
`staged`, the relation that the action properties ask of a step: `Follows` (rows
stay, what they say stays, decided states are not decided anew) and `Remembers`
(what held at a time before now still holds there, unless superseded). Both
are reflexive and transitive along the facts of a batch, which is the content
of the lemmas.

`IntervalsStayOrdered` has a hypothesis on behaviours, `DatedByNow`: a document
is not dated after the clock when it is applied. The code does not enforce it,
and without it the property is false (see section 3). The corollary trades it
for a fact about the constants, which the run `ledger_arrival` satisfies.

`InOrderNeverOverwrites` is `Spec /\ [][InOrder]_vars => BackfillNeverOverwrites`:
the comment of `settle_active_fact` holds in a store where documents are read,
and proposals approved, in the order of their dates, by which `InOrder` means that
no document newer than the one at hand has taught or repeated what is active in its space. A transaction stands
for a batch, so `BInv` keeps `KeepsUp` between `facts` and `staged`: what was
active is superseded in `staged` by nothing older than a document that states it.

### The indexes and deletion

`IndexStoreProofs`, for any number of processes, spaces, documents and chunks:

| Theorem | Statement |
|---|---|
| `StoreTypeCorrect` | `Spec => []TypeOK` |
| `MarkCoversNothingLost` | `Spec => []MarkIsDurable` |
| `OpenWriterFindsAll` | `Spec => []WriterFindsAll` |
| `IndexesFollowRows` | `Spec => []TruthFirst` |
| `RebuildEndsWhole` | `Spec => RebuildIsWhole` |
| `StoreInvariant` | the inductive invariant they rest on |

A flush is three steps, and the mark may move at the third only because of what
the first two left behind. `InStep` says it for each place a process can be in:
once the full text is committed, the disk equals the staged index; once the
vectors are saved, the file equals the copy in memory; a process that is opening
and has seen no lapse has the disk's copies. `FindsAll` gives the next flush
something complete to write. `Derived` says that a row id stands for one chunk
and that the mark is 0 or the id of a chunk: since ids are one above the highest,
a chunk stored later is always above the mark. This fails as soon as rows are
deleted, which is why these theorems are about `IndexStore`, and what finding 3
is. All of this needs to be shown for the lock's holder only (`OnlyTheHolder`).

`MarkAfterDurableAlone` is `Spec /\ []OneAtATime => []MarkAfterDurable`, what
`flush_indexes` says of the mark without the excuse of `lapses`: if at most one process
has the store open at any time, rebuilds aside every chunk at or below the mark
is in both indexes on disk, whatever fails and whenever the process dies. `AloneInv`: the only
copy of the vectors is the file's, so the mark "copy" never comes, and an unfinished
rebuild is the one thing that can leave less on disk than the mark says.

`SpaceErasureProofs` extends it with deletion, under the same assumption:

| Theorem | Statement |
|---|---|
| `ErasureTypeCorrect` | `ErasureSpec => []ErasureTypeOK` |
| `DeletionIsComplete` | `ErasureSpec => []PurgedLeavesNoTrace` |
| `LivingSpacesServeTheirOwn` | `ErasureSpec => []LivingTextIsTrue` |
| `ErasureInvariant` | the inductive invariant `ErasureInv` they rest on |

`PurgedLeavesNoTrace` looks at rows and indexes; what may bring a chunk back is
everything that feeds them, so `ErasureInv` says it of the batch being fed, the
staged full text, the vector file and each process's copy too (`TextIsClean`,
`VectorsAreClean`), and the same for living spaces (`AllIsLiving`). Most steps of
the store only move entries between these places: `Brings` says so once, and the
invariant follows for all of them. `ErasesInOrder` is the argument about
deletion: between its transaction and its last removal nobody can ingest into
the space, and the ids collected cover the vectors, unless another process has
deleted the same space since the check ("copy"). `RebuildsClean` is why a
rebuild may take that mark back: it fills an empty vector index from the rows.

`MarkAfterDurableWithNewIds` is
`ErasureSpec /\ []OneAtATime /\ [][NeverReused]_allVars => []MarkAfterDurable`. One
process at a time is not enough once spaces are deleted, which is finding 3;
it is enough if a new row's id is above the mark and no index still holds it
(`NeverReused`, what `AUTOINCREMENT` would give). `SoleInv` is about the one process that has the
store open: an entry with the id of a row is that row (`AllAgree`), the disk
covers the mark (`Covered`), what the process is about to save is whole but for
the batch it is feeding (`Sole`), and the ids a deletion has collected are those of its
space (`Erases`), so that what it removes from the indexes is of no living row. TLC checked
`SoleInv` on a small instance before it was proved.

### The queue

`DistillLaneProofs`, for any number of distillers, agents, spaces, documents and
episodes:

| Theorem | Statement |
|---|---|
| `LaneTypeCorrect` | `Spec => []TypeOK` |
| `ProvenanceStaysTrue` | `Spec => []ProvenanceIsTrue` |
| `DoneRowsWereRead` | `Spec => []DoneWasRead` |
| `ParkedStaysParked` | `Spec => ParkedIsLeftAlone` |
| `FailuresAreBounded` | `Spec => []AttemptsAreBounded`, for finitely many processes |
| `LaneInvariant` | the inductive invariant most of them rest on |

A reading outlives the moment it was made: a distiller's snapshot, the job it is
at, anything an agent was shown. `ReadingsAreGood` says that each of them still
describes its row, whatever state that row is in by now, unless the reading's
space is gone. It holds because a row is only removed with its space, so that an
id can return only when the space of every reading that knew it is gone.
`apply_facts` then writes a true source, or one in a deleted space. `Parking` ties
the attempts to the state, and `MarkedWasRead` carries from the transaction to the
UPDATE after it that the job was read.

`AttemptsAreBounded` counts processes: `attempts <= 2 + Cardinality(Processes)`.
Its invariant `BInv` adds that a distiller has a row at most once in its snapshot
and job, and that the attempts of a parked row, together with the number of
processes that still hold it, stay within the bound. A parked row gets no new
holders, since a snapshot takes pending rows only, and each failure uses one up.

`ErasedUnusedStaysErased` is
`Spec /\ [][ErasedUnused]_vars => []NothingRecreatesWhatWasErased`: what the
comment of `auth::resolve` promises holds if a space is erased only while no other process
has resolved it or is about to apply what it read there. `LivingInv` says that then every
handle, snapshot and job is of a living space.

### Recall

`RecallProofs`, for any stored texts, requests, scores, similarities, lengths and
window:

| Theorem | Statement |
|---|---|
| `AnswersAreOfTheSpace` | `RecallSpec => []AnswerIsOfTheSpace` |
| `PhrasesDecide` | `RecallSpec => []PhrasesDecideBeforePlaces` |
| `EpisodesShare` | `RecallSpec => []EpisodesShareTheAnswer` |
| `TheTopIsKept` | `RecallSpec => []BudgetKeepsTheTop` |
| `CutsFallInDrops` | `RecallSpec => []CutFallsInADrop` |
| `RecallInvariant`, `PackInvariant` | the inductive invariants `RecallInv` and `PackInv` |

`RecallInv` follows the stages. `IsStore`: the rows are passages of what was
stored, neighbours in order. `SearchInv`: the candidates are ids this process
knew, with scores. `ItemsInv`: a verified candidate was stored in the space asked,
and until an id is used again its row is still of that space or gone, which is
what the later reads by chunk id alone rely on. `AnswerInv`: the places are what
selecting gives, for some outcome of the rerank. `PlacesInv`: how much of it has
been handed over. The last two make `PhrasesDecide` and `EpisodesShare` statements
about the pure part, proved as lemmas: sorting puts each candidate in line once
(`InLineOrders`, `AlongLines`), a choice by maximal marginal relevance too
(`MostDiverseLines`), and taking in turns leaves an episode a third place only
after all others have had theirs (`TwoTurns`, `PickedShares`).

`PackInv`, inductive given `RecallInv`, adds what the cut and the budget need.
`SettingsInv`: only accepted settings are searched with, and where only the vector
lane is asked (which a cut requires) every candidate has a cosine. `BudgetInv`:
what is returned so far begins with the first place, and every item of it says
something, so that no list of two fits in no bytes. `GapIsADrop` is the statement about
`gap_cutoff`: if it reports a gap, then at a drop of `MIN_GAP` of the spread or more. The proof of
`CutsFallInDrops` found an error in an earlier form of the model: without a gap
there is no threshold at all, where the model had a threshold of 0, which drops
passages of negative cosine. The instance has such a passage now.

### Links, sync, import, server, migrations, journal, chunks

| Module | Theorem | Statement |
|---|---|---|
| `PeripheryProofs` | `LinksAreAcyclic` | `LinksSpec => []LinksStayAcyclic` |
| | `AloneNothingIsCircular` | with one linking process there is no circle, without a condition |
| `TransferProofs` | `NothingIsSkipped` | `SyncSpec => []CursorNeverPassesUnread` |
| | `ReimportIsANoOp` | `PortSpec => []ReimportChangesNothing` |
| | `SyncInvariant`, `TransferInvariant` | their inductive invariants |
| `PeripheryProofs` | `RereadPagesAgree` | `ServeSpec => []RereadShowsItsRevision` |
| | `OpenedStoresAreWhole` | `SchemaSpec => []MigrationsKeepEveryColumn` |
| | `ReadersMissNothing` | `LogSpec => []JournalIsReadAsWritten` |
| | `ServeInvariant`, `SchemaInvariant`, `LogInvariant` | their inductive invariants |
| `PeripheryProofs` | `ChunksTile` | `ChunksSpec => []ChunksTileTheText` |
| | `PassedDeclarationsNeverCut` | in no text does a declaration that a chunk has passed decide its cut |
| | `ChunksInvariant` | the inductive invariant `ChunksInv` |

*Links.* That there is no circle is stated over sets (no non-empty set of facts
in which each depends on another), which bounds no path's length. A new link
closes a circle only if its target reaches its fact; `Explored` says that a walk has
seen all that the target reaches through what it has read, and holds while no
dependency is stored during another's walk (`crossed`).

*Sync.* The property is about cursors in the file; a cursor is computed in a
process's memory over a listing and the bodies read since, and reaches the file
through a moment in which the file is empty, or mixed with what another process
wrote. `CursorsHold` says
the same of cursors anywhere, and of any mixture of two such files
(`MixedHolds`). An edition is a document with the number of its edit. `InHand`: of each document that a cursor to come
would pass, the edition of now is in the store, in the listing, among the bodies read,
or in `leftOut`, which has the editions that no sync was given: cut from a full listing,
blank or unreadable, or dated no later than a listing made before. An edit between
listing and reading puts the document after every cursor (`EditIsLater`), or is
in `leftOut`: in the tick of the listing where the service's comparison is
strict, and always at Slack, whose messages keep their time.

*Import.* `ImportHolds` says what an import that was alone has brought, all but the
records left; `LandedHolds` that nothing of it is lost while it is imported
again. `NamesStay` is why aliases land where they were, provided there is no alias of
an alias (`Chained`).

*Server.* The revision of a page is read after its list, so what is known of the
first page with a revision is only that the revision came later. If the revision was
served before the list was read, it was the ledger's when the list was read too,
since revisions only grow (`Reached`), and every change of an exclusion moves it.
So `PageHolds` can keep such a list against the ledger as it is now, as long as the
revision is the same (`Tells`), and `Consistent` says what is left of that for two
pages once the revision has moved on. `StillHeld` is why no claim loses its sources
between the list and the third statement: only a deletion removes claims.

*Migrations.* Two invariants, for two strengths. `PartsStay` holds whatever is
repeated: what a process has seen a version for, or has run the statements of, is
in the file (`OpenerSaw`, `Made`), since no statement drops a part, except that a
repeated step 5 drops `excluded_reason`. It gives the parts of every opened store.
`InStep` holds until a step is taken whose version was already stamped (`late`): a
process in a step has the step's statements done or to do, and knows no version
ahead of the file's. It gives the version and the stored exclusions.

*Journal.* A report and its source are one row (`JournalHolds`). The follower has
been shown every row of its space up to its cursor, the walker every standing
episode above its boundary; the lemmas are about the highest `n` of a finite set
of ids (`HighestIds`, `NoMoreIds`).

*Chunks.* Texts of any length, of any lines whose characters are at most four bytes
wide and which are not empty (`ChunksAssumption`, which is UTF-8 and what
`split_inclusive` gives), and any target. Soft spans and chunks are each `Joined`:
they follow each other from 0 to a character, for the chunks the `Position` that
pass 2 has reached. `ReadingHolds` says of the open chunk that its boundaries
are at characters and that each declaration it has passed came before it
held a quarter of the target. Since a quarter is less than a half, the test for
one half (`decl_cut`) never holds: `PassedDeclarationsNeverCut`.

### Dates, answers and the source graph

`SamplesProofs`. The run compares these pure functions with reference definitions
over the samples; the theorems are about any values of the constants the samples
are drawn from, and two of them about any input at all.

| Theorem | Statement |
|---|---|
| `CalendarOfEveryYear` | of any sample, `CalendarIsExact`; the years are any integers |
| `WindowsOfEveryDay` | of any sample, `WindowsHoldTheirDay`; today is any day |
| `GraphOfEveryView` | of any view of the store and any budget above 0, `ClosedAndFair` |
| `GraphOfEverySample` | of any sample, `GraphIsClosedAndFair` |
| `AnswerOfEveryQuestion` | of any question and anything that recall returned, `AnswerFollows` |
| `AnswersOfEverySample` | of any sample, `AnswersFollowTheirAnchors` |

`SamplesAssumption` says what the constants are. Its two conditions that are more
than a type are the store's: the passages of an episode have one day (a passage
carries its episode's `created_at`), and a claim's id stands for one claim.

*Calendar.* The code divides in eras of 400 years that begin in March. `Placed` gives
a date its place there (era, year, month counted from March, day); lemmas show
one after the other that a date has a place (`DateIsPlaced`), that the place fixes
its number, that `CivilDate` finds the year of an era (`EraYear`: a century is 25
groups of four years, and the divisions by 1460, 36524 and 146096 undo exactly
that) and the month of a year (`MonthOfDay`), and that every number is a date's (`DayIsPlaced`). That the
number counts the days from 1970 is shown over the leap years of a stretch
(`LeapYearsIs`), by counting up from its first year.

*Windows.* "ago" is widened by the span's slack in the code. `MonthsBack` says that
going back some months is 28 to 31 days for each, which the slack covers.

*Graph.* The turns that the kinds take are an order of the nodes; the kept
ones are those with fewer than `limit` before them, so that fairness is a count in a strict
order (`MoreBelow`, `FewBelow`, `KeptIsFair`).

*Answers.* `GroundIsClosest`: what an event is grounded in is among the closest
passages, where a passage without a cosine comes after all that have one, and there is
none only if no passage is close. `GroundManyIsEnough`:
with a limit above the number of episodes all are found, and otherwise as many as
the limit. `InOrder`: the places that a stable sort gives are the ranks of a strict order, each
taken once. A span's eight episodes and the count up to nine are conditions of
`SpanFollows` and `CategoryFollows`; the proof is where the second one came from
(section 5).

To reason about them, `SourceGraph` and `Temporal` were restated without folds:
what the code computes in a loop is given by ranks in an order. Each restatement
was compared by TLC with the fold it replaced, on all samples.

### Only model-checked

- `EverythingSettles`: liveness under fairness.
- The five violation runs: no theorem can state them as they are; the counterexamples are
  the result, and the theorems named above say where they stop.
- The roles and the gate of the server are part of the model, so that every operation
  comes from who may ask for it; no property is stated about them, since it would repeat `permits`.

## 5. Findings

1. **Backfill may overwrite what has been restated** (`ledger_backfill`,
   `scone-core/src/distill.rs:220`). Documents dated 1 and 3 say the same; the
   second restates the row of the first, which keeps date 1. A document dated 2
   that contradicts them then closes it, against the comment at line 346.
2. **A stale copy of the vectors** (`index_open`, `scone-core/src/lib.rs:172`).
   The vector file is loaded before the writer's lock is taken. If the writer
   saves and exits in between, the next writer holds a copy without its chunks,
   below the mark, and overwrites the file with it. `index_dirty` is not set.
3. **Ids below the mark** (`erasure_catchup`, `scone-core/src/spaces.rs:105`).
   Deleting a space frees its row ids and leaves `indexed_max`. A chunk stored
   next gets an id at or below the mark; if the process dies before it is
   flushed, the next open does not catch up with it.
4. **A deleted space is written to** (`lane_erased`,
   `scone-core/src/distill.rs:175`). `auth::resolve` asks once. A process that
   resolved before the deletion, the daemon in particular, goes on ingesting and
   distilling into the space.
5. **A file without fact links** (`schema_links`, `scone-core/src/db.rs:246`).
   Step 6 does nothing, because the table it stands for is "created above by the base
   schema for every file". It is created by step 2, which a file of version 2 to 5
   has behind it. If that file was written before the table was added to step 2, it comes to version
   8 without it, and `link_facts` (`links.rs:96`) and `delete_space`
   (`spaces.rs:103`) then fail on it.

What each of the claims needs is proved (section 4): 1 holds if documents are read
and proposals approved in the order of their dates, 2 if one process at a time has the store open, 3 if besides
ids are never used again, 4 if no space is erased while another process uses it, 5 for
files found below version 2 or with the table.

### What the conditions of properties stand for

These came up while modelling. The models contain the behaviour; a property's
condition, or its wording, leaves it out by name.

- *Links*: two processes may each check one half of a circle and then each store
  it (`crossed`).
- *Migrations*: two processes that open an old file may both take step 5; the
  later one rebuilds `facts` without `excluded_reason` and stamps the version
  back (`late`, `DroppedLate`). The table of finding 5 is left out by name
  (`NeverMade`), for the files it is about only.
- *Sync*: a document is read once, in the edition that a sync was given. Editions
  that none was given are in `leftOut`, and the cursor may pass them: only the first
  page of a listing is asked for; a page of Notion without supported text, a
  message without text or with a subtype and an empty Drive document are left
  out, and so, without a word, is a Drive document whose export failed
  (`connectors.rs:478`, 252-260 and 307-309); an edited Slack message keeps its
  time; an edit in the very tick of a listing is missed where the comparison is
  strict. If the next edit is offered, that one is read.
- *Credentials*: `save_credentials` empties the file and then writes it
  (`connectors.rs:72`). If the process ends in between, or another loads the file then and saves it
  later, all tokens and cursors are gone; two writers overwrite each other's
  services, or leave a file that does not parse. The property is about the cursors
  that are there: none of these makes one pass an unread document.
- *Import*: an export holds proposed and declined facts, which `import_fact`
  refuses, so that such an import stops part-way. Active facts come in
  unsettled: a newer export of the same space gives a topic a second
  active fact. With an alias of an alias, the second import resolves the
  alias further than the first (`Chained`), although `portability.rs:5` says a
  re-import is a no-op.
- *HTTP*: approve, decline, close, decay and learning leave the revision alone, so
  it tells what is excluded and not what is active (`Agree`). The list, the
  revision and the sources of one page are three statements, and another process
  may change the ledger between them: the first page with a revision may show an
  older list, against the comment at `serve.rs:691` (`Reread`). A page that is read
  after its revision has been served may be relied on. `close` is a write
  key's right, not a reviewer's.
- *Recall*: the statement that widens an item reads by chunk id alone; if the
  chunk was deleted and its id used again meanwhile, text of another space may come
  back (`reused`). Widening comes after the phrases, so a widened passage may
  hold an excluded phrase (`Unbounded`). The vector lane ranks all spaces'
  passages in one window, so another space's nearer ones use up its places.
  With a limit of 0 every candidate is returned.
- *Temporal answers*: a category whose number the question states is looked for with a
  limit of two more, but never more than ten (`temporal.rs:586`). For a stated
  ten, the largest number that `stated_count` reads, the limit is ten, so eleven
  or more events are taken for ten and ordered, although the comment at line 588
  says that a different number means the wrong things were found (`CategoryFollows`).
- *Temporal answers*: a passage the vector lane did not return has no cosine and is
  accepted as an anchor (`Close`), so `MIN_ANCHOR_SIMILARITY` does not bind the
  text lane. It ranks below every cosine, negative ones included (`NoMatch`).
- *Chunker*: the cut at the last declaration passed once it lies half a target
  into the chunk (`decl_cut`, `chunker.rs:300`) can never be taken, since a declaration is noted
  only where the chunk holds less than a quarter of the target, and else cuts at
  once (`PassedDeclarationsNeverCut`).
- *Graph*: `provenance_omitted` also counts sources of claims that were left out
  themselves; the property asks for at least the sources of those drawn.

## 6. Not modelled, and why

Retrieval quality, formatting, prompts, model calls and HTTP clients have no state
that the properties are about. In the modelled parts: the embedder pin and
changes of dimension (one embedder is assumed), `chunks.embedding` (a chunk's
vector is a function of the chunk), tags, metadata and links that are deleted
with a space, and the counts of a receipt; the traces that recall returns beside
its passages; redaction and episode metadata; tokens that `sync` takes from the environment; the handlers that only read; the
words by which a question is recognised. `tags.rs`, `profile.rs` and
`metrics.rs` read, count and label. The command line, hooks and setup dispatch to
the engine and write configuration and session files; the C ABI wraps the engine; the
benchmark measures it.

## 7. Plan

All modules of the plan are written and checked, and every invariant and action
property of the passing runs is proved. What is left:

| Module | To prove |
|---|---|
| DistillLane, FactLedger | that the lane's `Apply` is the ledger's `BeginApply` .. `CommitApply` seen from outside: the two models meet in `apply_facts` |
