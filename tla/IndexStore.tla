----------------------------- MODULE IndexStore -----------------------------
(***************************************************************************)
(* The stores of scone-core: SQLite, which is the truth, and the two       *)
(* indexes derived from it, full text (tantivy) and vectors (usearch), as  *)
(* ingest.rs, lib.rs and index/ keep them in step.                         *)
(*                                                                         *)
(* A document is cut into chunks, which one SQLite transaction commits.    *)
(* The indexes are fed after it, in memory only; a flush makes them        *)
(* durable, one after the other, and then moves meta.indexed_max, the      *)
(* high-water mark.  Opening a store feeds the chunks above the mark       *)
(* again, so that a process may die anywhere in between.                   *)
(*                                                                         *)
(* Several processes may open one store.  The one that holds the full-text *)
(* writer's lock is the only one that ingests, flushes or rebuilds, and    *)
(* the others read.  The vector file has no lock.                          *)
(*                                                                         *)
(* Faults: any process may die at any step, any index operation may fail,  *)
(* and a save that is cut short may leave a file that cannot be loaded.    *)
(* SQLite statements outside a transaction are assumed to succeed.  One    *)
(* embedder is in use: its vector for a chunk never changes.               *)
(***************************************************************************)
EXTENDS Naturals, FiniteSets

CONSTANTS
  Processes,
  NoProcess,    \* the lock is free
  Spaces,
  Documents,
  Pieces,       \* how many chunks a document is cut into
  MaxChunkId    \* bound on SQLite's row ids

ASSUME StoreAssumption ==
  /\ NoProcess \notin Processes
  /\ Pieces \in [Documents -> Nat \ {0}]
  /\ MaxChunkId \in Nat

Chunk == [id : 1 .. MaxChunkId, space : Spaces, doc : Documents, piece : Nat]

VARIABLES
  chunks,         \* the chunks table
  indexedMax,     \* meta.indexed_max, 0 when it is absent
  indexDirty,     \* meta.index_dirty = '1'
  fts,            \* the committed full-text documents
  vectorFile,     \* vectors.usearch
  torn,           \* ... which is half written, and cannot be loaded
  holder,         \* who holds the full-text writer's lock
  at,             \* where each process is
  onward,         \* what the holder's flush is part of
  feed,           \* the committed chunks the holder is about to index
  staged,         \* the holder's full-text documents, committed or not
  vectors,        \* each process's vector index, in memory
  indexesDirty,   \* Engine.indexes_dirty of the holder
  lapses          \* history: see Lapses

truth == <<chunks, indexedMax, indexDirty>>
disk == <<fts, vectorFile, torn>>
memory == <<feed, staged, vectors, indexesDirty>>
vars == <<truth, disk, holder, at, onward, memory, lapses>>

(***************************************************************************)
(* What may leave the indexes incomplete without a trace on disk.          *)
(*   "copy":     the vector file was saved, or will be, from a copy that   *)
(*               was loaded before the last writer saved its own, or the   *)
(*               rows were deleted by another process than the writer      *)
(*   "rebuild":  doctor --rebuild has emptied an index, and has not ended  *)
(*   "erasure":  rows were deleted (module SpaceErasure)                   *)
(* The program keeps no such record: it is here to say exactly when the    *)
(* indexes can be trusted.                                                 *)
(***************************************************************************)
Lapses == {"copy", "rebuild", "erasure"}

(* Between load and lock; reading; the steps only the lock's holder takes. *)
Holding == {"opening", "ready", "feeding", "committing", "saving", "marking",
            "closing", "emptying", "refilling", "unflagging"}

TypeOK ==
  /\ chunks \in SUBSET Chunk
  /\ indexedMax \in Nat
  /\ indexDirty \in BOOLEAN
  /\ fts \in SUBSET Chunk
  /\ vectorFile \in SUBSET Chunk
  /\ torn \in BOOLEAN
  /\ holder \in Processes \cup {NoProcess}
  /\ at \in [Processes -> {"off", "loaded", "reading"} \cup Holding]
  /\ \A p \in Processes : at[p] \in Holding <=> p = holder
  /\ onward \in {"open", "recall", "rebuild", "close"}
  /\ feed \in SUBSET Chunk
  /\ staged \in SUBSET Chunk
  /\ vectors \in [Processes -> SUBSET Chunk]
  /\ indexesDirty \in BOOLEAN
  /\ lapses \in SUBSET Lapses

Ids(S) == {c.id : c \in S}

(* SELECT coalesce(max(id), 0) FROM chunks *)
IsMaxId(m) ==
  /\ \A c \in chunks : c.id <= m
  /\ IF chunks = {} THEN m = 0 ELSE m \in Ids(chunks)

(* FtsIndex::add replaces a document by its chunk id; VectorIndex::add     *)
(* leaves a key that is already there as it is.                            *)
Upsert(docs, rows) == {d \in docs : d.id \notin Ids(rows)} \cup rows

AddNew(entries, rows) == entries \cup {r \in rows : r.id \notin Ids(entries)}

(* The first rows of a batch, for an operation that stops half way.        *)
UpTo(rows, k) == {r \in rows : r.id <= k}

-----------------------------------------------------------------------------
Init ==
  /\ chunks = {} /\ indexedMax = 0 /\ indexDirty = FALSE
  /\ fts = {} /\ vectorFile = {} /\ torn = FALSE
  /\ holder = NoProcess
  /\ at = [p \in Processes |-> "off"]
  /\ onward = "recall"
  /\ feed = {} /\ staged = {}
  /\ vectors = [p \in Processes |-> {}]
  /\ indexesDirty = FALSE
  /\ lapses = {}

Goto(p, step) == at' = [at EXCEPT ![p] = step]

(* The process is gone, and with it its memory and its lock. *)
Gone(p) ==
  /\ Goto(p, "off")
  /\ vectors' = [vectors EXCEPT ![p] = {}]
  /\ IF holder = p
     THEN /\ holder' = NoProcess /\ onward' = "recall"
          /\ feed' = {} /\ staged' = {} /\ indexesDirty' = FALSE
     ELSE UNCHANGED <<holder, onward, feed, staged, indexesDirty>>

(***************************************************************************)
(* Engine::open_inner.  The vectors are loaded first; a file that cannot   *)
(* be loaded refuses every open but doctor --rebuild's, which drops it.    *)
(***************************************************************************)
LoadVectors(p) ==
  /\ at[p] = "off"
  /\ ~torn
  /\ vectors' = [vectors EXCEPT ![p] = vectorFile]
  /\ Goto(p, "loaded")
  /\ UNCHANGED <<truth, disk, holder, onward, feed, staged, indexesDirty, lapses>>

LoadForRepair(p) ==
  /\ at[p] = "off"
  /\ torn
  /\ torn' = FALSE
  /\ lapses' = lapses \cup {"rebuild"}
  /\ vectors' = [vectors EXCEPT ![p] = {}]
  /\ Goto(p, "loaded")
  /\ UNCHANGED <<truth, fts, vectorFile, holder, onward, feed, staged, indexesDirty>>

(* A save that stops half way: the old file is gone. *)
SaveIsCut == vectorFile' = {} /\ torn' = TRUE

(* FtsIndex::open: the first comer writes, the others read. *)
TakeLock(p) ==
  /\ at[p] = "loaded"
  /\ IF holder = NoProcess
     THEN /\ holder' = p /\ staged' = fts
          /\ lapses' = IF vectors[p] = vectorFile /\ ~torn THEN lapses
                       ELSE lapses \cup {"copy"}
          /\ Goto(p, "opening")
     ELSE /\ Goto(p, "reading")
          /\ UNCHANGED <<holder, staged, lapses>>
  /\ UNCHANGED <<truth, disk, onward, feed, vectors, indexesDirty>>

-----------------------------------------------------------------------------
(* catch_up_indexes, the last part of an open.                             *)

(* Seeded fault: the tail begins one chunk too late. *)
TailSkipsOne == {c \in chunks : c.id > indexedMax + 1}

Tail == {c \in chunks : c.id > indexedMax}

CatchUp(p) ==
  /\ at[p] = "opening"
  /\ \E m \in 0 .. MaxChunkId :
       /\ IsMaxId(m)
       /\ IF m <= indexedMax
          THEN /\ Goto(p, "ready")
               /\ UNCHANGED <<onward, staged, vectors, indexesDirty>>
          ELSE /\ staged' = Upsert(staged, Tail)
               /\ vectors' = [vectors EXCEPT ![p] = AddNew(@, Tail)]
               /\ indexesDirty' = TRUE /\ onward' = "open"
               /\ Goto(p, "committing")
  /\ UNCHANGED <<truth, disk, holder, feed, lapses>>

(* An index refuses a chunk: the open fails, and nothing was flushed. *)
CatchUpFails(p) ==
  /\ at[p] = "opening"
  /\ Tail # {}
  /\ Gone(p)
  /\ UNCHANGED <<truth, disk, lapses>>

(***************************************************************************)
(* ingest_raw: the transaction, and the feeding of the indexes after it.   *)
(* A document the space already has leaves everything as it is.            *)
(***************************************************************************)
(* Seeded fault: the ids begin at the last one in use. *)
RowsFromLast(s, d, m) ==
  {[id |-> m + k - 1, space |-> s, doc |-> d, piece |-> k] : k \in 1 .. Pieces[d]}

Rows(s, d, m) ==
  {[id |-> m + k, space |-> s, doc |-> d, piece |-> k] : k \in 1 .. Pieces[d]}

(* Seeded fault: the indexes are told before the rows are committed. *)
IngestFeedsFirst(p, s, d) ==
  /\ at[p] = "ready"
  /\ ~\E c \in chunks : c.space = s /\ c.doc = d
  /\ \E m \in 0 .. MaxChunkId :
       /\ IsMaxId(m) /\ m + Pieces[d] <= MaxChunkId
       /\ staged' = Upsert(staged, Rows(s, d, m))
       /\ vectors' = [vectors EXCEPT ![p] = AddNew(@, Rows(s, d, m))]
  /\ indexesDirty' = TRUE
  /\ Goto(p, "ready")
  /\ UNCHANGED <<truth, disk, holder, onward, feed, lapses>>

Ingest(p, s, d) ==
  /\ at[p] = "ready"
  /\ ~\E c \in chunks : c.space = s /\ c.doc = d
  /\ \E m \in 0 .. MaxChunkId :
       /\ IsMaxId(m) /\ m + Pieces[d] <= MaxChunkId
       /\ chunks' = chunks \cup Rows(s, d, m)
       /\ feed' = Rows(s, d, m)
  /\ Goto(p, "feeding")
  /\ UNCHANGED <<indexedMax, indexDirty, disk, holder, onward, staged, vectors,
                 indexesDirty, lapses>>

FeedIndexes(p) ==
  /\ at[p] = "feeding"
  /\ staged' = Upsert(staged, feed)
  /\ vectors' = [vectors EXCEPT ![p] = AddNew(@, feed)]
  /\ indexesDirty' = TRUE
  /\ feed' = {}
  /\ Goto(p, "ready")
  /\ UNCHANGED <<truth, disk, holder, onward, lapses>>

(* Seeded fault: a failed feed is not written down. *)
FeedFailsSilently(p) ==
  /\ at[p] = "feeding"
  /\ feed' = {}
  /\ Goto(p, "ready")
  /\ UNCHANGED <<truth, disk, holder, onward, staged, vectors, indexesDirty, lapses>>

(* The full-text index stops half way, or the vectors do after it.  The    *)
(* ingest succeeds all the same.                                           *)
FeedFails(p) ==
  /\ at[p] = "feeding"
  /\ \E k \in 0 .. MaxChunkId :
       \/ /\ staged' = Upsert(staged, UpTo(feed, k))
          /\ UNCHANGED vectors
       \/ /\ staged' = Upsert(staged, feed)
          /\ vectors' = [vectors EXCEPT ![p] = AddNew(@, UpTo(feed, k))]
  /\ indexDirty' = TRUE
  /\ feed' = {}
  /\ Goto(p, "ready")
  /\ UNCHANGED <<chunks, indexedMax, disk, holder, onward, indexesDirty, lapses>>

-----------------------------------------------------------------------------
(* flush_indexes: full text, vectors, and then the high-water mark.  It is *)
(* called by every recall, by an open that had chunks to catch up with, by *)
(* the doctor, and when the engine is dropped.                             *)

Recall(p) ==
  /\ at[p] = "ready"
  /\ indexesDirty
  /\ onward' = "recall"
  /\ Goto(p, "committing")
  /\ UNCHANGED <<truth, disk, holder, memory, lapses>>

(* Seeded fault: the mark moves as soon as the full text is safe. *)
CommitFtsMarks(p) ==
  /\ at[p] = "committing"
  /\ fts' = staged
  /\ \E m \in 0 .. MaxChunkId : IsMaxId(m) /\ indexedMax' = m
  /\ Goto(p, "saving")
  /\ UNCHANGED <<chunks, indexDirty, vectorFile, torn, holder, onward, memory, lapses>>

CommitFts(p) ==
  /\ at[p] = "committing"
  /\ fts' = staged
  /\ Goto(p, "saving")
  /\ UNCHANGED <<truth, vectorFile, torn, holder, onward, memory, lapses>>

SaveVectors(p) ==
  /\ at[p] = "saving"
  /\ vectorFile' = vectors[p] /\ torn' = FALSE
  /\ Goto(p, "marking")
  /\ UNCHANGED <<truth, fts, holder, onward, memory, lapses>>

Mark(p) ==
  /\ at[p] = "marking"
  /\ \E m \in 0 .. MaxChunkId : IsMaxId(m) /\ indexedMax' = m
  /\ indexesDirty' = FALSE
  /\ IF onward = "close"
     THEN Goto(p, "closing")
     ELSE Goto(p, IF onward = "rebuild" THEN "unflagging" ELSE "ready")
  /\ UNCHANGED <<chunks, indexDirty, disk, holder, onward, feed, staged, vectors, lapses>>

(* An index operation fails, and the flush with it.  A recall and a        *)
(* rebuild report it and leave the process running; an open gives up, and  *)
(* drops the engine; a drop ignores it.                                    *)
FlushFails(p) ==
  /\ \/ at[p] \in {"committing", "saving"} /\ UNCHANGED <<vectorFile, torn>>
     \/ at[p] = "saving" /\ SaveIsCut
  /\ IF onward = "close"
     THEN Gone(p)
     ELSE /\ Goto(p, IF onward = "open" THEN "closing" ELSE "ready")
          /\ UNCHANGED <<holder, onward, memory>>
  /\ UNCHANGED <<truth, fts, lapses>>

-----------------------------------------------------------------------------
(* The engine is dropped: Drop flushes what is staged, as well as it can.  *)

Close(p) ==
  /\ at[p] \in {"ready", "reading"}
  /\ IF at[p] = "reading"
     THEN Gone(p)
     ELSE Goto(p, "closing") /\ UNCHANGED <<holder, onward, memory>>
  /\ UNCHANGED <<truth, disk, lapses>>

Drop(p) ==
  /\ at[p] = "closing"
  /\ IF indexesDirty
     THEN /\ onward' = "close" /\ Goto(p, "committing")
          /\ UNCHANGED <<holder, memory>>
     ELSE Gone(p)
  /\ UNCHANGED <<truth, disk, lapses>>

(* The process dies.  A save that was under way may leave half a file. *)
Crash(p) ==
  /\ at[p] # "off"
  /\ \/ UNCHANGED <<vectorFile, torn>>
     \/ at[p] \in {"saving", "emptying"} /\ SaveIsCut
  /\ Gone(p)
  /\ UNCHANGED <<truth, fts, lapses>>

-----------------------------------------------------------------------------
(* doctor_rebuild: both indexes are emptied, on disk too, and filled again *)
(* from the chunks table.                                                  *)

WipeFts(p) ==
  /\ at[p] = "ready"
  /\ staged' = {} /\ fts' = {}
  /\ lapses' = lapses \cup {"rebuild"}
  /\ Goto(p, "emptying")
  /\ UNCHANGED <<truth, vectorFile, torn, holder, onward, feed, vectors, indexesDirty>>

(* The commit of the emptied index fails: it is empty in memory only. *)
WipeFtsFails(p) ==
  /\ at[p] = "ready"
  /\ staged' = {}
  /\ lapses' = lapses \cup {"rebuild"}
  /\ Goto(p, "ready")
  /\ UNCHANGED <<truth, disk, holder, onward, feed, vectors, indexesDirty>>

WipeVectors(p) ==
  /\ at[p] = "emptying"
  /\ vectors' = [vectors EXCEPT ![p] = {}]
  /\ vectorFile' = {} /\ torn' = FALSE
  /\ Goto(p, "refilling")
  /\ UNCHANGED <<truth, fts, holder, onward, feed, staged, indexesDirty, lapses>>

WipeVectorsFails(p) ==
  /\ at[p] = "emptying"
  /\ vectors' = [vectors EXCEPT ![p] = {}]
  /\ UNCHANGED <<vectorFile, torn>> \/ SaveIsCut
  /\ Goto(p, "ready")
  /\ UNCHANGED <<truth, fts, holder, onward, feed, staged, indexesDirty, lapses>>

(* Seeded fault: the doctor reads the chunks as the catch-up does. *)
RefillTail(p) ==
  /\ at[p] = "refilling"
  /\ staged' = Upsert(staged, Tail)
  /\ vectors' = [vectors EXCEPT ![p] = AddNew(@, Tail)]
  /\ indexesDirty' = TRUE /\ onward' = "rebuild"
  /\ Goto(p, "committing")
  /\ UNCHANGED <<truth, disk, holder, feed, lapses>>

Refill(p) ==
  /\ at[p] = "refilling"
  /\ staged' = Upsert(staged, chunks)
  /\ vectors' = [vectors EXCEPT ![p] = AddNew(@, chunks)]
  /\ indexesDirty' = TRUE /\ onward' = "rebuild"
  /\ Goto(p, "committing")
  /\ UNCHANGED <<truth, disk, holder, feed, lapses>>

(* Embedding a chunk again, or adding one, fails. *)
RefillFails(p) ==
  /\ at[p] = "refilling"
  /\ \E k \in 0 .. MaxChunkId :
       \/ /\ staged' = Upsert(staged, UpTo(chunks, k))
          /\ UNCHANGED vectors
       \/ /\ staged' = Upsert(staged, chunks)
          /\ vectors' = [vectors EXCEPT ![p] = AddNew(@, UpTo(chunks, k))]
  /\ Goto(p, "ready")
  /\ UNCHANGED <<truth, disk, holder, onward, feed, indexesDirty, lapses>>

(* A rebuild makes up for every lapse, but for a copy that another process *)
(* has saved meanwhile.                                                    *)
Unflag(p) ==
  /\ at[p] = "unflagging"
  /\ indexDirty' = FALSE
  /\ lapses' = IF vectorFile = vectors[p] THEN {} ELSE {"copy"}
  /\ Goto(p, "ready")
  /\ UNCHANGED <<chunks, indexedMax, disk, holder, onward, memory>>

-----------------------------------------------------------------------------
OpenStore(p) ==
  LoadVectors(p) \/ LoadForRepair(p) \/ TakeLock(p) \/ CatchUp(p) \/ CatchUpFails(p)

IngestStore(p) ==
  \/ \E s \in Spaces, d \in Documents : Ingest(p, s, d)
  \/ FeedIndexes(p) \/ FeedFails(p)

Flush(p) ==
  Recall(p) \/ CommitFts(p) \/ SaveVectors(p) \/ Mark(p) \/ FlushFails(p)

CloseStore(p) == Close(p) \/ Drop(p) \/ Crash(p)

Rebuild(p) ==
  \/ WipeFts(p) \/ WipeFtsFails(p) \/ WipeVectors(p) \/ WipeVectorsFails(p)
  \/ Refill(p) \/ RefillFails(p) \/ Unflag(p)

Next ==
  \E p \in Processes :
    OpenStore(p) \/ IngestStore(p) \/ Flush(p) \/ CloseStore(p) \/ Rebuild(p)

Spec == Init /\ [][Next]_vars

-----------------------------------------------------------------------------
(***************************************************************************)
(* Safety                                                                  *)
(***************************************************************************)

(* Something tells the owner that the indexes are not whole: status and    *)
(* doctor report index_dirty, and a torn file refuses to open.             *)
Loud == indexDirty \/ torn

(* The high-water mark can be trusted: a chunk at or below it is in both   *)
(* indexes on disk, wherever every process may have died.  Nothing but a   *)
(* lapse breaks this in silence.                                           *)
MarkIsDurable ==
  ~Loud /\ lapses = {} =>
    \A c \in chunks : c.id <= indexedMax => c \in fts /\ c \in vectorFile

(* A writer that has opened can find every chunk that it has not got to    *)
(* feeding yet: opening caught up with whatever earlier writers left.      *)
WriterFindsAll ==
  \A p \in Processes :
    /\ at[p] \in {"ready", "feeding", "committing", "saving", "marking", "closing"}
    /\ ~indexDirty /\ lapses = {}
    => \A c \in chunks \ feed : c \in staged /\ c \in vectors[p]

(* The indexes are never ahead of the truth: whatever they hold, on disk   *)
(* or in a process, is a stored chunk.                                     *)
TruthFirst ==
  /\ fts \subseteq chunks
  /\ vectorFile \subseteq chunks
  /\ staged \subseteq chunks
  /\ \A p \in Processes : vectors[p] \subseteq chunks

(* A rebuild that ends leaves nothing to wish for.                         *)
RebuildIsWhole ==
  [][indexDirty /\ ~indexDirty' => fts' = chunks' /\ vectorFile' = chunks']_vars

-----------------------------------------------------------------------------
(***************************************************************************)
(* What the documentation says and the code does not do                    *)
(***************************************************************************)

(* flush_indexes "advances the high-water mark only after both indexes are *)
(* durable", and what a lost flush leaves above it "is recovered by the    *)
(* catch-up reindex on the next open".  So, rebuilds aside, what is at or  *)
(* below the mark is on disk.                                              *)
MarkAfterDurable ==
  ~Loud /\ "rebuild" \notin lapses =>
    \A c \in chunks : c.id <= indexedMax => c \in fts /\ c \in vectorFile
=============================================================================
