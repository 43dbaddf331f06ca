------------------------- MODULE SpaceErasureProofs -------------------------
(***************************************************************************)
(* Proofs about the deletion of spaces, for any number of processes,       *)
(* spaces, documents and chunks: deletions may overlap each other and the  *)
(* work of the process that writes, and any process may die at any step.   *)
(***************************************************************************)
EXTENDS SpaceErasure, IndexStoreProofs

-----------------------------------------------------------------------------
(***************************************************************************)
(* The inductive invariant                                                 *)
(***************************************************************************)

(* What is said of living spaces is so; of purged ones nothing is said.    *)
Living(S) == \A c \in S : c.space \notin gone => c \in chunks
Clean(S) == \A c \in S : c.space \notin purged

(* Rows go with their space only, and for good: whatever an index, a file, *)
(* a batch or a stale copy holds of a living space is still a row.         *)
AllIsLiving ==
  /\ Living(feed) /\ Living(fts) /\ Living(staged) /\ Living(vectorFile)
  /\ \A p \in Processes : Living(vectors[p])

(* The text of a purged space is gone, whoever erased it; its vectors are  *)
(* where no other process than the writer had a part in them.              *)
TextIsClean == Clean(chunks) /\ Clean(feed) /\ Clean(fts) /\ Clean(staged)

VectorsAreClean ==
  "copy" \notin lapses =>
    /\ Clean(vectorFile)
    /\ holder # NoProcess => Clean(vectors[holder])

(* A rebuild begins with no vectors, and fills in those of the rows: it    *)
(* undoes what stale copies left.                                          *)
RebuildsClean(p) ==
  p = holder =>
    /\ at[p] = "refilling" => vectors[p] = {}
    /\ \/ at[p] = "unflagging"
       \/ at[p] \in {"committing", "saving", "marking"} /\ onward = "rebuild"
       => Clean(vectors[p])

(* How far a deletion has come, where the writer runs it.  Nobody else can *)
(* ingest, so the rows stay away; and the ids that were collected cover    *)
(* the vectors, unless another process has erased the same space between   *)
(* the check that it is alive and the collection (then "copy").            *)
ErasesInOrder(p) ==
  /\ erase[p] # Idle => at[p] \in {"ready", "reading"}
  /\ p = holder =>
       /\ erase[p].step \in {"vectors", "fts"} =>
            erase[p].space \in gone /\ \A c \in chunks : c.space # erase[p].space
       /\ "copy" \notin lapses =>
            /\ erase[p].step = "collect" => erase[p].space \notin gone
            /\ erase[p].step \in {"rows", "vectors"} =>
                 \A c \in vectors[p] : c.space = erase[p].space => c.id \in erase[p].ids
            /\ erase[p].step = "fts" =>
                 \A c \in vectors[p] \cup vectorFile : c.space # erase[p].space

ErasureInv ==
  /\ ErasureTypeOK
  /\ Unique(chunks) /\ Feeding
  /\ AllIsLiving /\ TextIsClean /\ VectorsAreClean
  /\ \A p \in Processes : RebuildsClean(p) /\ ErasesInOrder(p)

-----------------------------------------------------------------------------
(***************************************************************************)
(* The invariant holds at first                                            *)
(***************************************************************************)

(* The invariant holds of an empty store.                                  *)
LEMMA InitErasureInv == ErasureInit => ErasureInv
<1> SUFFICES ASSUME ErasureInit PROVE ErasureInv
  OBVIOUS
<1>1. ErasureTypeOK
  BY InitIInv DEF ErasureInit, ErasureTypeOK, IInv
<1>2. Unique(chunks) /\ Feeding
  BY DEF ErasureInit, Init, Unique, Feeding
<1>3. AllIsLiving /\ TextIsClean /\ VectorsAreClean
  BY DEF ErasureInit, Init, AllIsLiving, TextIsClean, VectorsAreClean, Living, Clean
<1>4. \A p \in Processes : RebuildsClean(p) /\ ErasesInOrder(p)
  BY DEF ErasureInit, Init, RebuildsClean, ErasesInOrder, Idle
<1> QED
  BY <1>1, <1>2, <1>3, <1>4 DEF ErasureInv

-----------------------------------------------------------------------------
(***************************************************************************)
(* What a process does with the store                                      *)
(***************************************************************************)

(* The steps of the store but an ingest's transaction.                     *)
Work(p) ==
  OpenStore(p) \/ FeedIndexes(p) \/ FeedFails(p) \/ Flush(p)
  \/ Close(p) \/ Drop(p) \/ Rebuild(p) \/ Crash(p)

(* The steps of the store keep the type.                                   *)
LEMMA WorkType ==
  ASSUME TypeOK, Unique(chunks), NEW p \in Processes, Work(p)
  PROVE  TypeOK'
BY OpenType, IngestType, FlushType, CloseType, RebuildType
   DEF Work, IngestStore, CloseStore

(* Replacing a document and keeping an entry bring nothing from elsewhere. *)
LEMMA NothingNew ==
  ASSUME NEW E, NEW R, NEW k
  PROVE  /\ Upsert(E, R) \subseteq E \cup R /\ AddNew(E, R) \subseteq E \cup R
         /\ UpTo(R, k) \subseteq R
         /\ Upsert(E, UpTo(R, k)) \subseteq E \cup R
         /\ AddNew(E, UpTo(R, k)) \subseteq E \cup R
BY DEF Upsert, AddNew, UpTo

(* No step brings to an index or a file what was neither a row nor a batch *)
(* of rows, nor in the indexes, the files or the process's own copy.       *)
Brings(p) ==
  /\ chunks' = chunks
  /\ feed' \subseteq feed
  /\ fts' \subseteq fts \cup staged
  /\ staged' \subseteq staged \cup fts \cup feed \cup chunks
  /\ vectorFile' \subseteq vectorFile \cup vectors[p]
  /\ vectors'[p] \subseteq vectors[p] \cup vectorFile \cup feed \cup chunks
  /\ \A q \in Processes \ {p} : vectors'[q] = vectors[q] /\ at'[q] = at[q]

(* A process that ends moves nothing to another place.                     *)
LEMMA GoneBrings ==
  ASSUME TypeOK, NEW p \in Processes, Gone(p), UNCHANGED <<truth, fts>>,
         UNCHANGED <<vectorFile, torn>> \/ SaveIsCut
  PROVE  Brings(p)
BY DEF TypeOK, Gone, Goto, truth, Brings, SaveIsCut

(* An opening moves entries from the disk to its copies.                   *)
LEMMA OpenBrings ==
  ASSUME TypeOK, NEW p \in Processes, OpenStore(p)
  PROVE  Brings(p)
<1> USE DEF truth, disk, memory, Goto, TypeOK
<1>1. CASE LoadVectors(p) \/ LoadForRepair(p)
  BY <1>1 DEF LoadVectors, LoadForRepair, Brings
<1>2. CASE TakeLock(p)
  BY <1>2 DEF TakeLock, Brings
<1>3. CASE CatchUp(p)
  <2>1. Tail \subseteq chunks
    BY DEF Tail
  <2>2. /\ Upsert(staged, Tail) \subseteq staged \cup chunks
        /\ AddNew(vectors[p], Tail) \subseteq vectors[p] \cup chunks
    BY <2>1, NothingNew
  <2> QED
    BY <1>3, <2>2 DEF CatchUp, Brings
<1>4. CASE CatchUpFails(p)
  BY <1>4, GoneBrings DEF CatchUpFails
<1> QED
  BY <1>1, <1>2, <1>3, <1>4 DEF OpenStore

(* Feeding moves a batch to the staged index and the copy.                 *)
LEMMA FeedBrings ==
  ASSUME TypeOK, NEW p \in Processes, FeedIndexes(p) \/ FeedFails(p)
  PROVE  Brings(p)
<1> USE DEF truth, disk, memory, Goto, TypeOK
<1>1. \A k : /\ Upsert(staged, feed) \subseteq staged \cup feed
             /\ AddNew(vectors[p], feed) \subseteq vectors[p] \cup feed
             /\ Upsert(staged, UpTo(feed, k)) \subseteq staged \cup feed
             /\ AddNew(vectors[p], UpTo(feed, k)) \subseteq vectors[p] \cup feed
  BY NothingNew
<1> QED
  BY <1>1 DEF FeedIndexes, FeedFails, Brings

(* A flush moves the staged index and the copy to the disk.                *)
LEMMA FlushBrings ==
  ASSUME TypeOK, NEW p \in Processes, Flush(p)
  PROVE  Brings(p)
<1> USE DEF truth, disk, memory, Goto, TypeOK
<1>1. CASE Recall(p) \/ CommitFts(p) \/ SaveVectors(p)
  BY <1>1 DEF Recall, CommitFts, SaveVectors, Brings
<1>2. CASE Mark(p)
  BY <1>2 DEF Mark, Brings
<1>3. CASE FlushFails(p)
  <2>1. CASE Gone(p)
    BY <1>3, <2>1, GoneBrings DEF FlushFails
  <2>2. CASE ~ Gone(p)
    BY <1>3, <2>2 DEF FlushFails, SaveIsCut, Brings
  <2> QED
    BY <2>1, <2>2
<1> QED
  BY <1>1, <1>2, <1>3 DEF Flush

(* However an engine ends, it moves no entry elsewhere.                    *)
LEMMA CloseBrings ==
  ASSUME TypeOK, NEW p \in Processes, Close(p) \/ Drop(p) \/ Crash(p)
  PROVE  Brings(p)
<1> USE DEF truth, disk, memory, Goto, TypeOK
<1>1. CASE Gone(p)
  BY <1>1, GoneBrings DEF Close, Drop, Crash
<1>2. CASE ~ Gone(p)
  BY <1>2 DEF Close, Drop, Crash, Brings
<1> QED
  BY <1>1, <1>2

(* A rebuild moves rows to the indexes.                                    *)
LEMMA RebuildBrings ==
  ASSUME TypeOK, NEW p \in Processes, Rebuild(p)
  PROVE  Brings(p)
<1> USE DEF truth, disk, memory, Goto, TypeOK
<1>1. CASE WipeFts(p) \/ WipeFtsFails(p) \/ WipeVectors(p) \/ Unflag(p)
  BY <1>1 DEF WipeFts, WipeFtsFails, WipeVectors, Unflag, Brings
<1>2. CASE WipeVectorsFails(p)
  BY <1>2 DEF WipeVectorsFails, SaveIsCut, Brings
<1>3. CASE Refill(p) \/ RefillFails(p)
  <2>1. \A k : /\ Upsert(staged, chunks) \subseteq staged \cup chunks
               /\ AddNew(vectors[p], chunks) \subseteq vectors[p] \cup chunks
               /\ Upsert(staged, UpTo(chunks, k)) \subseteq staged \cup chunks
               /\ AddNew(vectors[p], UpTo(chunks, k)) \subseteq vectors[p] \cup chunks
    BY NothingNew
  <2> QED
    BY <1>3, <2>1 DEF Refill, RefillFails, Brings
<1> QED
  BY <1>1, <1>2, <1>3 DEF Rebuild

(* No step of the store makes an entry out of nothing.                     *)
LEMMA WorkBrings ==
  ASSUME TypeOK, NEW p \in Processes, Work(p)
  PROVE  Brings(p)
BY OpenBrings, FeedBrings, FlushBrings, CloseBrings, RebuildBrings DEF Work

(* So the living stay living and the text of the purged stays away.        *)
LEMMA WorkKeepsText ==
  ASSUME ErasureInv, NEW p \in Processes, Brings(p), UNCHANGED <<gone, purged>>
  PROVE  AllIsLiving' /\ TextIsClean'
<1>1. AllIsLiving'
  BY DEF ErasureInv, AllIsLiving, Living, Brings
<1>2. TextIsClean'
  BY DEF ErasureInv, TextIsClean, Clean, Brings
<1> QED
  BY <1>1, <1>2

-----------------------------------------------------------------------------
(***************************************************************************)
(* Where the lock's holder is, and what it has                             *)
(***************************************************************************)

(* A process without the lock leaves the holder and its files alone, or    *)
(* takes the lock where nobody has it.                                     *)
Stands(p) ==
  /\ UNCHANGED <<vectorFile, onward, feed>> /\ lapses \subseteq lapses'
  /\ \/ holder' = holder
     \/ /\ holder = NoProcess /\ holder' = p /\ vectors' = vectors
        /\ at'[p] = "opening"
        /\ "copy" \notin lapses' => "copy" \notin lapses /\ vectors[p] = vectorFile

(* A process without the lock leaves the disk alone.                       *)
LEMMA BystanderStands ==
  ASSUME TypeOK, NEW p \in Processes, p # holder, Work(p)
  PROVE  Stands(p)
<1> USE DEF truth, disk, memory, Goto, Stands
<1>1. at[p] \in {"off", "loaded", "reading"}
  BY DEF TypeOK
<1>2. at[p] \notin Holding
  BY DEF TypeOK
<1>3. CASE LoadVectors(p) \/ LoadForRepair(p)
  BY <1>3 DEF LoadVectors, LoadForRepair
<1>4. CASE TakeLock(p)
  BY <1>4 DEF TakeLock, TypeOK
<1>5. CASE Close(p) \/ Crash(p)
  BY <1>1, <1>5 DEF Close, Crash, Gone, SaveIsCut
<1> QED
  BY <1>1, <1>2, <1>3, <1>4, <1>5
     DEF Work, OpenStore, CatchUp, CatchUpFails, FeedIndexes, FeedFails, Flush, Recall,
         CommitFts, SaveVectors, Mark, FlushFails, Drop, Rebuild, WipeFts, WipeFtsFails,
         WipeVectors, WipeVectorsFails, Refill, RefillFails, Unflag, Holding

(* The holder keeps the lock or ends, and no lapse is forgotten but by a   *)
(* rebuild whose vectors are those on disk.                                *)
Holds(p) ==
  /\ holder' \in {p, NoProcess}
  /\ \/ lapses \subseteq lapses'
     \/ /\ at[p] = "unflagging" /\ at'[p] = "ready"
        /\ UNCHANGED <<vectorFile, vectors, holder>>
        /\ "copy" \notin lapses' => vectorFile = vectors[p]

(* The holder of the file lock keeps it or gives it up, and a rebuild is    *)
(* the only step of the holder that forgets a lapse.                       *)
LEMMA HolderHolds ==
  ASSUME TypeOK, NEW p \in Processes, p = holder, Work(p)
  PROVE  Holds(p)
<1> USE DEF truth, disk, memory, Goto, Holds
<1>1. at[p] \notin {"off", "loaded"}
  BY DEF TypeOK, Holding
<1>2. CASE CatchUp(p) \/ CatchUpFails(p) \/ FeedIndexes(p) \/ FeedFails(p)
  BY <1>2 DEF CatchUp, CatchUpFails, FeedIndexes, FeedFails, Gone
<1>3. CASE Flush(p)
  BY <1>3 DEF Flush, Recall, CommitFts, SaveVectors, Mark, FlushFails, Gone
<1>4. CASE Close(p) \/ Drop(p) \/ Crash(p)
  BY <1>4 DEF Close, Drop, Crash, Gone
<1>5. CASE Unflag(p)
  BY <1>5 DEF Unflag, TypeOK
<1>6. CASE Rebuild(p) /\ ~ Unflag(p)
  BY <1>6 DEF Rebuild, WipeFts, WipeFtsFails, WipeVectors, WipeVectorsFails, Refill,
              RefillFails
<1> QED
  BY <1>1, <1>2, <1>3, <1>4, <1>5, <1>6 DEF Work, OpenStore, LoadVectors, LoadForRepair, TakeLock

(* A batch is fed before anything else is done.                            *)
LEMMA WorkFeeding ==
  ASSUME TypeOK, Feeding, NEW p \in Processes, Work(p)
  PROVE  Feeding'
<1> USE DEF truth, disk, memory, Goto, Feeding
<1>1. CASE p # holder
  <2>1. Stands(p) /\ Brings(p)
    BY <1>1, BystanderStands, WorkBrings
  <2> QED
    BY <1>1, <2>1, StoreAssumption DEF Stands, Brings, TypeOK
<1>2. CASE p = holder /\ at[p] # "feeding"
  <2>1. feed' = {}
    BY <1>2, WorkBrings DEF Brings
  <2> QED
    BY <2>1
<1>3. CASE p = holder /\ at[p] = "feeding"
  <2>1. FeedIndexes(p) \/ FeedFails(p) \/ Crash(p)
    BY <1>3 DEF Work, OpenStore, LoadVectors, LoadForRepair, TakeLock, CatchUp, CatchUpFails,
                Flush, Recall, CommitFts, SaveVectors, Mark, FlushFails, Close, Drop, Rebuild,
                WipeFts, WipeFtsFails, WipeVectors, WipeVectorsFails, Refill, RefillFails, Unflag
  <2> QED
    BY <1>3, <2>1 DEF FeedIndexes, FeedFails, Crash, Gone
<1> QED
  BY <1>1, <1>2, <1>3

(* A rebuild's steps come after each other, and only rows are filled in.   *)
LEMMA HolderRebuildsClean ==
  ASSUME ErasureInv, NEW p \in Processes, p = holder, Work(p), UNCHANGED purged
  PROVE  RebuildsClean(p)'
<1> USE DEF truth, disk, memory, Goto, RebuildsClean
<1>1. TypeOK /\ RebuildsClean(p) /\ Clean(chunks)
  BY DEF ErasureInv, ErasureTypeOK, TextIsClean
<1>2. CASE CatchUp(p) \/ CatchUpFails(p) \/ FeedIndexes(p) \/ FeedFails(p)
  BY <1>1, <1>2, StoreAssumption DEF TypeOK, CatchUp, CatchUpFails, FeedIndexes, FeedFails, Gone
<1>3. CASE Flush(p)
  BY <1>1, <1>3, StoreAssumption
     DEF TypeOK, Flush, Recall, CommitFts, SaveVectors, Mark, FlushFails, Gone, Clean
<1>4. CASE Close(p) \/ Drop(p) \/ Crash(p)
  BY <1>1, <1>4, StoreAssumption DEF TypeOK, Close, Drop, Crash, Gone
<1>5. CASE Refill(p)
  <2>1. vectors[p] = {} /\ vectors'[p] = AddNew(vectors[p], chunks)
    BY <1>1, <1>5 DEF TypeOK, Refill
  <2>2. vectors'[p] \subseteq chunks
    BY <2>1 DEF AddNew
  <2>3. at'[p] = "committing"
    BY <1>1, <1>5 DEF TypeOK, Refill
  <2>4. Clean(vectors[p])'
    BY <1>1, <2>2 DEF Clean
  <2> QED
    BY <2>3, <2>4
<1>6. CASE Rebuild(p) /\ ~ Refill(p)
  BY <1>1, <1>6 DEF TypeOK, Rebuild, WipeFts, WipeFtsFails, WipeVectors, WipeVectorsFails,
                    RefillFails, Unflag
<1>7. at[p] \notin {"off", "loaded"}
  BY <1>1 DEF TypeOK, Holding
<1> QED
  BY <1>2, <1>3, <1>4, <1>5, <1>6, <1>7
     DEF Work, OpenStore, LoadVectors, LoadForRepair, TakeLock

(* A rebuild stays clean through the steps of the store.                   *)
LEMMA WorkRebuildsClean ==
  ASSUME ErasureInv, NEW p \in Processes, Work(p), UNCHANGED purged, NEW q \in Processes
  PROVE  RebuildsClean(q)'
<1> USE DEF RebuildsClean
<1>1. TypeOK /\ RebuildsClean(q) /\ Brings(p)
  BY WorkBrings DEF ErasureInv, ErasureTypeOK
<1>2. CASE p = holder /\ q = p
  BY <1>2, HolderRebuildsClean
<1>3. CASE p = holder /\ q # p
  BY <1>1, <1>3, HolderHolds, StoreAssumption DEF Holds
<1>4. CASE p # holder
  <2>1. Stands(p)
    BY <1>1, <1>4, BystanderStands
  <2>2. CASE holder' = holder
    <3>1. CASE q = holder
      BY <1>1, <1>4, <2>1, <2>2, <3>1 DEF Stands, Brings, Clean
    <3> QED
      BY <2>2, <3>1
  <2>3. CASE holder' # holder
    BY <2>1, <2>3 DEF Stands
  <2> QED
    BY <2>2, <2>3
<1> QED
  BY <1>2, <1>3, <1>4

(* What the writer has of vectors, and what it saves, is clean as long as  *)
(* no other process has a part in them.                                    *)
LEMMA WorkVectorsClean ==
  ASSUME ErasureInv, NEW p \in Processes, Work(p), UNCHANGED purged
  PROVE  VectorsAreClean'
<1> SUFFICES ASSUME "copy" \notin lapses'
             PROVE  /\ Clean(vectorFile)'
                    /\ holder' # NoProcess => Clean(vectors[holder])'
  BY DEF VectorsAreClean
<1> USE DEF Clean
<1>1. TypeOK /\ VectorsAreClean /\ Brings(p) /\ RebuildsClean(p) /\ TextIsClean
  BY WorkBrings DEF ErasureInv, ErasureTypeOK
<1>2. CASE p = holder
  <2>1. Holds(p)
    BY <1>1, <1>2, HolderHolds
  <2>2. CASE lapses \subseteq lapses'
    <3>1. Clean(vectorFile) /\ Clean(vectors[p])
      BY <1>1, <1>2, <2>2, StoreAssumption DEF VectorsAreClean
    <3> QED
      BY <1>1, <2>1, <3>1 DEF Holds, Brings, TextIsClean
  <2>3. CASE ~ (lapses \subseteq lapses')
    BY <1>1, <1>2, <2>1, <2>3 DEF Holds, RebuildsClean
  <2> QED
    BY <2>2, <2>3
<1>3. CASE p # holder
  <2>1. Stands(p)
    BY <1>1, <1>3, BystanderStands
  <2>2. Clean(vectorFile) /\ (holder # NoProcess => Clean(vectors[holder]))
    BY <1>1, <2>1 DEF Stands, VectorsAreClean
  <2>3. CASE holder' = holder
    BY <1>1, <1>3, <2>1, <2>2, <2>3 DEF Stands, Brings, TypeOK
  <2>4. CASE holder' # holder
    BY <2>1, <2>2, <2>4 DEF Stands
  <2> QED
    BY <2>3, <2>4
<1> QED
  BY <1>2, <1>3

(* A deletion goes on through whatever the other processes do, and ends    *)
(* with its own.                                                           *)
LEMMA WorkErasesInOrder ==
  ASSUME ErasureInv, NEW p \in Processes, StoreStep(p), NEW q \in Processes
  PROVE  ErasesInOrder(q)'
<1>1. /\ TypeOK /\ ErasesInOrder(q) /\ Work(p) /\ Brings(p)
      /\ erase \in [Processes -> Erase \cup {Idle}]
  BY WorkBrings DEF ErasureInv, ErasureTypeOK, StoreStep, Work
<1>2. CASE q = p
  <2>1. at' = [at EXCEPT ![p] = "off"] \/ ~ Crash(p)
    BY DEF Crash, Gone, Goto
  <2>2. erase'[p] = Idle
    BY <1>1, <2>1 DEF StoreStep, Idles, TypeOK
  <2> QED
    BY <1>2, <2>2 DEF ErasesInOrder, Idle
<1>3. CASE q # p
  <2>1. erase'[q] = erase[q] /\ gone' = gone
    BY <1>1, <1>3 DEF StoreStep
  <2>2. at'[q] = at[q] /\ vectors'[q] = vectors[q] /\ chunks' = chunks
    BY <1>1, <1>3 DEF Brings
  <2>3. CASE p = holder
    <3>1. q # holder'
      BY <1>1, <1>3, <2>3, HolderHolds, StoreAssumption DEF Holds
    <3> QED
      BY <1>1, <2>1, <2>2, <3>1 DEF ErasesInOrder
  <2>4. CASE p # holder
    <3>1. Stands(p)
      BY <1>1, <2>4, BystanderStands
    <3>2. CASE q = holder'
      <4>1. q = holder
        BY <1>3, <3>1, <3>2 DEF Stands
      <4>2. vectorFile' = vectorFile /\ ("copy" \notin lapses' => "copy" \notin lapses)
        BY <3>1 DEF Stands
      <4> QED
        BY <1>1, <2>1, <2>2, <4>1, <4>2 DEF ErasesInOrder
    <3>3. CASE q # holder'
      BY <1>1, <2>1, <2>2, <3>3 DEF ErasesInOrder
    <3> QED
      BY <3>2, <3>3
  <2> QED
    BY <2>3, <2>4
<1> QED
  BY <1>2, <1>3

(* The steps of the store keep the invariant.                              *)
LEMMA StoreStepKeeps ==
  ASSUME ErasureInv, NEW p \in Processes, StoreStep(p)
  PROVE  ErasureInv'
<1>1. Work(p) /\ UNCHANGED <<gone, purged>>
  BY DEF StoreStep, Work
<1>2. TypeOK /\ Unique(chunks) /\ Feeding
  BY DEF ErasureInv, ErasureTypeOK
<1>3. ErasureTypeOK'
  <2>1. TypeOK'
    BY <1>1, <1>2, WorkType
  <2> QED
    BY <1>1, <2>1 DEF ErasureInv, ErasureTypeOK, StoreStep
<1>4. Unique(chunks)'
  BY <1>1, <1>2, WorkBrings DEF Brings, Unique
<1>5. AllIsLiving' /\ TextIsClean'
  BY <1>1, <1>2, WorkBrings, WorkKeepsText
<1>6. VectorsAreClean' /\ \A q \in Processes : RebuildsClean(q)'
  BY <1>1, WorkVectorsClean, WorkRebuildsClean
<1>7. \A q \in Processes : ErasesInOrder(q)'
  BY WorkErasesInOrder
<1> QED
  BY <1>1, <1>2, <1>3, <1>4, <1>5, <1>6, <1>7, WorkFeeding DEF ErasureInv

-----------------------------------------------------------------------------
(***************************************************************************)
(* An ingest into a space                                                  *)
(***************************************************************************)

(* An ingest into a space that lives keeps the invariant.                  *)
LEMMA IngestKeeps ==
  ASSUME ErasureInv, NEW p \in Processes, NEW s \in Spaces, NEW d \in Documents,
         IngestInto(p, s, d)
  PROVE  ErasureInv'
<1> USE DEF truth, disk, memory, Goto
<1>1. /\ TypeOK /\ Unique(chunks) /\ Feeding
      /\ Ingest(p, s, d) /\ purged' = purged \ {s} /\ UNCHANGED <<gone, handles, erase>>
  BY DEF ErasureInv, ErasureTypeOK, IngestInto
<1>2. p = holder /\ p # NoProcess /\ at[p] = "ready" /\ erase[p] = Idle
  BY <1>1, StoreAssumption DEF TypeOK, Ingest, Holding, IngestInto, Idles
<1>3. PICK m \in 0 .. MaxChunkId :
        /\ IsMaxId(m) /\ m + Pieces[d] <= MaxChunkId
        /\ chunks' = chunks \cup Rows(s, d, m)
        /\ feed' = Rows(s, d, m)
  BY <1>1 DEF Ingest
<1>4. /\ at' = [at EXCEPT ![p] = "feeding"]
      /\ UNCHANGED <<fts, vectorFile, holder, onward, staged, vectors, lapses>>
  BY <1>1 DEF Ingest
<1>5. ErasureTypeOK'
  <2>1. TypeOK'
    BY <1>1, IngestType DEF IngestStore
  <2> QED
    BY <1>1, <2>1 DEF ErasureInv, ErasureTypeOK
<1>6. Unique(chunks)'
  BY <1>1, <1>3, NewRows DEF Unique
<1>7. Feeding'
  BY <1>1, <1>2, <1>4 DEF TypeOK, Feeding
<1>8. AllIsLiving'
  BY <1>1, <1>3, <1>4 DEF ErasureInv, AllIsLiving, Living
<1>9. TextIsClean' /\ VectorsAreClean'
  <2>1. \A r \in Rows(s, d, m) : r.space = s
    BY DEF Rows
  <2> QED
    BY <1>1, <1>3, <1>4, <2>1 DEF ErasureInv, TextIsClean, VectorsAreClean, Clean
<1>10. ASSUME NEW q \in Processes
       PROVE  RebuildsClean(q)' /\ ErasesInOrder(q)'
  <2>1. RebuildsClean(q) /\ ErasesInOrder(q)
    BY DEF ErasureInv
  <2>2. CASE q = p
    BY <1>1, <1>2, <1>4, <2>2 DEF TypeOK, RebuildsClean, ErasesInOrder, Idle
  <2>3. CASE q # p
    BY <1>1, <1>2, <1>4, <2>1, <2>3 DEF TypeOK, RebuildsClean, ErasesInOrder
  <2> QED
    BY <2>2, <2>3
<1> QED
  BY <1>5, <1>6, <1>7, <1>8, <1>9, <1>10 DEF ErasureInv

-----------------------------------------------------------------------------
(***************************************************************************)
(* A deletion                                                              *)
(***************************************************************************)

(* A process that erases is at rest otherwise.                             *)
LEMMA EraserAtRest ==
  ASSUME ErasureInv, NEW p \in Processes, erase[p] # Idle
  PROVE  /\ erase[p] \in Erase /\ erase[p].space \in Spaces
         /\ at[p] \in {"ready", "reading"} /\ (p = holder <=> at[p] = "ready")
         /\ p = holder => feed = {}
<1>1. erase[p] \in Erase
  BY DEF ErasureInv, ErasureTypeOK
<1>2. at[p] \in {"ready", "reading"} /\ (p = holder <=> at[p] = "ready")
  BY DEF ErasureInv, ErasureTypeOK, TypeOK, ErasesInOrder, Holding
<1> QED
  BY <1>1, <1>2 DEF Erase, ErasureInv, Feeding

(* An idle process erases nothing.                                         *)
LEMMA IdleHasNoStep ==
  ASSUME NEW p, erase[p].step \in {"collect", "rows", "vectors", "fts"}
  PROVE  erase[p] # Idle
BY DEF Idle

(* A space that is resolved lives.                                         *)
LEMMA ResolveKeeps ==
  ASSUME ErasureInv, NEW p \in Processes, NEW s \in Spaces, Resolve(p, s)
  PROVE  ErasureInv'
<1>1. UNCHANGED <<vars, gone, erase, purged>>
  BY DEF Resolve
<1>2. ErasureTypeOK'
  BY <1>1 DEF Resolve, ErasureInv, ErasureTypeOK, TypeOK, vars, truth, disk, memory
<1> QED
  BY <1>1, <1>2 DEF ErasureInv, vars, truth, disk, memory, Unique, Feeding, AllIsLiving, Living,
       TextIsClean, VectorsAreClean, Clean, RebuildsClean, ErasesInOrder

(* The steps that only move a deletion on.                                 *)
LEMMA CollectKeeps ==
  ASSUME ErasureInv, NEW p \in Processes,
         CollectIds(p) \/ \E s \in Spaces : BeginErase(p, s)
  PROVE  ErasureInv'
<1>1. UNCHANGED <<vars, gone, handles, purged>>
  BY DEF BeginErase, CollectIds
<1>2. ErasureTypeOK /\ AllIsLiving
  BY DEF ErasureInv
<1>3. TypeOK' /\ gone' \in SUBSET Spaces /\ purged' \in SUBSET gone'
      /\ handles' \in [Processes -> SUBSET Spaces]
  BY <1>1, <1>2 DEF ErasureTypeOK, TypeOK, vars, truth, disk, memory
<1>4. /\ Unique(chunks)' /\ Feeding' /\ AllIsLiving' /\ TextIsClean' /\ VectorsAreClean'
      /\ \A q \in Processes : RebuildsClean(q)'
  BY <1>1 DEF ErasureInv, vars, truth, disk, memory, Unique, Feeding, AllIsLiving, Living,
       TextIsClean, VectorsAreClean, Clean, RebuildsClean
<1>5. ASSUME NEW e \in Erase, erase' = [erase EXCEPT ![p] = e],
             at[p] \in {"ready", "reading"},
             \/ e.step = "collect" /\ e.space \notin gone
             \/ e.step = "rows" /\ (p = holder /\ "copy" \notin lapses =>
                  \A c \in vectors[p] : c.space = e.space => c.id \in e.ids)
      PROVE  ErasureInv'
  <2>1. ErasureTypeOK'
    BY <1>2, <1>3, <1>5 DEF ErasureTypeOK
  <2>2. ASSUME NEW q \in Processes
        PROVE  ErasesInOrder(q)'
    <3>1. ErasesInOrder(q)
      BY DEF ErasureInv
    <3>2. erase'[q] = IF q = p THEN e ELSE erase[q]
      BY <1>2, <1>5 DEF ErasureTypeOK
    <3>3. CASE q = p
      BY <1>1, <1>5, <3>2, <3>3 DEF ErasesInOrder, vars, truth, disk, memory
    <3>4. CASE q # p
      BY <1>1, <3>1, <3>2, <3>4 DEF ErasesInOrder, vars, truth, disk, memory
    <3> QED
      BY <3>3, <3>4
  <2> QED
    BY <1>4, <2>1, <2>2 DEF ErasureInv
<1>6. ASSUME NEW s \in Spaces, BeginErase(p, s)
      PROVE  ErasureInv'
  <2> DEFINE e == [step |-> "collect", space |-> s, ids |-> {}]
  <2>1. e \in Erase /\ e.step = "collect" /\ e.space \notin gone
    BY <1>6 DEF Erase, BeginErase
  <2>2. erase' = [erase EXCEPT ![p] = e] /\ at[p] \in {"ready", "reading"}
    BY <1>6 DEF BeginErase
  <2> HIDE DEF e
  <2> QED
    BY <1>5, <2>1, <2>2
<1>7. CASE CollectIds(p)
  <2> DEFINE found == Ids({c \in chunks : c.space = erase[p].space})
             e == [erase[p] EXCEPT !.step = "rows", !.ids = found]
  <2>1. erase[p].step = "collect"
    BY <1>7 DEF CollectIds
  <2>2. /\ erase[p] \in Erase /\ erase[p].space \in Spaces
        /\ at[p] \in {"ready", "reading"}
    BY <2>1, IdleHasNoStep, EraserAtRest
  <2>3. found \in SUBSET (1 .. MaxChunkId)
    BY <1>2 DEF ErasureTypeOK, TypeOK, Chunk, Ids
  <2>4. ASSUME p = holder, "copy" \notin lapses,
               NEW c \in vectors[p], c.space = erase[p].space
        PROVE  c.id \in found
    <3>1. c.space \notin gone
      BY <2>1, <2>4 DEF ErasureInv, ErasesInOrder
    <3>2. c \in chunks
      BY <1>2, <2>4, <3>1 DEF AllIsLiving, Living
    <3> QED
      BY <2>4, <3>2 DEF Ids
  <2>5. erase' = [erase EXCEPT ![p].step = "rows", ![p].ids = found]
    BY <1>7 DEF CollectIds
  <2> HIDE DEF found
  <2>6. /\ erase' = [erase EXCEPT ![p] = e]
        /\ e = [erase[p] EXCEPT !.step = "rows", !.ids = found]
    BY <2>5
  <2> HIDE DEF e
  <2>7. e \in Erase /\ e.step = "rows" /\ e.space = erase[p].space /\ e.ids = found
    BY <2>2, <2>3, <2>6 DEF Erase
  <2>8. p = holder /\ "copy" \notin lapses =>
          \A c \in vectors[p] : c.space = e.space => c.id \in e.ids
    BY <2>4, <2>7
  <2> QED
    BY <1>5, <2>2, <2>6, <2>7, <2>8
<1> QED
  BY <1>6, <1>7

(* A deletion moves on, or is over.                                        *)
LEMMA MovesOn ==
  ASSUME ErasureTypeOK, NEW p \in Processes, erase[p] \in Erase,
         NEW step \in {"vectors", "fts"}, erase' = [erase EXCEPT ![p].step = step]
  PROVE  /\ erase' \in [Processes -> Erase \cup {Idle}]
         /\ erase'[p] # Idle /\ erase'[p].step = step
         /\ erase'[p].space = erase[p].space /\ erase'[p].ids = erase[p].ids
         /\ \A q \in Processes \ {p} : erase'[q] = erase[q]
<1>1. PICK e : e = [erase[p] EXCEPT !.step = step]
  OBVIOUS
<1>2. /\ e \in Erase /\ e.step = step
      /\ e.space = erase[p].space /\ e.ids = erase[p].ids
  BY <1>1 DEF Erase
<1>3. erase' = [erase EXCEPT ![p] = e]
  BY <1>1
<1> QED
  BY <1>2, <1>3, IdleHasNoStep DEF ErasureTypeOK, Idle

(* A deletion that is over leaves the other processes' alone.              *)
LEMMA IsOver ==
  ASSUME ErasureTypeOK, NEW p \in Processes, erase' = [erase EXCEPT ![p] = Idle]
  PROVE  /\ erase' \in [Processes -> Erase \cup {Idle}]
         /\ erase'[p] = Idle
         /\ \A q \in Processes \ {p} : erase'[q] = erase[q]
BY DEF ErasureTypeOK

(* The rows go.  What the indexes hold of them is now of a space that is   *)
(* gone; and who is not the writer leaves a lapse.                         *)
LEMMA EraseRowsKeeps ==
  ASSUME ErasureInv, NEW p \in Processes, EraseRows(p)
  PROVE  ErasureInv'
<1> USE DEF disk, memory
<1>1. /\ ErasureTypeOK /\ AllIsLiving /\ TextIsClean /\ VectorsAreClean
      /\ Unique(chunks) /\ Feeding
  BY DEF ErasureInv
<1>2. /\ erase[p].step = "rows" /\ erase' = [erase EXCEPT ![p].step = "vectors"]
      /\ chunks' = {c \in chunks : c.space # erase[p].space}
      /\ gone' = gone \cup {erase[p].space}
      /\ lapses' = lapses \cup {"erasure"} \cup (IF p = holder THEN {} ELSE {"copy"})
      /\ UNCHANGED <<indexedMax, indexDirty, disk, holder, at, onward, memory, purged>>
  BY DEF EraseRows
<1>3. /\ erase[p] \in Erase /\ erase[p].space \in Spaces
      /\ at[p] \in {"ready", "reading"}
  BY <1>2, IdleHasNoStep, EraserAtRest
<1>4. /\ erase' \in [Processes -> Erase \cup {Idle}]
      /\ erase'[p] # Idle /\ erase'[p].step = "vectors"
      /\ erase'[p].space = erase[p].space /\ erase'[p].ids = erase[p].ids
      /\ \A q \in Processes \ {p} : erase'[q] = erase[q]
  BY <1>1, <1>2, <1>3, MovesOn
<1>5. ErasureTypeOK'
  <2>1. TypeOK'
    BY <1>1, <1>2 DEF ErasureTypeOK, TypeOK, Lapses
  <2>2. /\ gone' \in SUBSET Spaces /\ purged' \in SUBSET gone'
        /\ handles' \in [Processes -> SUBSET Spaces]
    BY <1>1, <1>2, <1>3 DEF ErasureTypeOK, EraseRows
  <2> QED
    BY <1>4, <2>1, <2>2 DEF ErasureTypeOK
<1>6. Unique(chunks)' /\ Feeding'
  BY <1>1, <1>2 DEF Unique, Feeding
<1>7. AllIsLiving'
  BY <1>1, <1>2 DEF AllIsLiving, Living
<1>8. TextIsClean' /\ VectorsAreClean'
  BY <1>1, <1>2 DEF TextIsClean, VectorsAreClean, Clean
<1>9. ASSUME NEW q \in Processes
      PROVE  RebuildsClean(q)' /\ ErasesInOrder(q)'
  <2>1. RebuildsClean(q) /\ ErasesInOrder(q)
    BY DEF ErasureInv
  <2>2. RebuildsClean(q)'
    BY <1>2, <2>1 DEF RebuildsClean, Clean
  <2>3. CASE q = p
    <3>1. p = holder /\ "copy" \notin lapses' =>
            \A c \in vectors[p] : c.space = erase[p].space => c.id \in erase[p].ids
      BY <1>2, <2>1, <2>3 DEF ErasesInOrder
    <3> QED
      BY <1>2, <1>3, <1>4, <2>2, <2>3, <3>1 DEF ErasesInOrder
  <2>4. CASE q # p
    <3>1. erase'[q] = erase[q]
      BY <1>4, <2>4
    <3>2. q = holder => "copy" \in lapses'
      BY <1>2, <2>4
    <3> QED
      BY <1>2, <2>1, <2>2, <3>1, <3>2 DEF ErasesInOrder
  <2> QED
    BY <2>2, <2>3, <2>4
<1> QED
  BY <1>5, <1>6, <1>7, <1>8, <1>9 DEF ErasureInv

(* The vectors go from this process's copy, and the copy is saved.         *)
LEMMA EraseVectorsKeeps ==
  ASSUME ErasureInv, NEW p \in Processes, EraseVectors(p)
  PROVE  ErasureInv'
<1> USE DEF truth
<1>1. /\ ErasureTypeOK /\ AllIsLiving /\ TextIsClean /\ VectorsAreClean
      /\ Unique(chunks) /\ Feeding
  BY DEF ErasureInv
<1>2. /\ erase[p].step = "vectors"
      /\ vectors' = [vectors EXCEPT ![p] = {e \in @ : e.id \notin erase[p].ids}]
      /\ lapses' = IF p = holder THEN lapses ELSE lapses \cup {"copy"}
      /\ UNCHANGED <<truth, fts, holder, at, onward, feed, staged, indexesDirty,
                     gone, handles, purged>>
  BY DEF EraseVectors
<1>3. /\ erase[p] \in Erase /\ erase[p].space \in Spaces
      /\ at[p] \in {"ready", "reading"}
  BY <1>2, IdleHasNoStep, EraserAtRest
<1>4. /\ vectors' \in [Processes -> SUBSET Chunk]
      /\ vectors'[p] = {e \in vectors[p] : e.id \notin erase[p].ids}
      /\ \A q \in Processes \ {p} : vectors'[q] = vectors[q]
  BY <1>1, <1>2 DEF ErasureTypeOK, TypeOK
<1>5. /\ vectorFile' \in {vectors'[p], vectorFile, {}} /\ torn' \in BOOLEAN
      /\ \/ vectorFile' = vectors'[p] /\ erase' = [erase EXCEPT ![p].step = "fts"]
         \/ erase' = [erase EXCEPT ![p] = Idle]
  BY <1>1 DEF EraseVectors, SaveIsCut, ErasureTypeOK, TypeOK
<1>6. /\ erase' \in [Processes -> Erase \cup {Idle}]
      /\ \A q \in Processes \ {p} : erase'[q] = erase[q]
      /\ \/ /\ vectorFile' = vectors'[p]
            /\ erase'[p].step = "fts" /\ erase'[p].space = erase[p].space
         \/ erase'[p] = Idle
  BY <1>1, <1>3, <1>5, MovesOn, IsOver
<1>7. ErasureTypeOK'
  <2>1. TypeOK'
    BY <1>1, <1>2, <1>4, <1>5 DEF ErasureTypeOK, TypeOK, Lapses
  <2> QED
    BY <1>1, <1>2, <1>6, <2>1 DEF ErasureTypeOK
<1>8. Unique(chunks)' /\ Feeding'
  BY <1>1, <1>2 DEF Unique, Feeding
<1>9. AllIsLiving'
  BY <1>1, <1>2, <1>4, <1>5 DEF AllIsLiving, Living
<1>10. TextIsClean' /\ VectorsAreClean'
  <2>1. TextIsClean'
    BY <1>1, <1>2 DEF TextIsClean, Clean
  <2>2. ASSUME "copy" \notin lapses'
        PROVE  (Clean(vectorFile) /\ (holder # NoProcess => Clean(vectors[holder])))'
    <3>1. p = holder /\ "copy" \notin lapses
      BY <1>2, <2>2
    <3>2. Clean(vectorFile) /\ Clean(vectors[p])
      BY <1>1, <3>1, StoreAssumption DEF VectorsAreClean
    <3> QED
      BY <1>2, <1>4, <1>5, <3>1, <3>2 DEF Clean
  <2> QED
    BY <2>1, <2>2 DEF VectorsAreClean
<1>11. ASSUME NEW q \in Processes
       PROVE  RebuildsClean(q)' /\ ErasesInOrder(q)'
  <2>1. RebuildsClean(q) /\ ErasesInOrder(q)
    BY DEF ErasureInv
  <2>2. RebuildsClean(q)'
    BY <1>2, <1>4, <2>1 DEF RebuildsClean, Clean
  <2>3. CASE q = p
    <3>1. CASE erase'[p] = Idle
      BY <2>2, <2>3, <3>1 DEF ErasesInOrder, Idle
    <3>2. CASE erase'[p] # Idle
      <4>1. /\ vectorFile' = vectors'[p]
            /\ erase'[p].step = "fts" /\ erase'[p].space = erase[p].space
        BY <1>6, <3>2
      <4>2. p = holder => erase[p].space \in gone /\ \A c \in chunks : c.space # erase[p].space
        BY <1>2, <2>1, <2>3 DEF ErasesInOrder
      <4>3. p = holder /\ "copy" \notin lapses => \A c \in vectors'[p] : c.space # erase[p].space
        BY <1>2, <1>4, <2>1, <2>3 DEF ErasesInOrder
      <4> QED
        BY <1>2, <1>3, <2>2, <2>3, <4>1, <4>2, <4>3 DEF ErasesInOrder
    <3> QED
      BY <3>1, <3>2
  <2>4. CASE q # p
    <3>1. erase'[q] = erase[q] /\ vectors'[q] = vectors[q]
      BY <1>4, <1>6, <2>4
    <3>2. q = holder => "copy" \in lapses'
      BY <1>2, <2>4
    <3> QED
      BY <1>2, <2>1, <2>2, <3>1, <3>2 DEF ErasesInOrder
  <2> QED
    BY <2>2, <2>3, <2>4
<1> QED
  BY <1>7, <1>8, <1>9, <1>10, <1>11 DEF ErasureInv

(* The text goes, and the deletion reports success: by then nothing else   *)
(* of the space is left where only the writer has worked.                  *)
LEMMA EraseTextKeeps ==
  ASSUME ErasureInv, NEW p \in Processes, EraseText(p) \/ EraseTextFails(p)
  PROVE  ErasureInv'
<1> USE DEF truth
<1>1. /\ ErasureTypeOK /\ AllIsLiving /\ TextIsClean /\ VectorsAreClean
      /\ Unique(chunks) /\ Feeding /\ ErasesInOrder(p)
  BY DEF ErasureInv
<1>2. /\ erase[p].step = "fts" /\ erase' = [erase EXCEPT ![p] = Idle]
      /\ staged' \subseteq staged /\ fts' \in {fts, staged'}
      /\ UNCHANGED <<truth, vectorFile, torn, holder, at, onward, feed, vectors,
                     indexesDirty, lapses, gone, handles>>
  BY DEF EraseText, EraseTextFails, disk
<1>3. /\ erase[p] \in Erase /\ erase[p].space \in Spaces
      /\ at[p] \in {"ready", "reading"} /\ (p = holder <=> at[p] = "ready")
      /\ p = holder => feed = {}
  BY <1>2, IdleHasNoStep, EraserAtRest
<1>4. /\ erase' \in [Processes -> Erase \cup {Idle}]
      /\ erase'[p] = Idle
      /\ \A q \in Processes \ {p} : erase'[q] = erase[q]
  BY <1>1, <1>2, IsOver
<1>5. CASE purged' = purged
  <2>1. ErasureTypeOK'
    BY <1>1, <1>2, <1>4, <1>5 DEF ErasureTypeOK, TypeOK
  <2>2. Unique(chunks)' /\ Feeding' /\ AllIsLiving' /\ TextIsClean' /\ VectorsAreClean'
    BY <1>1, <1>2, <1>5
       DEF Unique, Feeding, AllIsLiving, Living, TextIsClean, VectorsAreClean, Clean
  <2>3. ASSUME NEW q \in Processes
        PROVE  RebuildsClean(q)' /\ ErasesInOrder(q)'
    <3>1. RebuildsClean(q) /\ ErasesInOrder(q)
      BY DEF ErasureInv
    <3>2. RebuildsClean(q)'
      BY <1>2, <1>5, <3>1 DEF RebuildsClean, Clean
    <3>3. ErasesInOrder(q)'
      BY <1>2, <1>4, <3>1 DEF ErasesInOrder, Idle
    <3> QED
      BY <3>2, <3>3
  <2> QED
    BY <2>1, <2>2, <2>3 DEF ErasureInv
<1>6. CASE EraseText(p)
  <2>1. /\ p = holder /\ p # NoProcess /\ feed = {}
        /\ purged' = purged \cup {erase[p].space}
        /\ staged' = {d \in staged : d.space # erase[p].space} /\ fts' = staged'
    BY <1>3, <1>6, StoreAssumption DEF EraseText
  <2>2. erase[p].space \in gone /\ \A c \in chunks : c.space # erase[p].space
    BY <1>1, <1>2, <2>1 DEF ErasesInOrder
  <2>3. "copy" \notin lapses => \A c \in vectors[p] \cup vectorFile : c.space # erase[p].space
    BY <1>1, <1>2, <2>1 DEF ErasesInOrder
  <2>4. ErasureTypeOK'
    BY <1>1, <1>2, <1>4, <2>1, <2>2 DEF ErasureTypeOK, TypeOK
  <2>5. Unique(chunks)' /\ Feeding' /\ AllIsLiving'
    BY <1>1, <1>2 DEF Unique, Feeding, AllIsLiving, Living
  <2>6. TextIsClean' /\ VectorsAreClean'
    BY <1>1, <1>2, <2>1, <2>2, <2>3 DEF TextIsClean, VectorsAreClean, Clean
  <2>7. ASSUME NEW q \in Processes
        PROVE  RebuildsClean(q)' /\ ErasesInOrder(q)'
    <3>1. ErasesInOrder(q)
      BY DEF ErasureInv
    <3>2. RebuildsClean(q)'
      BY <1>2, <1>3, <2>1 DEF RebuildsClean
    <3>3. ErasesInOrder(q)'
      BY <1>2, <1>4, <3>1 DEF ErasesInOrder, Idle
    <3> QED
      BY <3>2, <3>3
  <2> QED
    BY <2>4, <2>5, <2>6, <2>7 DEF ErasureInv
<1> QED
  BY <1>5, <1>6 DEF EraseTextFails

(* Every step keeps the invariant.                                         *)
LEMMA NextErasureInv == ErasureInv /\ [ErasureNext]_allVars => ErasureInv'
<1> SUFFICES ASSUME ErasureInv, [ErasureNext]_allVars
             PROVE  ErasureInv'
  OBVIOUS
<1>1. CASE UNCHANGED allVars
  BY <1>1 DEF allVars, erasureVars, vars, truth, disk, memory, ErasureInv, ErasureTypeOK, TypeOK,
       Unique, Feeding, AllIsLiving, Living, TextIsClean, VectorsAreClean, Clean,
       RebuildsClean, ErasesInOrder
<1>2. ASSUME NEW p \in Processes, EraseSpace(p)
      PROVE  ErasureInv'
  BY <1>2, CollectKeeps, EraseRowsKeeps, EraseVectorsKeeps, EraseTextKeeps DEF EraseSpace
<1>3. ASSUME NEW p \in Processes, NEW s \in Spaces, Resolve(p, s) \/ BeginErase(p, s)
      PROVE  ErasureInv'
  BY <1>3, ResolveKeeps, CollectKeeps
<1> QED
  BY <1>1, <1>2, <1>3, StoreStepKeeps, IngestKeeps DEF ErasureNext

-----------------------------------------------------------------------------
(***************************************************************************)
(* What follows                                                            *)
(***************************************************************************)

(* The invariant holds throughout: whatever feeds the rows and the indexes *)
(* holds nothing of a space whose deletion has succeeded, and only the     *)
(* truth of the living ones.                                               *)
THEOREM ErasureInvariant == ErasureSpec => []ErasureInv
BY InitErasureInv, NextErasureInv, PTL DEF ErasureSpec

(* A space that has reported its deletion is one that is marked deleted,   *)
(* and every variable keeps its type.                                      *)
THEOREM ErasureTypeCorrect == ErasureSpec => []ErasureTypeOK
<1>1. ErasureInv => ErasureTypeOK
  BY DEF ErasureInv
<1> QED
  BY <1>1, ErasureInvariant, PTL

(* A deletion that has reported success has left no text of the space, and *)
(* no vectors where the writer alone worked on them; no catch-up, flush,   *)
(* crash or rebuild brings any of it back, whatever row ids are used again.*)
THEOREM DeletionIsComplete == ErasureSpec => []PurgedLeavesNoTrace
<1>1. ErasureInv => PurgedLeavesNoTrace
  BY DEF ErasureInv, TextIsClean, VectorsAreClean, Clean, PurgedLeavesNoTrace
<1> QED
  BY <1>1, ErasureInvariant, PTL

(* Whatever the full text holds under a living space's name is a chunk of  *)
(* that space, wherever the deletions of other spaces were cut short.      *)
THEOREM LivingSpacesServeTheirOwn == ErasureSpec => []LivingTextIsTrue
<1>1. ErasureInv => LivingTextIsTrue
  BY DEF ErasureInv, AllIsLiving, Living, LivingTextIsTrue
<1> QED
  BY <1>1, ErasureInvariant, PTL

-----------------------------------------------------------------------------
(***************************************************************************)
(* What the documentation says of the mark, with ids that are never used   *)
(* again                                                                   *)
(***************************************************************************)

(* The id of a new row is above the mark, and no index, in a file or in a  *)
(* process, holds an entry of that id: what SQLite does when the id of a   *)
(* deleted row is not given out again.                                     *)
NeverReused ==
  \A c \in chunks' \ chunks :
    /\ c.id > indexedMax
    /\ c.id \notin Ids(fts) \cup Ids(staged) \cup Ids(vectorFile)
    /\ \A p \in Processes : c.id \notin Ids(vectors[p])

(* An entry that has the id of a row is that row.                          *)
Agrees(S) == \A c \in chunks, e \in S : e.id = c.id => e = c

AllAgree ==
  /\ Agrees(fts) /\ Agrees(staged) /\ Agrees(vectorFile)
  /\ \A p \in Processes : Agrees(vectors[p])

(* Nothing has failed that the owner is told of, and no rebuild is open.   *)
Trusted == ~indexDirty /\ "rebuild" \notin lapses

Covers(S) == \A c \in chunks : c.id <= indexedMax => c \in S

Covered == Trusted => Covers(fts) /\ (~torn => Covers(vectorFile))

Whole(S) == \A c \in chunks \ feed : c \in S

(* Where the one process that has the store open is, and what it relies on. *)
Sole(p) ==
  /\ at[p] # "reading"
  /\ at[p] \in {"loaded", "opening"} /\ "rebuild" \notin lapses
       => vectors[p] = vectorFile /\ ~torn
  /\ at[p] \in {"opening", "saving", "marking", "unflagging"} => fts = staged
  /\ at[p] \in {"marking", "unflagging"} => vectorFile = vectors[p] /\ ~torn
  /\ at[p] \in {"emptying", "refilling"} => "rebuild" \in lapses
  /\ \/ at[p] = "unflagging"
     \/ at[p] \in {"committing", "saving", "marking"} /\ onward = "rebuild"
     \/ /\ at[p] \in {"ready", "feeding", "committing", "saving", "marking", "closing"}
        /\ Trusted
     => Whole(staged) /\ Whole(vectors[p])

(* A deletion collects the ids of its space, and of nothing else.          *)
Erases(p) ==
  /\ erase[p].step = "rows" => erase[p].ids = Ids({c \in chunks : c.space = erase[p].space})
  /\ erase[p].step = "vectors" => \A c \in chunks : c.id \notin erase[p].ids

SoleInv ==
  /\ feed \subseteq chunks
  /\ AllAgree /\ Covered
  /\ \A p \in Processes : Sole(p) /\ Erases(p)

(* Where entries agree with the rows, indexing rows is taking them in.     *)
LEMMA IndexingTakesIn ==
  ASSUME NEW E, Agrees(E), NEW R \in SUBSET chunks
  PROVE  Upsert(E, R) = E \cup R /\ AddNew(E, R) = E \cup R
BY DEF Agrees, Upsert, AddNew, Ids

(* A process that is away has nothing to rely on.                          *)
LEMMA AwayIsSole ==
  ASSUME ErasureInv', NEW q \in Processes, at'[q] = "off"
  PROVE  Sole(q)' /\ Erases(q)'
<1>1. erase'[q] = Idle
  BY DEF ErasureInv, ErasesInOrder
<1> QED
  BY <1>1 DEF Sole, Erases, Idle

(* When one process steps, the others are away.                            *)
LEMMA OthersAway ==
  ASSUME OneAtATime, OneAtATime', NEW p \in Processes, NEW q \in Processes \ {p},
         at'[q] = at[q], at[p] # "off" \/ at'[p] # "off"
  PROVE  at'[q] = "off" /\ at[q] = "off"
BY DEF OneAtATime

(* What the one process works with.                                        *)
Alone(p) ==
  /\ TypeOK /\ Unique(chunks) /\ feed \subseteq chunks /\ AllAgree /\ Covered
  /\ Sole(p)
  /\ at[p] # "feeding" => feed = {}

(* Only it has a batch.                                                    *)
LEMMA WorksAlone ==
  ASSUME ErasureInv, SoleInv, OneAtATime, NEW p \in Processes,
         at[p] # "off" \/ \A q \in Processes : at[q] = "off"
  PROVE  Alone(p)
<1>1. TypeOK /\ Unique(chunks) /\ Feeding
  BY DEF ErasureInv, ErasureTypeOK
<1>2. at[p] # "feeding" => feed = {}
  BY <1>1 DEF Feeding, OneAtATime
<1> QED
  BY <1>1, <1>2 DEF Alone, SoleInv

(* An open.                                                                *)
LEMMA OpenSole ==
  ASSUME NEW p \in Processes, Alone(p), OpenStore(p),
         \A q \in Processes \ {p} : at[q] = "off"
  PROVE  Sole(p)' /\ Covered'
<1> USE DEF truth, disk, memory, Goto
<1>1. /\ TypeOK /\ feed \subseteq chunks /\ AllAgree /\ Covered /\ Sole(p)
      /\ at[p] # "feeding" => feed = {}
  BY DEF Alone
<1>2. CASE LoadVectors(p)
  <2>1. at'[p] = "loaded" /\ vectors'[p] = vectorFile
    BY <1>1, <1>2 DEF LoadVectors, TypeOK
  <2> QED
    BY <1>1, <1>2, <2>1 DEF LoadVectors, Sole, Covered, Trusted, Covers
<1>3. CASE LoadForRepair(p)
  <2>1. at'[p] = "loaded" /\ "rebuild" \in lapses'
    BY <1>1, <1>3 DEF LoadForRepair, TypeOK
  <2> QED
    BY <1>3, <2>1 DEF LoadForRepair, Sole, Covered, Trusted
<1>4. CASE TakeLock(p)
  <2>1. at[p] = "loaded" /\ p \notin {holder} /\ holder = NoProcess
    BY <1>1, <1>4 DEF TakeLock, TypeOK, Holding
  <2>2. /\ at'[p] = "opening" /\ staged' = fts
        /\ UNCHANGED <<truth, disk, onward, feed, vectors, indexesDirty>>
        /\ lapses' \in {lapses, lapses \cup {"copy"}}
    BY <1>1, <1>4, <2>1 DEF TakeLock, TypeOK
  <2>3. Trusted' => Trusted
    BY <2>2 DEF Trusted
  <2>4. Covered'
    BY <1>1, <2>2, <2>3 DEF Covered, Covers
  <2>5. "rebuild" \notin lapses' => vectors'[p] = vectorFile' /\ ~torn'
    BY <1>1, <2>1, <2>2 DEF Sole
  <2> QED
    BY <2>2, <2>4, <2>5 DEF Sole
<1>5. CASE CatchUp(p)
  <2>1. at[p] = "opening" /\ fts = staged /\ feed = {}
    BY <1>1, <1>5 DEF CatchUp, Sole
  <2>2. Trusted => Covers(staged) /\ Covers(vectors[p])
    BY <1>1, <2>1 DEF Covered, Sole, Trusted
  <2>3. PICK m \in 0 .. MaxChunkId :
          /\ IsMaxId(m)
          /\ IF m <= indexedMax
             THEN /\ Goto(p, "ready")
                  /\ UNCHANGED <<onward, staged, vectors, indexesDirty>>
             ELSE /\ staged' = Upsert(staged, Tail)
                  /\ vectors' = [vectors EXCEPT ![p] = AddNew(@, Tail)]
                  /\ indexesDirty' = TRUE /\ onward' = "open"
                  /\ Goto(p, "committing")
    BY <1>5 DEF CatchUp
  <2>4. UNCHANGED <<truth, disk, holder, feed, lapses>>
    BY <1>5 DEF CatchUp
  <2>5. Covered'
    BY <1>1, <2>4 DEF Covered, Trusted, Covers
  <2>6. CASE m <= indexedMax
    <3>1. \A c \in chunks : c.id <= indexedMax
      BY <1>1, <2>3, <2>6, StoreAssumption DEF IsMaxId, TypeOK, Chunk
    <3>2. Trusted => Whole(staged) /\ Whole(vectors[p])
      BY <2>2, <3>1 DEF Covers, Whole
    <3>3. at'[p] = "ready" /\ staged' = staged /\ vectors' = vectors
      BY <1>1, <2>3, <2>6 DEF TypeOK
    <3> QED
      BY <2>4, <2>5, <3>2, <3>3 DEF Sole, Trusted, Whole
  <2>7. CASE ~ (m <= indexedMax)
    <3>1. Tail \subseteq chunks /\ \A c \in chunks : c \in Tail \/ c.id <= indexedMax
      BY <1>1 DEF Tail, TypeOK, Chunk
    <3>2. staged' = staged \cup Tail /\ vectors'[p] = vectors[p] \cup Tail
      BY <1>1, <2>3, <2>7, <3>1, IndexingTakesIn DEF AllAgree, TypeOK
    <3>3. Trusted => Whole(staged') /\ Whole(vectors'[p])
      BY <2>2, <3>1, <3>2 DEF Covers, Whole
    <3>4. at'[p] = "committing" /\ onward' = "open"
      BY <1>1, <2>3, <2>7 DEF TypeOK
    <3> QED
      BY <2>4, <2>5, <3>3, <3>4 DEF Sole, Trusted, Whole
  <2> QED
    BY <2>6, <2>7
<1>6. CASE CatchUpFails(p)
  <2>1. at'[p] = "off"
    BY <1>1, <1>6 DEF CatchUpFails, Gone, TypeOK
  <2> QED
    BY <1>1, <1>6, <2>1 DEF CatchUpFails, Sole, Covered, Trusted, Covers
<1> QED
  BY <1>2, <1>3, <1>4, <1>5, <1>6 DEF OpenStore

(* Feeding.                                                                *)
LEMMA FeedSole ==
  ASSUME NEW p \in Processes, Alone(p), FeedIndexes(p) \/ FeedFails(p)
  PROVE  Sole(p)' /\ Covered'
<1> USE DEF truth, disk, memory, Goto
<1>1. TypeOK /\ feed \subseteq chunks /\ AllAgree /\ Covered /\ Sole(p)
  BY DEF Alone
<1>2. CASE FeedIndexes(p)
  <2>1. staged' = staged \cup feed /\ vectors'[p] = vectors[p] \cup feed
    BY <1>1, <1>2, IndexingTakesIn DEF FeedIndexes, AllAgree, TypeOK
  <2>2. at[p] = "feeding" /\ at'[p] = "ready" /\ feed' = {}
        /\ UNCHANGED <<truth, disk, holder, onward, lapses>>
    BY <1>1, <1>2 DEF FeedIndexes, TypeOK
  <2>3. Trusted => Whole(staged) /\ Whole(vectors[p])
    BY <1>1, <2>2 DEF Sole
  <2>4. Trusted' => Whole(staged)' /\ Whole(vectors[p])'
    BY <2>1, <2>2, <2>3 DEF Trusted, Whole
  <2>5. Covered'
    BY <1>1, <2>2 DEF Covered, Trusted, Covers
  <2> QED
    BY <2>2, <2>4, <2>5 DEF Sole
<1>3. CASE FeedFails(p)
  <2>1. at'[p] = "ready" /\ indexDirty'
    BY <1>1, <1>3 DEF FeedFails, TypeOK
  <2> QED
    BY <2>1 DEF Sole, Covered, Trusted
<1> QED
  BY <1>2, <1>3

(* A flush.                                                                *)
LEMMA FlushSole ==
  ASSUME NEW p \in Processes, Alone(p), Flush(p)
  PROVE  Sole(p)' /\ Covered'
<1> USE DEF truth, disk, memory, Goto
<1>1. /\ TypeOK /\ feed \subseteq chunks /\ AllAgree /\ Covered /\ Sole(p)
      /\ at[p] # "feeding" => feed = {}
  BY DEF Alone
<1>2. CASE Recall(p)
  <2>1. at[p] = "ready" /\ at'[p] = "committing" /\ onward' = "recall"
        /\ UNCHANGED <<truth, disk, holder, memory, lapses>>
    BY <1>1, <1>2 DEF Recall, TypeOK
  <2> QED
    BY <1>1, <2>1 DEF Sole, Covered, Trusted, Covers, Whole
<1>3. CASE CommitFts(p)
  <2>1. at[p] = "committing" /\ at'[p] = "saving" /\ fts' = staged
        /\ UNCHANGED <<truth, vectorFile, torn, holder, onward, memory, lapses>>
    BY <1>1, <1>3 DEF CommitFts, TypeOK
  <2>2. Trusted => Covers(staged)
    BY <1>1, <2>1 DEF Sole, Whole, Covers
  <2> QED
    BY <1>1, <2>1, <2>2 DEF Sole, Covered, Trusted, Covers, Whole
<1>4. CASE SaveVectors(p)
  <2>1. /\ at[p] = "saving" /\ at'[p] = "marking"
        /\ vectorFile' = vectors[p] /\ torn' = FALSE
        /\ UNCHANGED <<truth, fts, holder, onward, memory, lapses>>
    BY <1>1, <1>4 DEF SaveVectors, TypeOK
  <2>2. Trusted => Covers(vectors[p])
    BY <1>1, <2>1 DEF Sole, Whole, Covers
  <2> QED
    BY <1>1, <2>1, <2>2 DEF Sole, Covered, Trusted, Covers, Whole
<1>5. CASE Mark(p)
  <2>1. /\ at[p] = "marking" /\ feed = {}
        /\ \/ onward = "close" /\ at'[p] = "closing"
           \/ onward = "rebuild" /\ at'[p] = "unflagging"
           \/ onward # "rebuild" /\ at'[p] = "ready"
        /\ UNCHANGED <<chunks, indexDirty, disk, holder, onward, feed, staged, vectors, lapses>>
    BY <1>1, <1>5 DEF Mark, TypeOK
  <2>2. Trusted => Whole(fts) /\ Whole(vectorFile)
    BY <1>1, <2>1 DEF Sole
  <2>3. Covered'
    BY <2>1, <2>2 DEF Covered, Covers, Trusted, Whole
  <2> QED
    BY <1>1, <2>1, <2>3 DEF Sole, Trusted, Whole
<1>6. CASE FlushFails(p)
  <2>1. /\ at[p] \in {"committing", "saving"}
        /\ \/ at'[p] = "off"
           \/ at'[p] \in {"closing", "ready"} /\ UNCHANGED <<onward, memory>>
        /\ UNCHANGED <<vectorFile, torn>> \/ torn'
        /\ UNCHANGED <<truth, fts, lapses>>
    BY <1>1, <1>6 DEF FlushFails, TypeOK, Gone, SaveIsCut
  <2>2. Covered'
    BY <1>1, <2>1 DEF Covered, Covers, Trusted
  <2> QED
    BY <1>1, <2>1, <2>2 DEF Sole, Trusted, Whole
<1> QED
  BY <1>2, <1>3, <1>4, <1>5, <1>6 DEF Flush

(* The end of an engine, and of its process.                               *)
LEMMA CloseSole ==
  ASSUME NEW p \in Processes, Alone(p), Close(p) \/ Drop(p) \/ Crash(p)
  PROVE  Sole(p)' /\ Covered'
<1> USE DEF truth, disk, memory, Goto
<1>1. /\ TypeOK /\ Covered /\ Sole(p)
  BY DEF Alone
<1>2. /\ UNCHANGED <<vectorFile, torn>> \/ torn'
      /\ UNCHANGED <<truth, fts, lapses>>
      /\ \/ at'[p] = "off"
         \/ /\ \/ at[p] = "ready" /\ at'[p] = "closing" /\ UNCHANGED onward
               \/ at[p] = "closing" /\ at'[p] = "committing" /\ onward' = "close"
            /\ UNCHANGED memory
  BY <1>1 DEF Close, Drop, Crash, Gone, SaveIsCut, TypeOK
<1>3. Covered'
  BY <1>1, <1>2 DEF Covered, Covers, Trusted
<1> QED
  BY <1>1, <1>2, <1>3 DEF Sole, Trusted, Whole

(* A rebuild.                                                              *)
LEMMA RebuildSole ==
  ASSUME NEW p \in Processes, Alone(p), Rebuild(p)
  PROVE  Sole(p)' /\ Covered'
<1> USE DEF truth, disk, memory, Goto
<1>1. /\ TypeOK /\ feed \subseteq chunks /\ AllAgree /\ Covered /\ Sole(p)
      /\ at[p] # "feeding" => feed = {}
  BY DEF Alone
<1>2. CASE WipeFts(p) \/ WipeFtsFails(p) \/ WipeVectors(p) \/ WipeVectorsFails(p) \/ RefillFails(p)
  <2>1. at'[p] \in {"emptying", "ready", "refilling"} /\ "rebuild" \in lapses'
    BY <1>1, <1>2
       DEF WipeFts, WipeFtsFails, WipeVectors, WipeVectorsFails, RefillFails, TypeOK, Sole
  <2> QED
    BY <2>1 DEF Sole, Covered, Trusted
<1>3. CASE Refill(p)
  <2>1. /\ at[p] = "refilling" /\ at'[p] = "committing"
        /\ UNCHANGED <<truth, disk, holder, feed, lapses>>
    BY <1>1, <1>3 DEF Refill, TypeOK
  <2>2. staged' = staged \cup chunks /\ vectors'[p] = vectors[p] \cup chunks
    BY <1>1, <1>3, IndexingTakesIn DEF Refill, AllAgree, TypeOK
  <2>3. Covered'
    BY <1>1, <2>1 DEF Covered, Trusted, Covers
  <2> QED
    BY <2>1, <2>2, <2>3 DEF Sole, Whole
<1>4. CASE Unflag(p)
  <2>1. /\ at[p] = "unflagging" /\ at'[p] = "ready" /\ feed = {}
        /\ UNCHANGED <<chunks, indexedMax, disk, holder, onward, memory>>
    BY <1>1, <1>4 DEF Unflag, TypeOK
  <2>2. /\ fts = staged /\ vectorFile = vectors[p]
        /\ Whole(staged) /\ Whole(vectors[p])
    BY <1>1, <2>1 DEF Sole
  <2> QED
    BY <2>1, <2>2 DEF Sole, Covered, Covers, Whole
<1> QED
  BY <1>2, <1>3, <1>4 DEF Rebuild

(* Entries agree with the rows after as before a step of the store.        *)
LEMMA WorkAgrees ==
  ASSUME ErasureInv, SoleInv, NEW p \in Processes, Work(p)
  PROVE  AllAgree' /\ feed' \subseteq chunks'
<1>1. TypeOK /\ Unique(chunks)
  BY DEF ErasureInv, ErasureTypeOK
<1>2. Brings(p)
  BY <1>1, WorkBrings
<1>3. Agrees(feed) /\ Agrees(chunks)
  BY <1>1 DEF SoleInv, Agrees, Unique
<1> QED
  BY <1>2, <1>3 DEF SoleInv, AllAgree, Agrees, Brings

(* A step of the store, by the one process that has it open.               *)
LEMMA StoreSole ==
  ASSUME ErasureInv, ErasureInv', SoleInv, OneAtATime, OneAtATime',
         NEW p \in Processes, StoreStep(p)
  PROVE  SoleInv'
<1>1. Work(p) /\ TypeOK
  BY DEF StoreStep, Work, ErasureInv, ErasureTypeOK
<1>2. \A q \in Processes \ {p} : at'[q] = at[q] /\ chunks' = chunks
  BY <1>1, WorkBrings DEF Brings
<1>3. at[p] # "off" \/ at'[p] # "off"
  BY <1>1 DEF Work, OpenStore, LoadVectors, LoadForRepair, TakeLock, CatchUp, CatchUpFails,
       FeedIndexes, FeedFails, Flush, Recall, CommitFts, SaveVectors, Mark, FlushFails, Close,
       Drop, Crash, Rebuild, WipeFts, WipeFtsFails, WipeVectors, WipeVectorsFails, Refill,
       RefillFails, Unflag, Goto, TypeOK
<1>4. \A q \in Processes \ {p} : at'[q] = "off" /\ at[q] = "off"
  BY <1>2, <1>3, OthersAway
<1>5. Alone(p)
  BY <1>4, WorksAlone
<1>6. Sole(p)' /\ Covered'
  BY <1>1, <1>4, <1>5, OpenSole, FeedSole, FlushSole, CloseSole, RebuildSole DEF Work
<1>7. Erases(p)'
  <2>1. CASE at'[p] = "off"
    BY <2>1, AwayIsSole
  <2>2. CASE at'[p] # "off"
    <3>1. UNCHANGED erase
      BY <2>2 DEF StoreStep
    <3>2. Idles(p)
      <4>1. ~ Crash(p)
        BY <1>1, <2>2 DEF Crash, Gone, Goto, TypeOK
      <4> QED
        BY <4>1 DEF StoreStep
    <3> QED
      BY <3>1, <3>2 DEF Idles, Idle, Erases
  <2> QED
    BY <2>1, <2>2
<1>8. \A q \in Processes \ {p} : Sole(q)' /\ Erases(q)'
  BY <1>4, AwayIsSole
<1> QED
  BY <1>1, <1>6, <1>7, <1>8, WorkAgrees DEF SoleInv

(* An ingest, under ids that are new.                                      *)
LEMMA IngestSole ==
  ASSUME ErasureInv, ErasureInv', SoleInv, OneAtATime, OneAtATime', NeverReused,
         NEW p \in Processes, NEW s \in Spaces, NEW d \in Documents, IngestInto(p, s, d)
  PROVE  SoleInv'
<1> USE DEF Goto, disk
<1>1. TypeOK /\ Ingest(p, s, d) /\ Idles(p) /\ UNCHANGED erase
  BY DEF IngestInto, ErasureInv, ErasureTypeOK
<1>2. PICK rows :
        /\ chunks' = chunks \cup rows /\ feed' = rows
        /\ at[p] = "ready" /\ at'[p] = "feeding"
        /\ \A q \in Processes \ {p} : at'[q] = at[q]
        /\ UNCHANGED <<indexedMax, indexDirty, disk, holder, onward, staged, vectors,
                       indexesDirty, lapses>>
  BY <1>1 DEF Ingest, TypeOK
<1>3. Alone(p) /\ feed = {}
  BY <1>2, WorksAlone DEF Alone
<1>4. \A q \in Processes \ {p} : Sole(q)' /\ Erases(q)'
  BY <1>2, OthersAway, AwayIsSole
<1>5. feed' \subseteq chunks'
  BY <1>2
<1>6. AllAgree'
  <2>1. ASSUME NEW S, Agrees(S), \A c \in chunks' \ chunks : c.id \notin Ids(S)
        PROVE  \A c \in chunks', e \in S : e.id = c.id => e = c
    BY <2>1 DEF Agrees, Ids
  <2> QED
    BY <1>2, <2>1 DEF SoleInv, AllAgree, Agrees, NeverReused
<1>7. Covered'
  <2>1. \A c \in chunks' : c.id <= indexedMax => c \in chunks
    <3>1. ASSUME NEW c \in chunks', c \notin chunks
          PROVE  ~ (c.id <= indexedMax)
      <4>1. c.id > indexedMax /\ c.id \in Nat /\ indexedMax \in Nat
        BY <1>1, <3>1, StoreAssumption
           DEF NeverReused, ErasureInv, ErasureTypeOK, TypeOK, Chunk
      <4> QED
        BY <4>1
    <3> QED
      BY <3>1
  <2> QED
    BY <1>2, <2>1 DEF SoleInv, Covered, Covers, Trusted
<1>8. Sole(p)'
  <2>1. \A c \in chunks' \ feed' : c \in chunks \ feed
    BY <1>2, <1>3
  <2> QED
    BY <1>2, <2>1 DEF SoleInv, Sole, Whole, Trusted
<1>9. Erases(p)'
  BY <1>1 DEF Idles, Idle, Erases
<1> QED
  BY <1>4, <1>5, <1>6, <1>7, <1>8, <1>9 DEF SoleInv

(* A deletion by the one process that has the store open.                  *)
LEMMA EraseSole ==
  ASSUME ErasureInv, ErasureInv', SoleInv, OneAtATime, OneAtATime', NEW p \in Processes,
         EraseSpace(p) \/ \E s \in Spaces : Resolve(p, s) \/ BeginErase(p, s)
  PROVE  SoleInv'
<1> USE DEF truth, disk, memory, vars
<1>1. /\ UNCHANGED at /\ at[p] # "off"
      /\ erase[p] # Idle => at[p] = "ready"
  <2>1. at[p] # "reading"
    BY DEF SoleInv, Sole
  <2>2. erase[p] # Idle => at[p] = "ready"
    BY <2>1 DEF ErasureInv, ErasesInOrder
  <2> QED
    BY <2>2, IdleHasNoStep
       DEF EraseSpace, CollectIds, EraseRows, EraseVectors, EraseText, EraseTextFails,
           Resolve, BeginErase
<1>2. /\ \A q \in Processes \ {p} : Sole(q)' /\ Erases(q)'
      /\ Alone(p) /\ feed \subseteq chunks /\ AllAgree /\ Covered /\ Sole(p) /\ Erases(p)
      /\ at[p] # "reading"
  <2>1. ASSUME NEW q \in Processes \ {p}
        PROVE  Sole(q)' /\ Erases(q)'
    <3>1. at'[q] = at[q] /\ at[p] # "off"
      BY <1>1
    <3>2. at'[q] = "off"
      BY <3>1, OthersAway
    <3> QED
      BY <3>2, AwayIsSole
  <2>2. Alone(p)
    BY <1>1, WorksAlone
  <2>3. feed \subseteq chunks /\ AllAgree /\ Covered /\ Sole(p) /\ Erases(p)
    BY DEF SoleInv
  <2>4. at[p] # "reading"
    BY <2>3 DEF Sole
  <2> QED
    BY <2>1, <2>2, <2>3, <2>4
<1>3. TypeOK /\ Unique(chunks) /\ ErasureTypeOK
  BY DEF ErasureInv, ErasureTypeOK
<1>4. ASSUME NEW s \in Spaces, Resolve(p, s) \/ BeginErase(p, s)
      PROVE  SoleInv'
  <2>1. UNCHANGED vars /\ (UNCHANGED erase \/ erase'[p].step = "collect")
    BY <1>3, <1>4 DEF Resolve, BeginErase, ErasureTypeOK
  <2> QED
    BY <1>2, <2>1 DEF SoleInv, AllAgree, Agrees, Covered, Covers, Trusted, Sole, Whole, Erases
<1>5. CASE CollectIds(p)
  <2> DEFINE found == Ids({c \in chunks : c.space = erase[p].space})
  <2>1. UNCHANGED vars /\ erase[p] \in Erase
    BY <1>5, IdleHasNoStep, EraserAtRest DEF CollectIds
  <2>2. erase' = [erase EXCEPT ![p].step = "rows", ![p].ids = found]
    BY <1>5 DEF CollectIds
  <2> HIDE DEF found
  <2>3. PICK e : e = [erase[p] EXCEPT !.step = "rows", !.ids = found]
    OBVIOUS
  <2>4. e.step = "rows" /\ e.ids = found /\ e.space = erase[p].space
    BY <2>1, <2>3 DEF Erase
  <2>5. erase'[p] = e
    BY <1>3, <2>2, <2>3 DEF ErasureTypeOK
  <2>6. Erases(p)'
    BY <2>1, <2>4, <2>5 DEF Erases, found
  <2> QED
    BY <1>2, <2>1, <2>6 DEF SoleInv, AllAgree, Agrees, Covered, Covers, Trusted, Sole, Whole
<1>6. CASE EraseRows(p) \/ EraseVectors(p) \/ EraseText(p) \/ EraseTextFails(p)
  <2>1. /\ erase[p].step \in {"rows", "vectors", "fts"} /\ erase[p] # Idle
        /\ UNCHANGED <<at, feed, holder, onward>>
    BY <1>6, IdleHasNoStep DEF EraseRows, EraseVectors, EraseText, EraseTextFails
  <2>2. at[p] = "ready" /\ p = holder /\ feed = {}
    BY <1>1, <2>1, EraserAtRest
  <2>3. erase[p] \in Erase
    BY <2>1, EraserAtRest
  <2>4. Trusted => Whole(staged) /\ Whole(vectors[p])
    BY <1>2, <2>2 DEF Sole
  <2>5. CASE EraseRows(p)
    <3>1. /\ chunks' = {c \in chunks : c.space # erase[p].space}
          /\ "rebuild" \in lapses' <=> "rebuild" \in lapses
          /\ UNCHANGED <<indexedMax, indexDirty, disk, memory>>
      BY <2>5 DEF EraseRows
    <3>2. erase'[p].step = "vectors" /\ erase'[p].ids = erase[p].ids
      BY <1>3, <2>3, <2>5, MovesOn DEF EraseRows
    <3>3. \A c \in chunks' : c.id \notin erase[p].ids
      BY <1>2, <1>3, <2>5, <3>1 DEF Erases, EraseRows, Ids, Unique
    <3>4. Erases(p)'
      BY <3>2, <3>3 DEF Erases
    <3>5. Sole(p)' /\ Covered'
      BY <1>2, <2>1, <2>2, <2>4, <3>1 DEF Sole, Covered, Covers, Trusted, Whole
    <3> QED
      BY <1>2, <2>1, <2>2, <3>1, <3>4, <3>5 DEF SoleInv, AllAgree, Agrees
  <2>6. CASE EraseVectors(p)
    <3>1. /\ vectors'[p] = {e \in vectors[p] : e.id \notin erase[p].ids}
          /\ \A q \in Processes \ {p} : vectors'[q] = vectors[q]
          /\ lapses' = lapses
          /\ UNCHANGED <<truth, fts, staged>>
      BY <1>3, <2>2, <2>6 DEF EraseVectors, TypeOK
    <3>2. \/ vectorFile' = vectors'[p] /\ ~torn' /\ erase' = [erase EXCEPT ![p].step = "fts"]
          \/ /\ UNCHANGED <<vectorFile, torn>> \/ (vectorFile' = {} /\ torn')
             /\ erase' = [erase EXCEPT ![p] = Idle]
      BY <2>6 DEF EraseVectors, SaveIsCut
    <3>3. \A c \in chunks : c.id \notin erase[p].ids
      BY <1>2, <2>6 DEF Erases, EraseVectors
    <3>4. Trusted => Whole(vectors'[p])
      BY <2>4, <3>1, <3>3 DEF Whole
    <3>5. erase'[p].step \notin {"rows", "vectors"}
      <4>1. CASE erase' = [erase EXCEPT ![p].step = "fts"]
        BY <1>3, <2>3, <4>1, MovesOn
      <4>2. CASE erase' = [erase EXCEPT ![p] = Idle]
        BY <1>3, <4>2, IsOver DEF Idle
      <4> QED
        BY <3>2, <4>1, <4>2
    <3>6. Sole(p)'
      BY <2>1, <2>2, <2>4, <3>1, <3>4 DEF Sole, Trusted, Whole
    <3>7. Covered'
      BY <1>2, <2>2, <3>1, <3>2, <3>4 DEF Covered, Covers, Trusted, Whole
    <3>8. AllAgree'
      BY <1>2, <3>1, <3>2 DEF AllAgree, Agrees
    <3> QED
      BY <1>2, <2>1, <3>1, <3>5, <3>6, <3>7, <3>8 DEF SoleInv, Erases
  <2>7. CASE EraseText(p) \/ EraseTextFails(p)
    <3>1. /\ staged' = {d \in staged : d.space # erase[p].space}
          /\ fts' \in {fts, staged'}
          /\ UNCHANGED <<truth, vectorFile, torn, vectors, lapses>>
          /\ erase' = [erase EXCEPT ![p] = Idle]
          /\ erase[p].step = "fts"
      BY <2>2, <2>7 DEF EraseText, EraseTextFails
    <3>2. \A c \in chunks : c.space # erase[p].space
      BY <2>2, <3>1 DEF ErasureInv, ErasesInOrder
    <3>3. Trusted => Whole(staged')
      BY <2>4, <3>1, <3>2 DEF Whole
    <3>4. Sole(p)'
      BY <2>1, <2>2, <2>4, <3>1, <3>3 DEF Sole, Trusted, Whole
    <3>5. Covered'
      BY <1>2, <2>2, <3>1, <3>3 DEF Covered, Covers, Trusted, Whole
    <3>6. AllAgree'
      BY <1>2, <3>1 DEF AllAgree, Agrees
    <3>7. Erases(p)'
      BY <1>3, <3>1, IsOver DEF Erases, Idle
    <3> QED
      BY <1>2, <2>1, <3>1, <3>4, <3>5, <3>6, <3>7 DEF SoleInv
  <2> QED
    BY <1>6, <2>5, <2>6, <2>7
<1> QED
  BY <1>4, <1>5, <1>6 DEF EraseSpace

(* Every step of a store that one process at a time has open, and that     *)
(* never uses an id again.                                                 *)
LEMMA NextSole ==
  ErasureInv /\ ErasureInv' /\ SoleInv /\ OneAtATime /\ OneAtATime'
    /\ [ErasureNext]_allVars /\ [NeverReused]_allVars
  => SoleInv'
<1> SUFFICES ASSUME ErasureInv, ErasureInv', SoleInv, OneAtATime, OneAtATime',
                    [ErasureNext]_allVars, [NeverReused]_allVars
             PROVE  SoleInv'
  OBVIOUS
<1>1. CASE UNCHANGED allVars
  BY <1>1 DEF allVars, erasureVars, vars, truth, disk, memory, SoleInv, AllAgree, Agrees,
       Covered, Covers, Trusted, Sole, Whole, Erases
<1>2. CASE ErasureNext /\ NeverReused
  BY <1>2, StoreSole, IngestSole, EraseSole DEF ErasureNext
<1> QED
  BY <1>1, <1>2

(* Where one process at a time has the store open and ids are never used   *)
(* again, deleting spaces leaves what flush_indexes says of the mark true: *)
(* rebuilds aside, every chunk at or below it is in both indexes on disk,  *)
(* wherever a deletion, an ingest or a flush was cut short.                *)
THEOREM MarkAfterDurableWithNewIds ==
  ErasureSpec /\ []OneAtATime /\ [][NeverReused]_allVars => []MarkAfterDurable
<1>1. ErasureInit => SoleInv
  BY DEF ErasureInit, Init, SoleInv, AllAgree, Agrees, Covered, Covers, Sole, Erases, Idle
<1>2. SoleInv => MarkAfterDurable
  BY DEF SoleInv, Covered, Covers, Trusted, Loud, MarkAfterDurable
<1> QED
  BY <1>1, <1>2, NextSole, ErasureInvariant, PTL DEF ErasureSpec
=============================================================================
