-------------------------- MODULE IndexStoreProofs --------------------------
(***************************************************************************)
(* Proofs about the derived indexes, for any number of processes, spaces,  *)
(* documents and chunks.                                                   *)
(***************************************************************************)
EXTENDS IndexStore, TLAPS

-----------------------------------------------------------------------------
(***************************************************************************)
(* The inductive invariant                                                 *)
(***************************************************************************)

(* A row id stands for one chunk. *)
Unique(S) == \A c, d \in S : c.id = d.id => c = d

(* The rows, and everything that was made from them. *)
Derived ==
  /\ Unique(chunks)
  /\ indexedMax = 0 \/ indexedMax \in Ids(chunks)
  /\ feed \subseteq chunks
  /\ TruthFirst

(* Only a batch that is being fed is not in the indexes yet.               *)
Feeding == feed # {} => holder \in Processes /\ at[holder] = "feeding"

(* What the steps of an open, a flush and a rebuild rely on in each other. *)
InStep(p) ==
  /\ at[p] = "opening" /\ lapses = {} =>
       staged = fts /\ vectors[p] = vectorFile /\ ~torn
  /\ at[p] \in {"saving", "marking", "unflagging"} => fts = staged
  /\ at[p] \in {"marking", "unflagging"} => vectorFile = vectors[p] /\ ~torn
  /\ at[p] \in {"emptying", "refilling"} => "rebuild" \in lapses
  /\ \/ at[p] = "unflagging"
     \/ at[p] \in {"committing", "saving", "marking"} /\ onward = "rebuild"
     => staged = chunks /\ vectors[p] = chunks

(* WriterFindsAll, for one process. *)
FindsAll(p) ==
  /\ at[p] \in {"ready", "feeding", "committing", "saving", "marking", "closing"}
  /\ ~indexDirty /\ lapses = {}
  => \A c \in chunks \ feed : c \in staged /\ c \in vectors[p]

IInv ==
  /\ TypeOK
  /\ Derived /\ Feeding
  /\ \A p \in Processes : InStep(p) /\ FindsAll(p)
  /\ MarkIsDurable

-----------------------------------------------------------------------------
(***************************************************************************)
(* What the indexes make of a batch of rows                                *)
(***************************************************************************)

(* Both indexes hold nothing but chunks, whose ids are unique: replacing a *)
(* document and keeping an entry come to the same.                         *)
LEMMA IndexingIsUnion ==
  ASSUME Unique(chunks), NEW E \in SUBSET chunks, NEW R \in SUBSET chunks
  PROVE  Upsert(E, R) = E \cup R /\ AddNew(E, R) = E \cup R
BY DEF Unique, Upsert, AddNew, Ids

(* The rows of a new document lie above those in use.                      *)
LEMMA NewRows ==
  ASSUME TypeOK, Unique(chunks), NEW s \in Spaces, NEW d \in Documents,
         NEW m \in 0 .. MaxChunkId, IsMaxId(m), m + Pieces[d] <= MaxChunkId
  PROVE  Rows(s, d, m) \in SUBSET Chunk /\ Unique(chunks \cup Rows(s, d, m))
<1>1. Pieces[d] \in Nat /\ MaxChunkId \in Nat
  BY StoreAssumption
<1>2. ASSUME NEW r \in Rows(s, d, m)
      PROVE  r \in Chunk /\ r.id > m
  BY <1>1, <1>2 DEF Rows, Chunk
<1>3. ASSUME NEW r \in Rows(s, d, m), NEW t \in Rows(s, d, m), r.id = t.id
      PROVE  r = t
  BY <1>1, <1>3 DEF Rows
<1>4. \A c \in chunks : c.id <= m /\ c.id \in Nat
  BY DEF IsMaxId, TypeOK, Chunk
<1> QED
  BY <1>2, <1>3, <1>4 DEF Unique, Chunk

(* The highest id bounds them all.                                         *)
LEMMA AtMostMax ==
  ASSUME NEW m, IsMaxId(m), NEW c \in chunks
  PROVE  c.id <= m
BY DEF IsMaxId

(* What is said of every process concerns the lock's holder alone.         *)
LEMMA OnlyTheHolder ==
  ASSUME TypeOK, holder # NoProcess => InStep(holder) /\ FindsAll(holder)
  PROVE  \A p \in Processes : InStep(p) /\ FindsAll(p)
<1> SUFFICES ASSUME NEW p \in Processes, p # holder
             PROVE  InStep(p) /\ FindsAll(p)
  BY StoreAssumption
<1>1. at[p] \notin Holding
  BY DEF TypeOK
<1> QED
  BY <1>1 DEF Holding, InStep, FindsAll

-----------------------------------------------------------------------------
(***************************************************************************)
(* The invariant holds at first                                            *)
(***************************************************************************)

(* The invariant holds of an empty store.                                  *)
LEMMA InitIInv == Init => IInv
<1> SUFFICES ASSUME Init PROVE IInv
  OBVIOUS
<1>1. TypeOK
  BY StoreAssumption DEF Init, TypeOK, Holding, Lapses
<1>2. Derived
  BY DEF Init, Derived, Unique, TruthFirst
<1>3. Feeding /\ \A p \in Processes : InStep(p) /\ FindsAll(p)
  BY DEF Init, Feeding, InStep, FindsAll
<1>4. MarkIsDurable
  BY DEF Init, MarkIsDurable
<1> QED
  BY <1>1, <1>2, <1>3, <1>4 DEF IInv

-----------------------------------------------------------------------------
(***************************************************************************)
(* Types                                                                   *)
(***************************************************************************)

(* The part of TypeOK about processes and what they keep in memory.        *)
ProcessesOK ==
  /\ holder \in Processes \cup {NoProcess}
  /\ at \in [Processes -> {"off", "loaded", "reading"} \cup Holding]
  /\ \A p \in Processes : at[p] \in Holding <=> p = holder
  /\ onward \in {"open", "recall", "rebuild", "close"}
  /\ feed \in SUBSET Chunk
  /\ staged \in SUBSET Chunk
  /\ vectors \in [Processes -> SUBSET Chunk]
  /\ indexesDirty \in BOOLEAN

(* The part about the rows, the files and the lapses.                      *)
FilesOK ==
  /\ chunks \in SUBSET Chunk
  /\ indexedMax \in Nat
  /\ indexDirty \in BOOLEAN
  /\ fts \in SUBSET Chunk
  /\ vectorFile \in SUBSET Chunk
  /\ torn \in BOOLEAN
  /\ lapses \in SUBSET Lapses

(* Type correctness is that of the processes and that of the files.        *)
LEMMA TypeParts == (TypeOK <=> ProcessesOK /\ FilesOK) /\ (TypeOK' <=> ProcessesOK' /\ FilesOK')
BY DEF TypeOK, ProcessesOK, FilesOK

(* A process that ends leaves the others typed.                            *)
LEMMA GoneType ==
  ASSUME TypeOK, NEW p \in Processes, Gone(p)
  PROVE  ProcessesOK'
BY StoreAssumption DEF TypeOK, ProcessesOK, Gone, Goto, Holding

(* Files stay typed that are left alone, or whose save is cut short.       *)
LEMMA SameFiles ==
  ASSUME TypeOK, UNCHANGED <<truth, fts, lapses>>, UNCHANGED <<vectorFile, torn>> \/ SaveIsCut
  PROVE  FilesOK'
BY DEF TypeOK, FilesOK, SaveIsCut, truth

(* The steps of an opening keep the type.                                  *)
LEMMA OpenType ==
  ASSUME TypeOK, NEW p \in Processes, OpenStore(p)
  PROVE  TypeOK'
<1> USE StoreAssumption DEF truth, disk, memory, Goto, Holding, Lapses
<1>1. CASE LoadVectors(p)
  BY <1>1 DEF TypeOK, LoadVectors
<1>2. CASE LoadForRepair(p)
  BY <1>2 DEF TypeOK, LoadForRepair
<1>3. CASE TakeLock(p)
  <2>1. FilesOK'
    BY <1>3 DEF TypeOK, FilesOK, TakeLock
  <2>2. CASE holder = NoProcess
    <3>1. ProcessesOK'
      BY <1>3, <2>2 DEF TypeOK, ProcessesOK, TakeLock
    <3> QED
      BY <2>1, <3>1, TypeParts
  <2>3. CASE holder # NoProcess
    <3>1. ProcessesOK'
      BY <1>3, <2>3 DEF TypeOK, ProcessesOK, TakeLock
    <3> QED
      BY <2>1, <3>1, TypeParts
  <2> QED
    BY <2>2, <2>3
<1>4. CASE CatchUp(p)
  <2>1. Tail \in SUBSET Chunk
    BY DEF Tail, TypeOK
  <2>2. staged' \in SUBSET Chunk /\ vectors' \in [Processes -> SUBSET Chunk]
    <3>1. staged \in SUBSET Chunk /\ vectors[p] \in SUBSET Chunk
      BY DEF TypeOK
    <3>2. Upsert(staged, Tail) \in SUBSET Chunk /\ AddNew(vectors[p], Tail) \in SUBSET Chunk
      BY <2>1, <3>1 DEF Upsert, AddNew
    <3> QED
      BY <1>4, <3>2 DEF TypeOK, CatchUp
  <2>3. at' = [at EXCEPT ![p] = "ready"] \/ at' = [at EXCEPT ![p] = "committing"]
    BY <1>4 DEF CatchUp
  <2> QED
    BY <1>4, <2>2, <2>3 DEF TypeOK, CatchUp
<1>5. CASE CatchUpFails(p)
  <2>1. FilesOK'
    BY <1>5, SameFiles DEF CatchUpFails
  <2> QED
    BY <1>5, <2>1, GoneType, TypeParts DEF CatchUpFails
<1> QED
  BY <1>1, <1>2, <1>3, <1>4, <1>5 DEF OpenStore

(* The steps of an ingest keep the type.                                   *)
LEMMA IngestType ==
  ASSUME TypeOK, Unique(chunks), NEW p \in Processes, IngestStore(p)
  PROVE  TypeOK'
<1> USE StoreAssumption DEF truth, disk, memory, Goto, Holding, Lapses
<1>1. ASSUME NEW s \in Spaces, NEW d \in Documents, Ingest(p, s, d)
      PROVE  TypeOK'
  <2>1. PICK m \in 0 .. MaxChunkId :
          /\ IsMaxId(m) /\ m + Pieces[d] <= MaxChunkId
          /\ chunks' = chunks \cup Rows(s, d, m)
          /\ feed' = Rows(s, d, m)
    BY <1>1 DEF Ingest
  <2>2. Rows(s, d, m) \in SUBSET Chunk
    BY <2>1, NewRows
  <2>3. chunks' \in SUBSET Chunk /\ feed' \in SUBSET Chunk
    BY <2>1, <2>2 DEF TypeOK
  <2> QED
    BY <1>1, <2>3 DEF TypeOK, Ingest
<1>2. CASE FeedIndexes(p)
  BY <1>2 DEF TypeOK, FeedIndexes, Upsert, AddNew
<1>3. CASE FeedFails(p)
  <2>1. staged' \in SUBSET Chunk /\ vectors' \in [Processes -> SUBSET Chunk]
    <3>1. staged \in SUBSET Chunk /\ vectors[p] \in SUBSET Chunk /\ feed \in SUBSET Chunk
      BY DEF TypeOK
    <3>2. \A k : UpTo(feed, k) \in SUBSET Chunk
      BY <3>1 DEF UpTo
    <3>3. /\ Upsert(staged, feed) \in SUBSET Chunk
          /\ \A k : /\ Upsert(staged, UpTo(feed, k)) \in SUBSET Chunk
                    /\ AddNew(vectors[p], UpTo(feed, k)) \in SUBSET Chunk
      BY <3>1, <3>2 DEF Upsert, AddNew
    <3> QED
      BY <1>3, <3>3 DEF TypeOK, FeedFails
  <2> QED
    BY <1>3, <2>1 DEF TypeOK, FeedFails
<1> QED
  BY <1>1, <1>2, <1>3 DEF IngestStore

(* The steps of a flush keep the type.                                     *)
LEMMA FlushType ==
  ASSUME TypeOK, NEW p \in Processes, Flush(p)
  PROVE  TypeOK'
<1> USE StoreAssumption DEF truth, disk, memory, Goto, Holding, Lapses
<1>1. CASE Recall(p)
  BY <1>1 DEF TypeOK, Recall
<1>2. CASE CommitFts(p)
  BY <1>2 DEF TypeOK, CommitFts
<1>3. CASE SaveVectors(p)
  BY <1>3 DEF TypeOK, SaveVectors
<1>4. CASE Mark(p)
  <2>1. indexedMax' \in Nat
    BY <1>4 DEF Mark
  <2>2. \E step \in {"closing", "unflagging", "ready"} : at' = [at EXCEPT ![p] = step]
    BY <1>4 DEF Mark
  <2> QED
    BY <1>4, <2>1, <2>2 DEF TypeOK, Mark
<1>5. CASE FlushFails(p)
  <2>1. FilesOK'
    BY <1>5, SameFiles DEF FlushFails
  <2>2. CASE onward = "close"
    BY <1>5, <2>1, <2>2, GoneType, TypeParts DEF FlushFails
  <2>3. CASE onward # "close"
    <3>1. \E step \in {"closing", "ready"} : at' = [at EXCEPT ![p] = step]
      BY <1>5, <2>3 DEF FlushFails
    <3>2. ProcessesOK'
      BY <1>5, <2>3, <3>1 DEF FlushFails, TypeOK, ProcessesOK
    <3> QED
      BY <2>1, <3>2, TypeParts
  <2> QED
    BY <2>2, <2>3
<1> QED
  BY <1>1, <1>2, <1>3, <1>4, <1>5 DEF Flush

(* However an engine ends, the type is kept.                               *)
LEMMA CloseType ==
  ASSUME TypeOK, NEW p \in Processes, CloseStore(p)
  PROVE  TypeOK'
<1> USE StoreAssumption DEF truth, disk, memory, Goto, Holding, Lapses
<1>1. FilesOK'
  BY SameFiles DEF CloseStore, Close, Drop, Crash
<1>2. CASE Gone(p)
  BY <1>1, <1>2, GoneType, TypeParts
<1>3. CASE ~Gone(p) /\ Close(p)
  <2>1. ProcessesOK'
    BY <1>3 DEF TypeOK, ProcessesOK, Close
  <2> QED
    BY <1>1, <2>1, TypeParts
<1>4. CASE ~Gone(p) /\ Drop(p)
  <2>1. ProcessesOK'
    BY <1>4 DEF TypeOK, ProcessesOK, Drop
  <2> QED
    BY <1>1, <2>1, TypeParts
<1> QED
  BY <1>2, <1>3, <1>4 DEF CloseStore, Crash

(* The steps of a rebuild keep the type.                                   *)
LEMMA RebuildType ==
  ASSUME TypeOK, NEW p \in Processes, Rebuild(p)
  PROVE  TypeOK'
<1> USE StoreAssumption DEF truth, disk, memory, Goto, Holding, Lapses
<1>1. CASE WipeFts(p) \/ WipeFtsFails(p)
  <2>1. CASE WipeFts(p)
    BY <2>1 DEF TypeOK, WipeFts
  <2>2. CASE WipeFtsFails(p)
    BY <2>2 DEF TypeOK, WipeFtsFails
  <2> QED
    BY <1>1, <2>1, <2>2
<1>2. CASE WipeVectors(p) \/ WipeVectorsFails(p)
  <2>1. CASE WipeVectors(p)
    BY <2>1 DEF TypeOK, WipeVectors
  <2>2. CASE WipeVectorsFails(p)
    <3>1. FilesOK'
      BY <2>2, SameFiles DEF WipeVectorsFails
    <3>2. ProcessesOK'
      BY <2>2 DEF TypeOK, ProcessesOK, WipeVectorsFails
    <3> QED
      BY <3>1, <3>2, TypeParts
  <2> QED
    BY <1>2, <2>1, <2>2
<1>3. CASE Refill(p)
  BY <1>3 DEF TypeOK, Refill, Upsert, AddNew
<1>4. CASE RefillFails(p)
  <2>1. staged' \in SUBSET Chunk /\ vectors' \in [Processes -> SUBSET Chunk]
    <3>1. staged \in SUBSET Chunk /\ vectors[p] \in SUBSET Chunk /\ chunks \in SUBSET Chunk
      BY DEF TypeOK
    <3>2. \A k : UpTo(chunks, k) \in SUBSET Chunk
      BY <3>1 DEF UpTo
    <3>3. /\ Upsert(staged, chunks) \in SUBSET Chunk
          /\ \A k : /\ Upsert(staged, UpTo(chunks, k)) \in SUBSET Chunk
                    /\ AddNew(vectors[p], UpTo(chunks, k)) \in SUBSET Chunk
      BY <3>1, <3>2 DEF Upsert, AddNew
    <3> QED
      BY <1>4, <3>3 DEF TypeOK, RefillFails
  <2> QED
    BY <1>4, <2>1 DEF TypeOK, RefillFails
<1>5. CASE Unflag(p)
  BY <1>5 DEF TypeOK, Unflag
<1> QED
  BY <1>1, <1>2, <1>3, <1>4, <1>5 DEF Rebuild

(* Every step keeps the type.                                              *)
LEMMA NextType ==
  ASSUME TypeOK, Unique(chunks), [Next]_vars
  PROVE  TypeOK'
<1>1. CASE UNCHANGED vars
  BY <1>1 DEF vars, truth, disk, memory, TypeOK
<1> QED
  BY <1>1, OpenType, IngestType, FlushType, CloseType, RebuildType DEF Next

-----------------------------------------------------------------------------
(***************************************************************************)
(* The holder's place in its own steps                                     *)
(***************************************************************************)

(* What a step leaves to be shown, once its types are known.               *)
Kept ==
  /\ Derived /\ Feeding /\ MarkIsDurable
  /\ holder # NoProcess => InStep(holder) /\ FindsAll(holder)

(* Type and the kept part make the invariant.                              *)
LEMMA KeptIsEnough == TypeOK /\ Kept => IInv
BY OnlyTheHolder DEF Kept, IInv

(* And so in the next state.                                               *)
LEMMA KeptIsEnoughNext == TypeOK' /\ Kept' => IInv'
BY KeptIsEnough, PTL

(* A step of the holder, at the place it is taken from.                    *)
LEMMA HolderAt ==
  ASSUME IInv, NEW p \in Processes, at[p] \in Holding
  PROVE  /\ p = holder /\ p # NoProcess
         /\ TypeOK /\ Derived /\ Feeding /\ MarkIsDurable
         /\ InStep(p) /\ FindsAll(p)
BY StoreAssumption DEF IInv, TypeOK

(* A process that ends takes nothing with it that is on disk.              *)
LEMMA GoneKept ==
  ASSUME IInv, TypeOK', NEW p \in Processes, Gone(p),
         UNCHANGED <<truth, fts, lapses>>,
         \/ UNCHANGED <<vectorFile, torn>>
         \/ p = holder /\ SaveIsCut
  PROVE  Kept'
<1> USE DEF truth, disk, memory, Gone, Goto
<1>1. Derived'
  BY DEF IInv, TypeOK, Derived, TruthFirst, SaveIsCut
<1>2. MarkIsDurable'
  BY DEF IInv, MarkIsDurable, Loud, SaveIsCut
<1>3. CASE holder = p
  BY <1>1, <1>2, <1>3 DEF Kept, Feeding
<1>4. CASE holder # p
  <2>1. UNCHANGED <<vectorFile, torn, holder, onward, feed, staged, indexesDirty>>
    BY <1>4
  <2>2. holder # NoProcess =>
          at'[holder] = at[holder] /\ vectors'[holder] = vectors[holder]
    BY <1>4 DEF IInv, TypeOK
  <2>3. Feeding'
    BY <2>1, <2>2, StoreAssumption DEF IInv, Feeding
  <2>4. holder' # NoProcess => InStep(holder)' /\ FindsAll(holder)'
    BY <2>1, <2>2 DEF IInv, TypeOK, InStep, FindsAll
  <2> QED
    BY <1>1, <1>2, <2>1, <2>3, <2>4 DEF Kept
<1> QED
  BY <1>3, <1>4

-----------------------------------------------------------------------------
(***************************************************************************)
(* The steps                                                               *)
(***************************************************************************)

(* Before it has the lock, a process has nothing but a copy.               *)
LEMMA LoadKept ==
  ASSUME IInv, TypeOK', NEW p \in Processes, LoadVectors(p) \/ LoadForRepair(p)
  PROVE  Kept'
<1> USE DEF truth, disk, memory, Goto, LoadVectors, LoadForRepair
<1>1. at[p] = "off" /\ p # holder
  BY DEF IInv, TypeOK, Holding
<1>2. Derived'
  BY DEF IInv, TypeOK, Derived, TruthFirst
<1>3. MarkIsDurable'
  BY DEF IInv, TypeOK, MarkIsDurable, Loud, Lapses
<1>4. holder # NoProcess =>
        at'[holder] = at[holder] /\ vectors'[holder] = vectors[holder]
  BY <1>1 DEF IInv, TypeOK
<1>5. Feeding'
  BY <1>4, StoreAssumption DEF IInv, Feeding
<1>6. holder' # NoProcess => InStep(holder)' /\ FindsAll(holder)'
  BY <1>4 DEF IInv, TypeOK, InStep, FindsAll
<1> QED
  BY <1>2, <1>3, <1>5, <1>6 DEF Kept

(* Whoever takes the lock knows whether its copy is the last one saved.    *)
LEMMA TakeLockKept ==
  ASSUME IInv, TypeOK', NEW p \in Processes, TakeLock(p)
  PROVE  Kept'
<1> USE DEF truth, disk, memory, Goto, TakeLock
<1>1. at[p] = "loaded" /\ p # holder
  BY DEF IInv, TypeOK, Holding
<1>2. Derived'
  BY DEF IInv, TypeOK, Derived, TruthFirst
<1>3. MarkIsDurable'
  BY DEF IInv, TypeOK, MarkIsDurable, Loud
<1>4. CASE holder = NoProcess
  <2>1. holder' = p /\ at'[p] = "opening" /\ staged' = fts
    BY <1>4 DEF IInv, TypeOK
  <2>2. feed = {}
    BY <1>4, StoreAssumption DEF IInv, Feeding
  <2>3. lapses' = {} => vectors[p] = vectorFile /\ ~torn
    BY <1>4
  <2> QED
    BY <1>2, <1>3, <2>1, <2>2, <2>3 DEF Kept, Feeding, InStep, FindsAll
<1>5. CASE holder # NoProcess
  <2>1. at'[holder] = at[holder] /\ UNCHANGED <<holder, staged, lapses>>
    BY <1>1, <1>5 DEF IInv, TypeOK
  <2>2. Feeding'
    BY <2>1 DEF IInv, Feeding
  <2>3. InStep(holder)' /\ FindsAll(holder)'
    BY <1>5, <2>1 DEF IInv, TypeOK, InStep, FindsAll
  <2> QED
    BY <1>2, <1>3, <2>2, <2>3 DEF Kept
<1> QED
  BY <1>4, <1>5

(* Opening finds what lies above the mark, and trusts it for the rest.     *)
LEMMA CatchUpKept ==
  ASSUME IInv, TypeOK', NEW p \in Processes, CatchUp(p)
  PROVE  Kept'
<1> USE DEF truth, disk, memory, Goto
<1>1. at[p] = "opening" /\ at[p] \in Holding
  BY DEF CatchUp, Holding
<1>2. /\ p = holder /\ holder' = p /\ p # NoProcess
      /\ TypeOK /\ Derived /\ Feeding /\ MarkIsDurable /\ InStep(p)
  BY <1>1, HolderAt DEF CatchUp
<1>3. feed = {} /\ feed' = {}
  BY <1>1, <1>2 DEF Feeding, CatchUp
<1>4. Tail \in SUBSET chunks /\ \A c \in chunks \ Tail : c.id <= indexedMax
  BY <1>2 DEF Tail, TypeOK, Chunk
<1>5. Upsert(staged, Tail) = staged \cup Tail /\ AddNew(vectors[p], Tail) = vectors[p] \cup Tail
  BY <1>2, <1>4, IndexingIsUnion DEF Derived, TruthFirst
<1>6. ~indexDirty /\ lapses = {} =>
        \A c \in chunks : c.id <= indexedMax => c \in staged /\ c \in vectors[p]
  BY <1>1, <1>2 DEF InStep, MarkIsDurable, Loud
<1>7. MarkIsDurable'
  BY <1>2 DEF CatchUp, MarkIsDurable, Loud
<1>8. PICK m \in 0 .. MaxChunkId :
        /\ IsMaxId(m)
        /\ IF m <= indexedMax
           THEN /\ at' = [at EXCEPT ![p] = "ready"]
                /\ UNCHANGED <<onward, staged, vectors, indexesDirty>>
           ELSE /\ staged' = staged \cup Tail
                /\ vectors' = [vectors EXCEPT ![p] = vectors[p] \cup Tail]
                /\ onward' = "open" /\ at' = [at EXCEPT ![p] = "committing"]
  BY <1>5 DEF CatchUp
<1>9. /\ chunks' = chunks /\ indexDirty' = indexDirty /\ lapses' = lapses
      /\ fts' = fts /\ vectorFile' = vectorFile /\ indexedMax' = indexedMax
  BY DEF CatchUp
<1>10. Derived'
  BY <1>2, <1>3, <1>4, <1>8, <1>9 DEF Derived, TruthFirst, TypeOK
<1>11. CASE m <= indexedMax
  <2>1. at'[p] = "ready" /\ UNCHANGED <<staged, vectors>>
    BY <1>2, <1>8, <1>11 DEF TypeOK
  <2>2. \A c \in chunks : c.id <= indexedMax
    BY <1>2, <1>8, <1>11, AtMostMax DEF TypeOK, Chunk
  <2> QED
    BY <1>2, <1>3, <1>6, <1>7, <1>9, <1>10, <2>1, <2>2 DEF Kept, Feeding, InStep, FindsAll
<1>12. CASE ~(m <= indexedMax)
  <2>1. /\ at'[p] = "committing" /\ onward' = "open"
        /\ staged' = staged \cup Tail /\ vectors'[p] = vectors[p] \cup Tail
    BY <1>2, <1>8, <1>12 DEF TypeOK
  <2> QED
    BY <1>2, <1>3, <1>4, <1>6, <1>7, <1>9, <1>10, <2>1 DEF Kept, Feeding, InStep, FindsAll
<1> QED
  BY <1>11, <1>12

(* A new document is fed before anybody looks for it.                      *)
LEMMA IngestKept ==
  ASSUME IInv, TypeOK', NEW p \in Processes, NEW s \in Spaces, NEW d \in Documents,
         Ingest(p, s, d)
  PROVE  Kept'
<1> USE DEF truth, disk, memory, Goto
<1>1. at[p] = "ready" /\ at[p] \in Holding
  BY DEF Ingest, Holding
<1>2. /\ p = holder /\ holder' = p /\ p # NoProcess
      /\ TypeOK /\ Derived /\ Feeding /\ MarkIsDurable /\ FindsAll(p)
  BY <1>1, HolderAt DEF Ingest
<1>3. PICK m \in 0 .. MaxChunkId :
        /\ IsMaxId(m) /\ m + Pieces[d] <= MaxChunkId
        /\ chunks' = chunks \cup Rows(s, d, m) /\ feed' = Rows(s, d, m)
  BY DEF Ingest
<1>4. Unique(chunks')
  BY <1>2, <1>3, NewRows DEF Derived
<1>5. at'[p] = "feeding" /\ feed = {}
  BY <1>1, <1>2 DEF Ingest, TypeOK, Feeding
<1>6. Derived'
  BY <1>2, <1>3, <1>4 DEF Derived, TruthFirst, Ingest, Ids
<1>7. indexedMax <= m
  BY <1>2, <1>3 DEF Derived, IsMaxId, Ids
<1>8. \A c \in feed' : ~(c.id <= indexedMax)
  BY <1>2, <1>3, <1>7, StoreAssumption DEF Rows, TypeOK
<1>9. MarkIsDurable'
  BY <1>2, <1>3, <1>8 DEF Ingest, MarkIsDurable, Loud, TypeOK
<1>10. FindsAll(p)'
  BY <1>1, <1>2, <1>3, <1>5 DEF Ingest, FindsAll
<1> QED
  BY <1>2, <1>5, <1>6, <1>9, <1>10 DEF Kept, Feeding, InStep

(* Feeding the indexes, or failing at it, keeps the invariant.             *)
LEMMA FeedKept ==
  ASSUME IInv, TypeOK', NEW p \in Processes, FeedIndexes(p) \/ FeedFails(p)
  PROVE  Kept'
<1> USE DEF truth, disk, memory, Goto
<1>1. at[p] = "feeding" /\ at[p] \in Holding
  BY DEF FeedIndexes, FeedFails, Holding
<1>2. /\ p = holder /\ holder' = p /\ p # NoProcess
      /\ TypeOK /\ Derived /\ MarkIsDurable /\ FindsAll(p)
  BY <1>1, HolderAt DEF FeedIndexes, FeedFails
<1>3. at'[p] = "ready" /\ feed' = {}
  BY <1>2 DEF FeedIndexes, FeedFails, TypeOK
<1>4. UNCHANGED <<chunks, indexedMax, disk, holder, onward, lapses>>
  BY DEF FeedIndexes, FeedFails
<1>5. MarkIsDurable'
  BY <1>2, <1>4 DEF MarkIsDurable, Loud, FeedIndexes, FeedFails
<1>6. CASE FeedIndexes(p)
  <2>1. staged' = staged \cup feed /\ vectors' = [vectors EXCEPT ![p] = vectors[p] \cup feed]
    BY <1>2, <1>6, IndexingIsUnion DEF FeedIndexes, Derived, TruthFirst
  <2>2. Derived'
    BY <1>2, <1>3, <1>4, <2>1 DEF Derived, TruthFirst, TypeOK
  <2>3. FindsAll(p)'
    BY <1>1, <1>2, <1>3, <1>4, <1>6, <2>1 DEF FindsAll, FeedIndexes, TypeOK
  <2> QED
    BY <1>2, <1>3, <1>5, <2>2, <2>3 DEF Kept, Feeding, InStep
<1>7. CASE FeedFails(p)
  <2>1. \A k : UpTo(feed, k) \in SUBSET chunks
    BY <1>2 DEF UpTo, Derived
  <2>2. \A k : /\ Upsert(staged, UpTo(feed, k)) \in SUBSET chunks
               /\ Upsert(staged, feed) \in SUBSET chunks
               /\ AddNew(vectors[p], UpTo(feed, k)) \in SUBSET chunks
    BY <1>2, <2>1 DEF Derived, TruthFirst, Upsert, AddNew
  <2>3. staged' \in SUBSET chunks /\ \A q \in Processes : vectors'[q] \in SUBSET chunks
    BY <1>2, <1>7, <2>2 DEF FeedFails, Derived, TruthFirst, TypeOK
  <2>4. Derived'
    BY <1>2, <1>3, <1>4, <2>3 DEF Derived, TruthFirst
  <2>5. FindsAll(p)'
    BY <1>7 DEF FeedFails, FindsAll
  <2> QED
    BY <1>2, <1>3, <1>5, <2>4, <2>5 DEF Kept, Feeding, InStep
<1> QED
  BY <1>6, <1>7

-----------------------------------------------------------------------------
(* The flush.  Where it is part of a rebuild, it makes everything durable; *)
(* elsewhere, everything the holder finds.                                 *)
LEMMA FlushKept ==
  ASSUME IInv, TypeOK', NEW p \in Processes,
         Recall(p) \/ CommitFts(p) \/ SaveVectors(p) \/ Mark(p)
  PROVE  Kept'
<1> USE DEF truth, disk, memory, Goto, Recall, CommitFts, SaveVectors, Mark
<1>1. at[p] \in {"ready", "committing", "saving", "marking"} /\ at[p] \in Holding
  BY DEF Holding
<1>2. /\ p = holder /\ holder' = p /\ p # NoProcess
      /\ TypeOK /\ Derived /\ Feeding /\ MarkIsDurable /\ InStep(p) /\ FindsAll(p)
  BY <1>1, HolderAt
<1>3. feed = {} /\ feed' = {}
  BY <1>1, <1>2 DEF Feeding
<1>4. UNCHANGED <<chunks, indexDirty, staged, vectors, lapses>>
  OBVIOUS
<1>5. ~indexDirty /\ lapses = {} => \A c \in chunks : c \in staged /\ c \in vectors[p]
  BY <1>1, <1>2, <1>3 DEF FindsAll
<1>6. FindsAll(p)'
  BY <1>4, <1>5 DEF FindsAll
<1>7. CASE Recall(p)
  <2>1. at'[p] = "committing" /\ onward' = "recall" /\ Derived' /\ MarkIsDurable'
    BY <1>2, <1>7 DEF TypeOK, Derived, TruthFirst, MarkIsDurable, Loud
  <2> QED
    BY <1>2, <1>3, <1>6, <2>1 DEF Kept, Feeding, InStep
<1>8. CASE CommitFts(p)
  <2>1. at[p] = "committing" /\ at'[p] = "saving" /\ fts' = staged
    BY <1>2, <1>8 DEF TypeOK
  <2>2. Derived' /\ MarkIsDurable'
    BY <1>2, <1>5, <1>8 DEF Derived, TruthFirst, MarkIsDurable, Loud
  <2> QED
    BY <1>2, <1>3, <1>4, <1>6, <1>8, <2>1, <2>2 DEF Kept, Feeding, InStep
<1>9. CASE SaveVectors(p)
  <2>1. at[p] = "saving" /\ at'[p] = "marking" /\ vectorFile' = vectors[p] /\ ~torn'
    BY <1>2, <1>9 DEF TypeOK
  <2>2. fts = staged
    BY <1>2, <2>1 DEF InStep
  <2>3. Derived' /\ MarkIsDurable'
    BY <1>2, <1>5, <1>9, <2>2 DEF Derived, TruthFirst, MarkIsDurable, Loud
  <2> QED
    BY <1>2, <1>3, <1>4, <1>6, <1>9, <2>1, <2>2, <2>3 DEF Kept, Feeding, InStep
<1>10. CASE Mark(p)
  <2>1. /\ at[p] = "marking" /\ at'[p] \in {"closing", "unflagging", "ready"}
        /\ at'[p] = "unflagging" => onward = "rebuild"
        /\ UNCHANGED <<fts, vectorFile, torn, onward>>
    BY <1>2, <1>10 DEF TypeOK
  <2>2. fts = staged /\ vectorFile = vectors[p] /\ ~torn
    BY <1>2, <2>1 DEF InStep
  <2>3. onward = "rebuild" => staged = chunks /\ vectors[p] = chunks
    BY <1>2, <2>1 DEF InStep
  <2>4. MarkIsDurable'
    BY <1>4, <1>5, <2>1, <2>2 DEF MarkIsDurable, Loud
  <2>5. indexedMax' = 0 \/ indexedMax' \in Ids(chunks)
    BY <1>10 DEF IsMaxId
  <2>6. Derived'
    BY <1>2, <1>3, <1>4, <2>1, <2>5 DEF Derived, TruthFirst
  <2> QED
    BY <1>2, <1>3, <1>4, <1>6, <2>1, <2>2, <2>3, <2>4, <2>6 DEF Kept, Feeding, InStep
<1> QED
  BY <1>7, <1>8, <1>9, <1>10

(* A flush that fails leaves the mark where it was.                        *)
LEMMA FlushFailsKept ==
  ASSUME IInv, TypeOK', NEW p \in Processes, FlushFails(p)
  PROVE  Kept'
<1> USE DEF truth, disk, memory, Goto
<1>1. at[p] \in {"committing", "saving"} /\ at[p] \in Holding
  BY DEF FlushFails, Holding
<1>2. /\ p = holder /\ p # NoProcess
      /\ TypeOK /\ Derived /\ Feeding /\ MarkIsDurable /\ InStep(p) /\ FindsAll(p)
  BY <1>1, HolderAt
<1>3. CASE onward = "close"
  <2>1. /\ Gone(p) /\ UNCHANGED <<truth, fts, lapses>>
        /\ UNCHANGED <<vectorFile, torn>> \/ SaveIsCut
    BY <1>3 DEF FlushFails
  <2> QED
    BY <1>2, <2>1, GoneKept
<1>4. CASE onward # "close"
  <2>1. /\ at'[p] \in {"closing", "ready"}
        /\ UNCHANGED <<chunks, indexedMax, indexDirty, lapses, fts, holder,
                       feed, staged, vectors>>
        /\ UNCHANGED <<vectorFile, torn>> \/ SaveIsCut
    BY <1>2, <1>4 DEF FlushFails, TypeOK
  <2>2. feed = {}
    BY <1>1, <1>2 DEF Feeding
  <2>3. Derived' /\ MarkIsDurable'
    BY <1>2, <2>1 DEF Derived, TruthFirst, MarkIsDurable, Loud, SaveIsCut
  <2>4. FindsAll(p)'
    BY <1>1, <1>2, <2>1 DEF FindsAll
  <2> QED
    BY <1>2, <2>1, <2>2, <2>3, <2>4 DEF Kept, Feeding, InStep
<1> QED
  BY <1>3, <1>4

(* The end of an engine, wanted or not.                                    *)
LEMMA CloseKept ==
  ASSUME IInv, TypeOK', NEW p \in Processes, CloseStore(p)
  PROVE  Kept'
<1> USE DEF truth, disk, memory, Goto
<1>1. CASE Crash(p)
  <2>1. at[p] \in {"saving", "emptying"} => p = holder
    BY DEF IInv, TypeOK, Holding
  <2> QED
    BY <1>1, <2>1, GoneKept DEF Crash
<1>2. CASE Close(p) /\ at[p] = "reading"
  BY <1>2, GoneKept DEF Close
<1>3. CASE Drop(p) /\ ~indexesDirty
  BY <1>3, GoneKept DEF Drop
<1>4. CASE (Close(p) /\ at[p] = "ready") \/ (Drop(p) /\ indexesDirty)
  <2>1. at[p] \in {"ready", "closing"} /\ at[p] \in Holding
    BY <1>4 DEF Close, Drop, Holding
  <2>2. /\ p = holder /\ p # NoProcess
        /\ TypeOK /\ Derived /\ Feeding /\ MarkIsDurable /\ FindsAll(p)
    BY <2>1, HolderAt
  <2>3. /\ UNCHANGED <<truth, disk, holder, memory, lapses>>
        /\ at'[p] = "closing" \/ (at'[p] = "committing" /\ onward' = "close")
    BY <1>4, <2>2 DEF Close, Drop, TypeOK
  <2>4. feed = {}
    BY <2>1, <2>2 DEF Feeding
  <2>5. Derived' /\ MarkIsDurable'
    BY <2>2, <2>3 DEF Derived, TruthFirst, MarkIsDurable, Loud
  <2>6. FindsAll(p)'
    BY <2>1, <2>2, <2>3 DEF FindsAll
  <2> QED
    BY <2>2, <2>3, <2>4, <2>5, <2>6 DEF Kept, Feeding, InStep
<1> QED
  BY <1>1, <1>2, <1>3, <1>4 DEF CloseStore, Close, Drop

(* A rebuild: until it ends, nothing can be trusted; when it does, all can. *)
LEMMA RebuildKept ==
  ASSUME IInv, TypeOK', NEW p \in Processes, Rebuild(p)
  PROVE  Kept'
<1> USE DEF truth, disk, memory, Goto
<1>1. at[p] \in {"ready", "emptying", "refilling", "unflagging"} /\ at[p] \in Holding
  BY DEF Rebuild, WipeFts, WipeFtsFails, WipeVectors, WipeVectorsFails, Refill,
         RefillFails, Unflag, Holding
<1>2. /\ p = holder /\ p # NoProcess
      /\ TypeOK /\ Derived /\ Feeding /\ InStep(p)
  BY <1>1, HolderAt
<1>3. UNCHANGED <<chunks, indexedMax, holder, feed>> /\ feed = {}
  BY <1>1, <1>2 DEF Feeding, Rebuild, WipeFts, WipeFtsFails, WipeVectors,
     WipeVectorsFails, Refill, RefillFails, Unflag
<1>4. CASE WipeFts(p) \/ WipeFtsFails(p)
  <2>1. "rebuild" \in lapses' /\ at'[p] \in {"emptying", "ready"}
    BY <1>2, <1>4 DEF WipeFts, WipeFtsFails, TypeOK
  <2>2. Derived'
    BY <1>2, <1>3, <1>4 DEF WipeFts, WipeFtsFails, Derived, TruthFirst
  <2> QED
    BY <1>2, <1>3, <2>1, <2>2 DEF Kept, Feeding, InStep, FindsAll, MarkIsDurable
<1>5. CASE WipeVectors(p) \/ WipeVectorsFails(p)
  <2>1. "rebuild" \in lapses' /\ at'[p] \in {"refilling", "ready"}
    BY <1>2, <1>5 DEF WipeVectors, WipeVectorsFails, TypeOK, InStep
  <2>2. Derived'
    BY <1>2, <1>3, <1>5 DEF WipeVectors, WipeVectorsFails, SaveIsCut, Derived,
       TruthFirst, TypeOK
  <2> QED
    BY <1>2, <1>3, <2>1, <2>2 DEF Kept, Feeding, InStep, FindsAll, MarkIsDurable
<1>6. CASE Refill(p)
  <2>1. Upsert(staged, chunks) = chunks /\ AddNew(vectors[p], chunks) = chunks
    <3>1. Unique(chunks) /\ staged \in SUBSET chunks /\ vectors[p] \in SUBSET chunks
      BY <1>2 DEF Derived, TruthFirst
    <3>2. Upsert(staged, chunks) = staged \cup chunks
      BY <3>1, IndexingIsUnion
    <3>3. AddNew(vectors[p], chunks) = vectors[p] \cup chunks
      BY <3>1, IndexingIsUnion
    <3> QED
      BY <3>1, <3>2, <3>3
  <2>2. /\ staged' = chunks /\ vectors' = [vectors EXCEPT ![p] = chunks]
        /\ at'[p] = "committing" /\ "rebuild" \in lapses'
    BY <1>2, <1>6, <2>1 DEF Refill, TypeOK, InStep
  <2>3. Derived'
    BY <1>2, <1>3, <1>6, <2>2 DEF Refill, Derived, TruthFirst, TypeOK
  <2> QED
    BY <1>2, <1>3, <2>2, <2>3 DEF Kept, Feeding, InStep, FindsAll, MarkIsDurable, TypeOK
<1>7. CASE RefillFails(p)
  <2>1. "rebuild" \in lapses' /\ at'[p] = "ready"
    BY <1>2, <1>7 DEF RefillFails, TypeOK, InStep
  <2>2. \A k : UpTo(chunks, k) \in SUBSET chunks
    BY DEF UpTo
  <2>3. \A k : /\ Upsert(staged, UpTo(chunks, k)) \in SUBSET chunks
               /\ Upsert(staged, chunks) \in SUBSET chunks
               /\ AddNew(vectors[p], UpTo(chunks, k)) \in SUBSET chunks
    BY <1>2, <2>2 DEF Derived, TruthFirst, Upsert, AddNew
  <2>4. staged' \in SUBSET chunks /\ \A q \in Processes : vectors'[q] \in SUBSET chunks
    BY <1>2, <1>7, <2>3 DEF RefillFails, Derived, TruthFirst, TypeOK
  <2>5. Derived'
    BY <1>2, <1>3, <1>7, <2>4 DEF RefillFails, Derived, TruthFirst
  <2> QED
    BY <1>2, <1>3, <2>1, <2>5 DEF Kept, Feeding, InStep, FindsAll, MarkIsDurable
<1>8. CASE Unflag(p)
  <2>1. /\ at[p] = "unflagging" /\ at'[p] = "ready"
        /\ UNCHANGED <<fts, vectorFile, torn, staged, vectors>>
    BY <1>2, <1>8 DEF Unflag, TypeOK
  <2>2. fts = chunks /\ vectorFile = chunks /\ staged = chunks /\ vectors[p] = chunks
    BY <1>2, <2>1 DEF InStep
  <2>3. Derived' /\ MarkIsDurable' /\ FindsAll(p)'
    BY <1>2, <1>3, <2>1, <2>2 DEF Derived, TruthFirst, MarkIsDurable, FindsAll
  <2> QED
    BY <1>2, <1>3, <2>1, <2>3 DEF Kept, Feeding, InStep
<1> QED
  BY <1>4, <1>5, <1>6, <1>7, <1>8 DEF Rebuild

(* Every step keeps the invariant.                                         *)
LEMMA NextIInv == IInv /\ [Next]_vars => IInv'
<1> SUFFICES ASSUME IInv, [Next]_vars PROVE IInv'
  OBVIOUS
<1>1. CASE UNCHANGED vars
  BY <1>1 DEF vars, truth, disk, memory, IInv, TypeOK, Derived, Unique, Ids, TruthFirst,
     Feeding, InStep, FindsAll, MarkIsDurable, Loud
<1>2. ASSUME NEW p \in Processes,
             OpenStore(p) \/ IngestStore(p) \/ Flush(p) \/ CloseStore(p) \/ Rebuild(p)
      PROVE  IInv'
  <2>1. TypeOK'
    BY <1>2, NextType DEF IInv, Derived, Next
  <2>2. Kept'
    <3>1. CASE OpenStore(p)
      <4>1. CASE CatchUpFails(p)
        BY <2>1, <4>1, GoneKept DEF CatchUpFails, disk
      <4> QED
        BY <2>1, <3>1, <4>1, LoadKept, TakeLockKept, CatchUpKept DEF OpenStore
    <3>2. CASE IngestStore(p)
      BY <2>1, <3>2, IngestKept, FeedKept DEF IngestStore
    <3>3. CASE Flush(p)
      BY <2>1, <3>3, FlushKept, FlushFailsKept DEF Flush
    <3> QED
      BY <1>2, <2>1, <3>1, <3>2, <3>3, CloseKept, RebuildKept
  <2> QED
    BY <2>1, <2>2, KeptIsEnoughNext
<1> QED
  BY <1>1, <1>2 DEF Next

-----------------------------------------------------------------------------
(***************************************************************************)
(* Theorems                                                                *)
(***************************************************************************)

(* The rows, the indexes, and the steps between them stay in step.         *)
THEOREM StoreInvariant == Spec => []IInv
BY InitIInv, NextIInv, PTL DEF Spec

(* Type correctness of the stores.                                         *)
THEOREM StoreTypeCorrect == Spec => []TypeOK
<1>1. IInv => TypeOK
  BY DEF IInv
<1> QED
  BY <1>1, StoreInvariant, PTL

(* The high-water mark never covers a chunk that an index on disk has      *)
(* lost: for any number of processes that open, ingest, flush, fail, die   *)
(* and rebuild in any order, as long as no copy of the vectors was stale   *)
(* and no rebuild was cut short.                                           *)
THEOREM MarkCoversNothingLost == Spec => []MarkIsDurable
<1>1. IInv => MarkIsDurable
  BY DEF IInv
<1> QED
  BY <1>1, StoreInvariant, PTL

(* An open writer finds every chunk it is not just about to feed.          *)
THEOREM OpenWriterFindsAll == Spec => []WriterFindsAll
<1>1. IInv => WriterFindsAll
  BY DEF IInv, FindsAll, WriterFindsAll
<1> QED
  BY <1>1, StoreInvariant, PTL

(* No index, on disk or in memory, holds what is not a stored chunk.       *)
THEOREM IndexesFollowRows == Spec => []TruthFirst
<1>1. IInv => TruthFirst
  BY DEF IInv, Derived
<1> QED
  BY <1>1, StoreInvariant, PTL

(* Only a rebuild clears index_dirty, and then both indexes on disk are    *)
(* exactly the chunks table.                                               *)
THEOREM RebuildEndsWhole == Spec => RebuildIsWhole
<1>1. ASSUME IInv, [Next]_vars, indexDirty, ~indexDirty'
      PROVE  fts' = chunks' /\ vectorFile' = chunks'
  <2>1. PICK p \in Processes : Unflag(p)
    <3> USE <1>1 DEF truth, disk
    <3>1. PICK p \in Processes : OpenStore(p) \/ IngestStore(p) \/ Flush(p) \/ CloseStore(p) \/ Rebuild(p)
      BY DEF vars, Next
    <3>2. ~OpenStore(p)
      BY DEF OpenStore, LoadVectors, LoadForRepair, TakeLock, CatchUp, CatchUpFails
    <3>3. ~IngestStore(p) /\ ~Flush(p)
      BY DEF IngestStore, Ingest, FeedIndexes, FeedFails, Flush, Recall, CommitFts, SaveVectors,
         Mark, FlushFails
    <3>4. ~CloseStore(p)
      BY DEF CloseStore, Close, Drop, Crash
    <3>5. Rebuild(p) => Unflag(p)
      BY DEF Rebuild, WipeFts, WipeFtsFails, WipeVectors, WipeVectorsFails, Refill, RefillFails
    <3> QED
      BY <3>1, <3>2, <3>3, <3>4, <3>5
  <2>2. at[p] = "unflagging" /\ InStep(p)
    BY <1>1, <2>1 DEF Unflag, IInv
  <2> QED
    BY <2>1, <2>2 DEF Unflag, InStep, disk
<1> QED
  BY <1>1, StoreInvariant, PTL DEF Spec, RebuildIsWhole

-----------------------------------------------------------------------------
(***************************************************************************)
(* What the documentation says holds where processes do not overlap        *)
(***************************************************************************)

(* A store is opened when no other process has it open.                    *)
OneAtATime == \A p, q \in Processes : at[p] # "off" /\ at[q] # "off" => p = q

(* Then the copy of the vectors that an open loads is the file it saves    *)
(* over, and nothing but a rebuild is unfinished.                          *)
AloneInv ==
  /\ lapses \subseteq {"rebuild"}
  /\ torn => vectorFile = {}
  /\ \A p \in Processes : at[p] = "loaded" => vectors[p] = vectorFile /\ ~torn

(* A process that steps is the only one that is there.                     *)
LEMMA OthersAreOff ==
  ASSUME TypeOK, OneAtATime, OneAtATime', NEW p \in Processes,
         NEW step \in {"off", "loaded", "reading"} \cup Holding, at' = [at EXCEPT ![p] = step],
         at[p] # "off" \/ step # "off"
  PROVE  \A q \in Processes : at'[q] = "loaded" => q = p /\ step = "loaded"
<1>1. SUFFICES ASSUME NEW q \in Processes, at'[q] = "loaded", q # p PROVE FALSE
  BY DEF TypeOK
<1>2. at[q] = "loaded" /\ at'[p] = step
  BY <1>1 DEF TypeOK
<1> QED
  BY <1>1, <1>2 DEF OneAtATime

(* What an open keeps of it.                                               *)
LEMMA OpenAlone ==
  ASSUME IInv, AloneInv, OneAtATime, OneAtATime', NEW p \in Processes, OpenStore(p)
  PROVE  AloneInv'
<1> USE DEF truth, disk, memory, Goto
<1>1. TypeOK
  BY DEF IInv
<1>2. CASE LoadVectors(p)
  <2>1. \A q \in Processes : at'[q] = "loaded" => q = p
    BY <1>1, <1>2, OthersAreOff DEF LoadVectors
  <2>2. vectors'[p] = vectorFile
    BY <1>1, <1>2 DEF LoadVectors, TypeOK
  <2> QED
    BY <1>2, <2>1, <2>2 DEF LoadVectors, AloneInv
<1>3. CASE LoadForRepair(p)
  <2>1. \A q \in Processes : at'[q] = "loaded" => q = p
    BY <1>1, <1>3, OthersAreOff DEF LoadForRepair
  <2>2. vectors'[p] = {} /\ vectorFile' = {} /\ ~ torn'
    BY <1>1, <1>3 DEF LoadForRepair, TypeOK, AloneInv
  <2> QED
    BY <1>3, <2>1, <2>2 DEF LoadForRepair, AloneInv
<1>4. CASE TakeLock(p)
  <2>1. PICK step \in {"opening", "reading"} : at' = [at EXCEPT ![p] = step]
    BY <1>4 DEF TakeLock
  <2>2. \A q \in Processes : at'[q] # "loaded"
    BY <1>1, <1>4, <2>1, OthersAreOff DEF TakeLock, Holding
  <2>3. lapses' = lapses
    BY <1>4 DEF TakeLock, AloneInv
  <2> QED
    BY <1>4, <2>2, <2>3 DEF TakeLock, AloneInv
<1>5. CASE CatchUp(p)
  <2>1. PICK step \in {"ready", "committing"} : at' = [at EXCEPT ![p] = step]
    BY <1>5 DEF CatchUp
  <2>2. \A q \in Processes : at'[q] # "loaded"
    BY <1>1, <1>5, <2>1, OthersAreOff DEF CatchUp, Holding
  <2> QED
    BY <1>5, <2>2 DEF CatchUp, AloneInv
<1>6. CASE CatchUpFails(p)
  <2>1. \A q \in Processes : at'[q] # "loaded"
    BY <1>1, <1>6, OthersAreOff DEF CatchUpFails, Gone
  <2> QED
    BY <1>6, <2>1 DEF CatchUpFails, AloneInv
<1> QED
  BY <1>2, <1>3, <1>4, <1>5, <1>6 DEF OpenStore

(* The holder's later steps, and those of a reader that closes.            *)
LEMMA LaterAlone ==
  ASSUME IInv, AloneInv, OneAtATime, OneAtATime', NEW p \in Processes,
         IngestStore(p) \/ Flush(p) \/ CloseStore(p) \/ Rebuild(p)
  PROVE  AloneInv'
<1> USE DEF truth, disk, memory, Goto
<1>1. TypeOK
  BY DEF IInv
<1>2. /\ at[p] # "off"
      /\ \E step \in {"off"} \cup Holding : at' = [at EXCEPT ![p] = step]
  <2>1. CASE IngestStore(p)
    BY <2>1 DEF IngestStore, Ingest, FeedIndexes, FeedFails, Holding
  <2>2. CASE Flush(p)
    BY <2>2 DEF Flush, Recall, CommitFts, SaveVectors, Mark, FlushFails, Gone, Holding
  <2>3. CASE CloseStore(p)
    BY <2>3 DEF CloseStore, Close, Drop, Crash, Gone, Holding
  <2>4. CASE Rebuild(p)
    BY <2>4 DEF Rebuild, WipeFts, WipeFtsFails, WipeVectors, WipeVectorsFails, Refill,
           RefillFails, Unflag, Holding
  <2> QED
    BY <2>1, <2>2, <2>3, <2>4
<1>3. \A q \in Processes : at'[q] # "loaded"
  BY <1>1, <1>2, OthersAreOff DEF Holding
<1>4. lapses' \subseteq {"rebuild"}
  <2>1. CASE Rebuild(p)
    <3>1. CASE Unflag(p)
      <4>1. vectorFile = vectors[p]
        BY <3>1 DEF IInv, InStep, Unflag
      <4> QED
        BY <3>1, <4>1 DEF Unflag
    <3>2. CASE ~ Unflag(p)
      BY <2>1, <3>2 DEF Rebuild, WipeFts, WipeFtsFails, WipeVectors, WipeVectorsFails, Refill,
             RefillFails, AloneInv
    <3> QED
      BY <3>1, <3>2
  <2>2. CASE ~ Rebuild(p)
    <3>1. lapses' = lapses
      BY <2>2 DEF IngestStore, Ingest, FeedIndexes, FeedFails, Flush, Recall, CommitFts,
             SaveVectors, Mark, FlushFails, CloseStore, Close, Drop, Crash
    <3> QED
      BY <3>1 DEF AloneInv
  <2> QED
    BY <2>1, <2>2
<1>5. torn' => vectorFile' = {}
  <2>1. \/ UNCHANGED <<vectorFile, torn>>
        \/ SaveIsCut
        \/ ~ torn'
    <3>1. CASE IngestStore(p)
      BY <3>1 DEF IngestStore, Ingest, FeedIndexes, FeedFails
    <3>2. CASE Flush(p)
      BY <3>2 DEF Flush, Recall, CommitFts, SaveVectors, Mark, FlushFails
    <3>3. CASE CloseStore(p)
      BY <3>3 DEF CloseStore, Close, Drop, Crash
    <3>4. CASE Rebuild(p)
      BY <3>4 DEF Rebuild, WipeFts, WipeFtsFails, WipeVectors, WipeVectorsFails, Refill,
             RefillFails, Unflag
    <3> QED
      BY <3>1, <3>2, <3>3, <3>4
  <2> QED
    BY <2>1 DEF AloneInv, SaveIsCut
<1> QED
  BY <1>3, <1>4, <1>5 DEF AloneInv

(* Where one process at a time opens a store, what flush_indexes says of   *)
(* the mark is so: rebuilds aside, every chunk at or below it is in both   *)
(* indexes on disk, whatever fails and whenever the process dies.          *)
THEOREM MarkAfterDurableAlone == Spec /\ []OneAtATime => []MarkAfterDurable
<1>1. Init => AloneInv
  BY DEF Init, AloneInv
<1>2. IInv /\ AloneInv /\ OneAtATime /\ OneAtATime' /\ [Next]_vars => AloneInv'
  <2>1. SUFFICES ASSUME IInv, AloneInv, OneAtATime, OneAtATime', [Next]_vars
                 PROVE  AloneInv'
    OBVIOUS
  <2>2. CASE UNCHANGED vars
    BY <2>1, <2>2 DEF vars, truth, disk, memory, AloneInv
  <2>3. CASE Next
    BY <2>1, <2>3, OpenAlone, LaterAlone DEF Next
  <2> QED
    BY <2>1, <2>2, <2>3
<1>3. IInv /\ AloneInv => MarkAfterDurable
  <2>1. SUFFICES ASSUME IInv, AloneInv, "rebuild" \notin lapses
                 PROVE  MarkAfterDurable
    BY DEF MarkAfterDurable
  <2>2. lapses = {}
    BY <2>1 DEF AloneInv
  <2> QED
    BY <2>1, <2>2 DEF IInv, MarkIsDurable, MarkAfterDurable
<1> QED
  BY <1>1, <1>2, <1>3, StoreInvariant, PTL DEF Spec
=============================================================================
