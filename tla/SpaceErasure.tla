---------------------------- MODULE SpaceErasure ----------------------------
(***************************************************************************)
(* Deleting a whole space (spaces.rs) while stores are open.  The rows go  *)
(* in one transaction, then the vectors, then the full text.  SQLite gives *)
(* the row ids of what was deleted to what is stored next, so the same key *)
(* of an index may come to stand for another chunk.                        *)
(*                                                                         *)
(* auth::resolve refuses a deleted space, but the handle it gave out       *)
(* before (ScopedSpace) is not revoked.                                    *)
(***************************************************************************)
EXTENDS IndexStore

VARIABLES
  gone,       \* spaces.deleted_at IS NOT NULL
  handles,    \* the spaces each process has resolved
  erase,      \* how far each process's delete_space has come
  purged      \* history: spaces whose deletion has reported success, and
              \* that nothing was written to since

erasureVars == <<gone, handles, erase, purged>>

allVars == <<vars, erasureVars>>

Idle == [step |-> "none"]

Erase == [step : {"collect", "rows", "vectors", "fts"}, space : Spaces,
          ids : SUBSET (1 .. MaxChunkId)]

ErasureTypeOK ==
  /\ TypeOK
  /\ gone \in SUBSET Spaces
  /\ handles \in [Processes -> SUBSET Spaces]
  /\ erase \in [Processes -> Erase \cup {Idle}]
  /\ purged \in SUBSET gone

ErasureInit ==
  /\ Init
  /\ gone = {} /\ purged = {}
  /\ handles = [p \in Processes |-> {}]
  /\ erase = [p \in Processes |-> Idle]

Idles(p) == erase[p] = Idle

(* auth::resolve *)
Resolve(p, s) ==
  /\ at[p] \in {"ready", "reading"} /\ Idles(p)
  /\ s \notin gone
  /\ handles' = [handles EXCEPT ![p] = @ \cup {s}]
  /\ UNCHANGED <<vars, gone, erase, purged>>

(* ingest_raw, with a handle that was good when it was given. *)
IngestInto(p, s, d) ==
  /\ Idles(p) /\ s \in handles[p]
  /\ Ingest(p, s, d)
  /\ purged' = purged \ {s}
  /\ UNCHANGED <<gone, handles, erase>>

(* What a process does with the store is as before; when it ends, its      *)
(* handles and its deletion end with it.                                   *)
StoreStep(p) ==
  /\ \/ /\ Idles(p)
        /\ OpenStore(p) \/ FeedIndexes(p) \/ FeedFails(p) \/ Flush(p)
           \/ Close(p) \/ Drop(p) \/ Rebuild(p)
     \/ Crash(p)
  /\ IF at'[p] = "off"
     THEN /\ handles' = [handles EXCEPT ![p] = {}]
          /\ erase' = [erase EXCEPT ![p] = Idle]
     ELSE UNCHANGED <<handles, erase>>
  /\ UNCHANGED <<gone, purged>>

-----------------------------------------------------------------------------
(* delete_space.  Any process may run it: nothing asks for the write lock. *)

(* space_impact asks whether the space is alive, and counts. *)
BeginErase(p, s) ==
  /\ at[p] \in {"ready", "reading"} /\ Idles(p)
  /\ s \in handles[p] /\ s \notin gone
  /\ erase' = [erase EXCEPT ![p] = [step |-> "collect", space |-> s, ids |-> {}]]
  /\ UNCHANGED <<vars, gone, handles, purged>>

CollectIds(p) ==
  /\ erase[p].step = "collect"
  /\ erase' = [erase EXCEPT ![p].step = "rows",
                 ![p].ids = Ids({c \in chunks : c.space = erase[p].space})]
  /\ UNCHANGED <<vars, gone, handles, purged>>

(* Seeded fault: the rows go, and the space is not marked deleted. *)
EraseRowsUnmarked(p) ==
  /\ erase[p].step = "rows"
  /\ chunks' = {c \in chunks : c.space # erase[p].space}
  /\ lapses' = lapses \cup {"erasure"}
  /\ erase' = [erase EXCEPT ![p].step = "vectors"]
  /\ UNCHANGED <<indexedMax, indexDirty, disk, holder, at, onward, memory,
                 gone, handles, purged>>

(* The transaction, which also sets deleted_at.  Neither the mark nor what *)
(* another process holds of the rows, or is about to feed to its indexes,  *)
(* goes with them; and who deletes a space does not go on with it.         *)
EraseRows(p) ==
  /\ erase[p].step = "rows"
  /\ chunks' = {c \in chunks : c.space # erase[p].space}
  /\ gone' = gone \cup {erase[p].space}
  /\ lapses' = lapses \cup {"erasure"} \cup (IF p = holder THEN {} ELSE {"copy"})
  /\ handles' = [handles EXCEPT ![p] = @ \ {erase[p].space}]
  /\ erase' = [erase EXCEPT ![p].step = "vectors"]
  /\ UNCHANGED <<indexedMax, indexDirty, disk, holder, at, onward, memory, purged>>

(* This process's copy of the vectors loses them, and is saved; or the     *)
(* save fails, or the process dies in it (a failure, then Crash).          *)
EraseVectors(p) ==
  /\ erase[p].step = "vectors"
  /\ vectors' = [vectors EXCEPT ![p] = {e \in @ : e.id \notin erase[p].ids}]
  /\ lapses' = IF p = holder THEN lapses ELSE lapses \cup {"copy"}
  /\ \/ /\ vectorFile' = vectors'[p] /\ torn' = FALSE
        /\ erase' = [erase EXCEPT ![p].step = "fts"]
     \/ /\ UNCHANGED <<vectorFile, torn>> \/ SaveIsCut
        /\ erase' = [erase EXCEPT ![p] = Idle]
  /\ UNCHANGED <<truth, fts, holder, at, onward, feed, staged, indexesDirty,
                 gone, handles, purged>>

(* Seeded fault: the full-text documents are dropped, and not committed. *)
EraseTextUncommitted(p) ==
  /\ erase[p].step = "fts" /\ p = holder
  /\ staged' = {d \in staged : d.space # erase[p].space}
  /\ purged' = purged \cup {erase[p].space}
  /\ erase' = [erase EXCEPT ![p] = Idle]
  /\ UNCHANGED <<truth, disk, holder, at, onward, feed, vectors, indexesDirty,
                 lapses, gone, handles>>

(* Seeded fault: a reader, too, may drop the documents on disk. *)
EraseTextUnlocked(p) ==
  /\ erase[p].step = "fts"
  /\ fts' = {d \in fts : d.space # erase[p].space}
  /\ staged' = IF p = holder THEN fts' ELSE staged
  /\ purged' = purged \cup {erase[p].space}
  /\ erase' = [erase EXCEPT ![p] = Idle]
  /\ UNCHANGED <<truth, vectorFile, torn, holder, at, onward, feed, vectors,
                 indexesDirty, lapses, gone, handles>>

(* Only the lock's holder has a full-text writer; and the commit makes     *)
(* everything durable that was staged.                                     *)
EraseText(p) ==
  /\ erase[p].step = "fts" /\ p = holder
  /\ staged' = {d \in staged : d.space # erase[p].space}
  /\ fts' = staged'
  /\ purged' = purged \cup {erase[p].space}
  /\ erase' = [erase EXCEPT ![p] = Idle]
  /\ UNCHANGED <<truth, vectorFile, torn, holder, at, onward, feed, vectors,
                 indexesDirty, lapses, gone, handles>>

(* A reader has no writer to ask; a writer's commit may fail. *)
EraseTextFails(p) ==
  /\ erase[p].step = "fts"
  /\ staged' = IF p = holder THEN {d \in staged : d.space # erase[p].space} ELSE staged
  /\ erase' = [erase EXCEPT ![p] = Idle]
  /\ UNCHANGED <<truth, disk, holder, at, onward, feed, vectors, indexesDirty,
                 lapses, gone, handles, purged>>

EraseSpace(p) ==
  \/ CollectIds(p) \/ EraseRows(p) \/ EraseVectors(p)
  \/ EraseText(p) \/ EraseTextFails(p)

ErasureNext ==
  \E p \in Processes :
    \/ StoreStep(p) \/ EraseSpace(p)
    \/ \E s \in Spaces : Resolve(p, s) \/ BeginErase(p, s)
    \/ \E s \in Spaces, d \in Documents : IngestInto(p, s, d)

ErasureSpec == ErasureInit /\ [][ErasureNext]_allVars

-----------------------------------------------------------------------------
(***************************************************************************)
(* Safety                                                                  *)
(***************************************************************************)

(* A deletion that has reported success has left nothing of the space      *)
(* behind: no text, and no vectors, on disk or in the memory of the        *)
(* process that writes them, unless another process had a part in them.    *)
(* And nothing brings it back: not a catch-up, a later flush or a rebuild. *)
PurgedLeavesNoTrace ==
  \A s \in purged :
    /\ \A c \in chunks \cup fts \cup staged : c.space # s
    /\ "copy" \notin lapses =>
         /\ \A e \in vectorFile : e.space # s
         /\ holder # NoProcess => \A e \in vectors[holder] : e.space # s

(* A living space is not served what another one has lost: whatever the    *)
(* full text holds under its name is a chunk it has.                       *)
LivingTextIsTrue ==
  \A d \in fts \cup staged : d.space \notin gone => d \in chunks
=============================================================================
