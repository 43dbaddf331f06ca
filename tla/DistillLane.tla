----------------------------- MODULE DistillLane -----------------------------
(***************************************************************************)
(* The queue between episodes and facts (distill.rs): every episode has a  *)
(* row in distill_queue, which says whether its facts have been extracted. *)
(*                                                                         *)
(* Two paths drain it.  Engine::distill takes a snapshot of the pending    *)
(* rows, asks a language model about one after the other, applies what it  *)
(* returns in a transaction, and then updates the row.  Over MCP an agent  *)
(* lists pending episodes, reads them itself, and submits the facts at a   *)
(* time of its own (complete_distillation).                                *)
(*                                                                         *)
(* Several processes do so on one store, and none of them locks or claims  *)
(* a row.  A process may die at any step, the model may fail, and so may   *)
(* the transaction; the other SQLite statements are assumed to succeed.    *)
(*                                                                         *)
(* What the transaction does to the facts is module FactLedger's subject.  *)
(* Here a fact is only where it is said to come from, and the document it  *)
(* was really read in.  An episode and its row are inserted together and   *)
(* deleted together, so that one id stands for both.                       *)
(***************************************************************************)
EXTENDS Naturals, FiniteSets

CONSTANTS
  Processes,
  Daemons,       \* those that run `scone daemon`, and are assumed to stay up
  Spaces, NoSpace,
  Documents,
  CreatedAt,     \* episodes.created_at: a document may be backdated
  Limit,         \* how many episodes a process takes at a time
  MaxEpisodeId   \* bound on SQLite's row ids

ASSUME LaneAssumption ==
  /\ Daemons \subseteq Processes
  /\ NoSpace \notin Spaces
  /\ CreatedAt \in [Documents -> Nat]
  /\ Limit \in Nat \ {0}
  /\ MaxEpisodeId \in Nat

Ids == 1 .. MaxEpisodeId

States == {"pending", "done", "failed"}

Row == [space : Spaces, doc : Documents, state : States, attempts : Nat]

NoRow == [state |-> "absent"]

(* An episode as a process has read it: its id, and what that was then. *)
Reading == [id : Ids, space : Spaces, doc : Documents]

NoReading == [id |-> 0]

VARIABLES
  rows,      \* episodes JOIN distill_queue, by id
  facts,     \* the facts of the ledger, with their provenance
  gone,      \* spaces.deleted_at IS NOT NULL
  handle,    \* the ScopedSpace each process works with
  at,        \* where each process is
  batch,     \* the rows its distill has still to read
  job,       \* the one it is about to apply
  reply,     \* whether anything usable was extracted from it
  listed,    \* what the agents have been shown
  read       \* history: whose extraction was ever committed

vars == <<rows, facts, gone, handle, at, batch, job, reply, listed, read>>

lane == <<handle, at, batch, job, reply, listed>>

TypeOK ==
  /\ rows \in [Ids -> Row \cup {NoRow}]
  /\ facts \in SUBSET [space : Spaces, source : Ids \cup {0}, told : Documents]
  /\ gone \in SUBSET Spaces
  /\ handle \in [Processes -> Spaces \cup {NoSpace}]
  /\ at \in [Processes -> {"idle", "asking", "applying", "submitting",
                           "marking", "erasing"}]
  /\ batch \in [Processes -> SUBSET Reading]
  /\ job \in [Processes -> Reading \cup {NoReading}]
  /\ reply \in [Processes -> BOOLEAN]
  /\ listed \in SUBSET Reading
  /\ read \in SUBSET [space : Spaces, doc : Documents]

Live == {i \in Ids : rows[i] # NoRow}

(* What a process that works with space s makes of row i. *)
AsRead(i, s) == [id |-> i, space |-> s, doc |-> rows[i].doc]

(* ORDER BY e.created_at, q.id *)
Before(x, y) ==
  \/ CreatedAt[x.doc] < CreatedAt[y.doc]
  \/ CreatedAt[x.doc] = CreatedAt[y.doc] /\ x.id < y.id

(* Seeded fault: the pending rows of every space. *)
PendingAnywhere(s) ==
  {AsRead(i, s) : i \in {j \in Live : rows[j].state = "pending"}}

Pending(s) ==
  {AsRead(i, s) : i \in {j \in Live : rows[j].state = "pending" /\ rows[j].space = s}}

(* LIMIT *)
Oldest(S) == {x \in S : Cardinality({y \in S : Before(y, x)}) < Limit}

-----------------------------------------------------------------------------
Init ==
  /\ rows = [i \in Ids |-> NoRow]
  /\ facts = {} /\ gone = {} /\ read = {}
  /\ handle = [p \in Processes |-> NoSpace]
  /\ at = [p \in Processes |-> "idle"]
  /\ batch = [p \in Processes |-> {}]
  /\ job = [p \in Processes |-> NoReading]
  /\ reply = [p \in Processes |-> FALSE]
  /\ listed = {}

Goto(p, step) == at' = [at EXCEPT ![p] = step]

(* On to the next row of the snapshot, or back to the caller. *)
Continue(p, rest) ==
  /\ batch' = [batch EXCEPT ![p] = rest]
  /\ job' = [job EXCEPT ![p] = NoReading]
  /\ reply' = [reply EXCEPT ![p] = FALSE]
  /\ Goto(p, IF rest = {} THEN "idle" ELSE "asking")

(* auth::resolve: the space must not be deleted; it may be later.  A       *)
(* daemon asks once.                                                       *)
Resolve(p, s) ==
  /\ at[p] = "idle"
  /\ p \in Daemons => handle[p] = NoSpace
  /\ s \notin gone
  /\ handle' = [handle EXCEPT ![p] = s]
  /\ UNCHANGED <<rows, facts, gone, at, batch, job, reply, listed, read>>

(* ingest_raw: an episode and its row, unless the space has the document.  *)
(* SQLite's next id is one above the highest in use.                       *)
Ingest(p, d) ==
  /\ at[p] = "idle" /\ handle[p] \in Spaces
  /\ ~\E i \in Live : rows[i].space = handle[p] /\ rows[i].doc = d
  /\ \E i \in Ids :
       /\ \A j \in Live : j < i
       /\ i = 1 \/ i - 1 \in Live
       /\ rows' = [rows EXCEPT ![i] = [space |-> handle[p], doc |-> d,
                                       state |-> "pending", attempts |-> 0]]
  /\ UNCHANGED <<facts, gone, lane, read>>

-----------------------------------------------------------------------------
(* Engine::distill                                                         *)

BeginDistill(p) ==
  /\ at[p] = "idle" /\ handle[p] \in Spaces
  /\ LET first == Oldest(Pending(handle[p])) IN
       /\ first # {}
       /\ batch' = [batch EXCEPT ![p] = first]
  /\ Goto(p, "asking")
  /\ UNCHANGED <<rows, facts, gone, handle, job, reply, listed, read>>

IsNext(p, x) == x \in batch[p] /\ \A y \in batch[p] : ~Before(y, x)

(* The model answers; what is left of its reply may be nothing. *)
Extract(p) ==
  /\ at[p] = "asking"
  /\ \E x \in batch[p] :
       /\ IsNext(p, x)
       /\ job' = [job EXCEPT ![p] = x]
       /\ batch' = [batch EXCEPT ![p] = @ \ {x}]
  /\ \E any \in BOOLEAN : reply' = [reply EXCEPT ![p] = any]
  /\ Goto(p, "applying")
  /\ UNCHANGED <<rows, facts, gone, handle, listed, read>>

(* Seeded fault: a row parks at its third failure, and only then. *)
AfterFailureExactly(i) ==
  IF rows[i] = NoRow THEN rows[i]
  ELSE [rows[i] EXCEPT !.attempts = @ + 1,
          !.state = IF rows[i].attempts + 1 = 3 THEN "failed" ELSE "pending"]

(* Seeded fault: a row is never parked. *)
AfterFailureForever(i) ==
  IF rows[i] = NoRow THEN rows[i]
  ELSE [rows[i] EXCEPT !.attempts = (@ + 1) % 3, !.state = "pending"]

(* UPDATE ... SET attempts = attempts + 1, state = CASE ... WHERE id = ?,  *)
(* whatever the row has become, if it is still there.                      *)
AfterFailure(i) ==
  IF rows[i] = NoRow THEN rows[i]
  ELSE [rows[i] EXCEPT !.attempts = @ + 1,
          !.state = IF rows[i].attempts + 1 >= 3 THEN "failed" ELSE "pending"]

(* The model fails, or returns what cannot be parsed. *)
ExtractFails(p) ==
  /\ at[p] = "asking"
  /\ \E x \in batch[p] :
       /\ IsNext(p, x)
       /\ rows' = [rows EXCEPT ![x.id] = AfterFailure(x.id)]
       /\ Continue(p, batch[p] \ {x})
  /\ UNCHANGED <<facts, gone, handle, listed, read>>

(***************************************************************************)
(* apply_facts, for either path: it must find the episode's date, and it   *)
(* writes into the space it was given.                                     *)
(***************************************************************************)
Apply(p) ==
  /\ at[p] \in {"applying", "submitting"}
  /\ job[p].id \in Live
  /\ facts' = IF reply[p]
               THEN facts \cup {[space |-> job[p].space, source |-> job[p].id,
                                 told |-> job[p].doc]}
               ELSE facts
  /\ read' = read \cup {[space |-> job[p].space, doc |-> job[p].doc]}
  /\ Goto(p, "marking")
  /\ UNCHANGED <<rows, gone, handle, batch, job, reply, listed>>

(* Seeded fault: what cannot be applied is done with. *)
ApplyFailsIsDone(p) ==
  /\ at[p] = "applying"
  /\ rows[job[p].id] # NoRow
  /\ rows' = [rows EXCEPT ![job[p].id].state = "done"]
  /\ Continue(p, batch[p])
  /\ UNCHANGED <<facts, gone, handle, listed, read>>

(* A row that cannot be found, a transaction that cannot be committed. *)
ApplyFails(p) ==
  /\ at[p] = "applying"
  /\ rows' = [rows EXCEPT ![job[p].id] = AfterFailure(job[p].id)]
  /\ Continue(p, batch[p])
  /\ UNCHANGED <<facts, gone, handle, listed, read>>

(* Seeded fault: the row is written, whether it is still there or not. *)
MarkDoneUpserts(p) ==
  /\ at[p] = "marking"
  /\ rows' = [rows EXCEPT ![job[p].id].state = "done"]
  /\ Continue(p, batch[p])
  /\ UNCHANGED <<facts, gone, handle, listed, read>>

(* UPDATE ... SET state = 'done', in a statement of its own: the row may   *)
(* have gone, or be another episode's.                                     *)
MarkDone(p) ==
  /\ at[p] = "marking"
  /\ rows' = IF job[p].id \in Live
             THEN [rows EXCEPT ![job[p].id].state = "done"] ELSE rows
  /\ Continue(p, batch[p])
  /\ UNCHANGED <<facts, gone, handle, listed, read>>

-----------------------------------------------------------------------------
(* The agent's path.  Each call resolves the space it names; the agent is  *)
(* taken to submit to the space it listed from.                            *)

PendingEpisodes(p, s) ==
  /\ at[p] = "idle" /\ s \notin gone
  /\ listed' = listed \cup Oldest(Pending(s))
  /\ UNCHANGED <<rows, facts, gone, handle, at, batch, job, reply, read>>

(* Whatever an agent was shown, however long ago; and it may submit twice. *)
CompleteDistillation(p) ==
  /\ at[p] = "idle"
  /\ \E x \in listed :
       /\ x.space \notin gone
       /\ x.id \in Live /\ rows[x.id].space = x.space
       /\ job' = [job EXCEPT ![p] = x]
  /\ \E any \in BOOLEAN : reply' = [reply EXCEPT ![p] = any]
  /\ Goto(p, "submitting")
  /\ UNCHANGED <<rows, facts, gone, handle, batch, listed, read>>

(* The agent is told, and the row is as it was. *)
SubmitFails(p) ==
  /\ at[p] = "submitting"
  /\ Continue(p, {})
  /\ UNCHANGED <<rows, facts, gone, handle, listed, read>>

-----------------------------------------------------------------------------
(* delete_space, as far as the lane goes: the check that it is alive, and  *)
(* the transaction.  Who deletes a space does not go on with it.           *)
BeginErase(p) ==
  /\ at[p] = "idle" /\ handle[p] \in Spaces \ gone
  /\ Goto(p, "erasing")
  /\ UNCHANGED <<rows, facts, gone, handle, batch, job, reply, listed, read>>

EraseSpace(p) ==
  /\ at[p] = "erasing"
  /\ LET erased == {i \in Live : rows[i].space = handle[p]}
         kept == {f \in facts : f.space # handle[p]} IN
       /\ rows' = [i \in Ids |-> IF i \in erased THEN NoRow ELSE rows[i]]
       /\ facts' = {[f EXCEPT !.source = IF @ \in erased THEN 0 ELSE @] : f \in kept}
  /\ gone' = gone \cup {handle[p]}
  /\ handle' = [handle EXCEPT ![p] = NoSpace]
  /\ Goto(p, "idle")
  /\ UNCHANGED <<batch, job, reply, listed, read>>

(* The process dies.  What an agent was shown, it still knows. *)
Crash(p) ==
  /\ Continue(p, {})
  /\ handle' = [handle EXCEPT ![p] = NoSpace]
  /\ UNCHANGED <<rows, facts, gone, listed, read>>

-----------------------------------------------------------------------------
Distill(p) ==
  \/ BeginDistill(p) \/ Extract(p) \/ ExtractFails(p)
  \/ Apply(p) \/ ApplyFails(p) \/ MarkDone(p)

Agent(p) ==
  \/ \E s \in Spaces : PendingEpisodes(p, s)
  \/ CompleteDistillation(p) \/ SubmitFails(p)

Next ==
  \E p \in Processes :
    \/ \E s \in Spaces : Resolve(p, s)
    \/ \E d \in Documents : Ingest(p, d)
    \/ Distill(p)
    \/ /\ p \notin Daemons
       /\ Agent(p) \/ BeginErase(p) \/ EraseSpace(p) \/ Crash(p)

Spec == Init /\ [][Next]_vars

(***************************************************************************)
(* A daemon resolves its space at the start, and loops for ever: ingest,   *)
(* distill, sleep.                                                         *)
(***************************************************************************)
Fairness ==
  \A p \in Daemons :
    /\ WF_vars(\E s \in Spaces : Resolve(p, s))
    /\ WF_vars(Distill(p))

FairSpec == Spec /\ Fairness

-----------------------------------------------------------------------------
(***************************************************************************)
(* Safety                                                                  *)
(***************************************************************************)

(* The provenance of a living space is true: each of its facts is said to  *)
(* come from an episode of that space, and was read in that episode's own  *)
(* text, whatever was deleted, renumbered or submitted late meanwhile.     *)
ProvenanceIsTrue ==
  \A f \in facts :
    f.space \notin gone =>
      /\ f.source \in Live
      /\ rows[f.source].space = f.space /\ rows[f.source].doc = f.told

(* No row is marked done unread, wherever the distillers died.  (Deleting  *)
(* a space under a distiller's feet breaks this: an id may be given to an  *)
(* episode of another space before the old one is marked.)                 *)
DoneWasRead ==
  gone = {} =>
    \A i \in Live :
      rows[i].state = "done" => [space |-> rows[i].space, doc |-> rows[i].doc] \in read

(* However many distillers hold a row in their snapshots, it is parked at  *)
(* the third failure and only they may fail it again, each of them once.   *)
AttemptsAreBounded ==
  \A i \in Live :
    /\ rows[i].state = "pending" => rows[i].attempts < 3
    /\ rows[i].attempts <= 2 + Cardinality(Processes)

(* A parked row is not retried by itself: it stays failed until somebody   *)
(* has read it, or its space is deleted.                                   *)
ParkedIsLeftAlone ==
  [][\A i \in Live :
       rows[i].state = "failed" =>
         \/ rows'[i] = NoRow
         \/ rows'[i].state = "failed"
         \/ rows'[i].state = "done" /\ \E p \in Processes : at[p] = "marking" /\ job[p].id = i]_vars

(***************************************************************************)
(* Liveness, under FairSpec                                                *)
(***************************************************************************)

(* No episode of a space that a daemon works on is left waiting for ever,  *)
(* be it behind others that keep failing, or put back by another process.  *)
EverythingSettles ==
  \A i \in Ids :
    <>[](i \in Live /\ (\E p \in Daemons : handle[p] = rows[i].space)
           => rows[i].state # "pending")

-----------------------------------------------------------------------------
(***************************************************************************)
(* What the documentation says and the code does not do                    *)
(***************************************************************************)

(* auth::resolve: "A deleted space keeps its name: nothing re-creates what *)
(* was erased."                                                            *)
NothingRecreatesWhatWasErased ==
  \A f \in facts : f.space \notin gone
=============================================================================
