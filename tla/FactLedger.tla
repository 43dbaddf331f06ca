----------------------------- MODULE FactLedger -----------------------------
(***************************************************************************)
(* The fact ledger of scone-core (crates/scone-core/src/distill.rs): the   *)
(* rows of the `facts` table and everything that writes them.              *)
(*                                                                         *)
(* A row states that a subject has an object under a predicate, from the   *)
(* time the episode that taught it happened.  Rows are never deleted here; *)
(* they move through                                                       *)
(*                                                                         *)
(*      proposed --> declined            (a person turns it down)          *)
(*      proposed --> active or closed    (a person approves it)            *)
(*      active   --> closed              (superseded, or closed by hand)   *)
(*      active   --> expired             (decay)                           *)
(*                                                                         *)
(* `apply_facts` works in one SQLite transaction: the batch is applied to  *)
(* `staged`, the transaction's view, and reaches `facts` at the commit.    *)
(* Other writes wait for it (`phase = "idle"`), by SQLite's write lock; a  *)
(* transaction that another write overtook before its own first write is   *)
(* refused, which is AbortApply.  Reads of the committed rows do not wait. *)
(***************************************************************************)
EXTENDS Integers, Sequences, FiniteSets

CONSTANTS
  Spaces,         \* the isolated spaces of the store
  Names,          \* canonicalized entity names (trimmed, lower case)
  Predicates,
  Objects,
  Episodes,
  EpisodeSpace,   \* the space an episode is stored in
  HappenedAt,     \* an episode's created_at
  FactIds,        \* row ids; a finite set bounds the number of rows
  Confidences,
  Batches,        \* the lists of facts an extractor may return
  Gates,          \* values of `propose_below` in use; 0 is "no gate"
  DecayCeiling,   \* decay_facts' DECAY_CONFIDENCE_CEILING
  MaxIdle,        \* decay_facts' max_idle_days
  StartTime,      \* the clock when the store is created
  MaxTime,        \* bound on the clock
  MaxRevision,    \* bound on a space's revision counter
  RecallLimit     \* the most rows one recall serves

Extracted == [name : Names, predicate : Predicates, object : Objects,
              confidence : Confidences]

ASSUME LedgerAssumption ==
  /\ EpisodeSpace \in [Episodes -> Spaces]
  /\ HappenedAt \in [Episodes -> Nat \ {0}]
  /\ FactIds \subseteq Nat \ {0}
  /\ Confidences \subseteq Nat
  /\ Batches \subseteq Seq(Extracted)
  /\ Gates \subseteq Nat
  /\ DecayCeiling \in Nat /\ MaxIdle \in Nat
  /\ StartTime \in Nat /\ MaxTime \in Nat /\ MaxRevision \in Nat
  /\ RecallLimit \in Nat

VARIABLES
  facts,      \* the committed rows
  staged,     \* the rows as the open transaction sees them
  phase,      \* "idle", or "applying" while apply_facts' transaction is open
  job,        \* what the open transaction still has to apply
  alias,      \* entity_aliases: the entity a name stands for
  recalled,   \* rows a recall has read and not reinforced yet
  revision,   \* spaces.revision
  now         \* SQLite's strftime('now')

vars == <<facts, staged, phase, job, alias, recalled, revision, now>>

-----------------------------------------------------------------------------
(* Rows.  The SQL NULL of valid_until is 0, as is "no fact" in `by`, the   *)
(* id that status_reason 'superseded by fact N' names.                     *)

NULL == 0

Fact == [space : Spaces, subject : Names, predicate : Predicates,
         object : Objects, confidence : Confidences,
         from : Nat, until : Nat,
         status : {"active", "closed", "expired", "proposed", "declined"},
         by : FactIds \cup {NULL},
         excluded : BOOLEAN,       \* excluded_reason IS NOT NULL
         accessed : BOOLEAN,       \* access_count > 0
         sources : SUBSET Episodes]

NoRow == [status |-> "none"]

NoRows == [i \in FactIds |-> NoRow]

Job == [space : Spaces, episode : Episodes, gate : Nat, batch : Seq(Extracted)]

TypeOK ==
  /\ facts \in [FactIds -> Fact \cup {NoRow}]
  /\ staged \in [FactIds -> Fact \cup {NoRow}]
  /\ phase \in {"idle", "applying"}
  /\ phase = "applying" => job \in Job
  /\ alias \in [Names -> Names]
  /\ recalled \in SUBSET FactIds
  /\ revision \in [Spaces -> Nat]
  /\ now \in Nat

Rows(F) == {i \in FactIds : F[i].status # "none"}

Active(F) == {i \in FactIds : F[i].status = "active"}

SameTopic(f, g) ==
  f.space = g.space /\ f.subject = g.subject /\ f.predicate = g.predicate

SameStatement(f, g) == SameTopic(f, g) /\ f.object = g.object

(* The rowid SQLite gives the next row. *)
IsNextId(F, id) ==
  id \in FactIds \ Rows(F) /\ \A j \in FactIds \ Rows(F) : id <= j

-----------------------------------------------------------------------------
(* settle_active_fact: row `id` has just become active in F.  The active   *)
(* rows of its topic that are not newer are closed at its valid_from; if a *)
(* newer one is on record, the row itself is closed where that one starts. *)

(* Seeded faults: a rewrite that forgets the dates, one that forgets the   *)
(* status, and one that forgets to look for a newer fact.                  *)
OutdatedWhateverDate(F, id) ==
  {i \in Active(F) \ {id} : SameTopic(F[i], F[id])}

OutdatedWhateverStatus(F, id) ==
  {i \in Rows(F) \ {id} : SameTopic(F[i], F[id]) /\ F[i].from <= F[id].from}

NewerNeverFound(F, id) == {}

Outdated(F, id) ==
  {i \in Active(F) \ {id} : SameTopic(F[i], F[id]) /\ F[i].from <= F[id].from}

Newer(F, id) ==
  {i \in Active(F) \ {id} : SameTopic(F[i], F[id]) /\ F[i].from > F[id].from}

Newest(F, I) == CHOOSE w \in I : \A i \in I : F[i].from <= F[w].from

(* Seeded fault: the interval is closed where it began. *)
SupersedeAtStart(F, i, w) ==
  [F[i] EXCEPT !.status = "closed", !.until = F[i].from, !.by = w]

Supersede(F, i, w) ==
  [F[i] EXCEPT !.status = "closed", !.until = F[w].from, !.by = w]

Settle(F, id) ==
  [i \in FactIds |->
     IF i \in Outdated(F, id) THEN Supersede(F, i, id)
     ELSE IF i = id /\ Newer(F, id) # {}
     THEN Supersede(F, id, Newest(F, Newer(F, id)))
     ELSE F[i]]

-----------------------------------------------------------------------------
Init ==
  /\ facts = NoRows
  /\ staged = NoRows
  /\ phase = "idle"
  /\ job = <<>>
  /\ alias = [n \in Names |-> n]
  /\ recalled = {}
  /\ revision = [s \in Spaces |-> 0]
  /\ now = StartTime

(***************************************************************************)
(* apply_facts.  Both callers, distill and complete_distillation, have     *)
(* checked that the episode is one of the space's and have dropped the     *)
(* triples with an empty part.                                             *)
(***************************************************************************)
(* Seeded fault: the caller does not ask whose episode it is. *)
BeginApplyUnscoped(s, e, batch, gate) ==
  /\ phase = "idle"
  /\ phase' = "applying"
  /\ job' = [space |-> s, episode |-> e, gate |-> gate, batch |-> batch]
  /\ staged' = facts
  /\ UNCHANGED <<facts, alias, recalled, revision, now>>

BeginApply(s, e, batch, gate) ==
  /\ phase = "idle"
  /\ EpisodeSpace[e] = s
  /\ phase' = "applying"
  /\ job' = [space |-> s, episode |-> e, gate |-> gate, batch |-> batch]
  /\ staged' = facts
  /\ UNCHANGED <<facts, alias, recalled, revision, now>>

(* The row one extracted fact asks for. *)
Claim(x) ==
  [space |-> job.space, subject |-> alias[x.name], predicate |-> x.predicate,
   object |-> x.object, confidence |-> x.confidence,
   from |-> HappenedAt[job.episode], until |-> NULL,
   status |-> IF x.confidence < job.gate THEN "proposed" ELSE "active",
   by |-> NULL, excluded |-> FALSE, accessed |-> FALSE,
   sources |-> {job.episode}]

(* Seeded fault: only what is active counts as already said. *)
RestatedActive(F, f) ==
  {i \in Active(F) : SameStatement(F[i], f)}

(* The rows a claim merely restates. *)
Restated(F, f) ==
  {i \in FactIds : /\ F[i].status \in {"active", "proposed", "declined"}
                   /\ SameStatement(F[i], f)}

(* Seeded fault: repetition adds up. *)
StrengthenAdds(f, g) ==
  [f EXCEPT !.confidence = @ + g.confidence, !.sources = @ \cup g.sources]

Strengthen(f, g) ==
  [f EXCEPT !.confidence = IF g.confidence > @ THEN g.confidence ELSE @,
            !.sources = @ \cup g.sources]

(* A restatement strengthens the row it finds, whatever its status. *)
Restate(f) ==
  \E i \in Restated(staged, f) :
    staged' = [staged EXCEPT ![i] = Strengthen(@, f)]

(* Anything else is a new row, settled unless the gate holds it back. *)
Insert(f) ==
  /\ Restated(staged, f) = {}
  /\ \E id \in FactIds :
       /\ IsNextId(staged, id)
       /\ LET inserted == [staged EXCEPT ![id] = f]
          IN  staged' = IF f.status = "proposed" THEN inserted
                        ELSE Settle(inserted, id)

ApplyFact ==
  /\ phase = "applying"
  /\ job.batch # <<>>
  /\ LET f == Claim(Head(job.batch)) IN Restate(f) \/ Insert(f)
  /\ job' = [job EXCEPT !.batch = Tail(@)]
  /\ UNCHANGED <<facts, phase, alias, recalled, revision, now>>

CommitApply ==
  /\ phase = "applying"
  /\ job.batch = <<>>
  /\ facts' = staged
  /\ staged' = NoRows
  /\ phase' = "idle"
  /\ job' = <<>>
  /\ UNCHANGED <<alias, recalled, revision, now>>

(* A database error or the death of the process rolls the batch back. *)
AbortApply ==
  /\ phase = "applying"
  /\ staged' = NoRows
  /\ phase' = "idle"
  /\ job' = <<>>
  /\ UNCHANGED <<facts, alias, recalled, revision, now>>

(* add_entity_alias: rows already stored keep the entity they were given. *)
AddEntityAlias(a, canonical) ==
  /\ phase = "idle"
  /\ alias' = [alias EXCEPT ![a] = alias[canonical]]
  /\ UNCHANGED <<facts, staged, phase, job, recalled, revision, now>>

-----------------------------------------------------------------------------
(* The reviewer's operations.  A row is found by its id and its space.     *)

Unchanged == UNCHANGED <<staged, phase, job, alias, recalled, now>>

FactsApprove(s, id) ==
  /\ phase = "idle"
  /\ facts[id].status = "proposed" /\ facts[id].space = s
  /\ facts' = Settle([facts EXCEPT ![id].status = "active"], id)
  /\ UNCHANGED revision /\ Unchanged

FactsDecline(s, id) ==
  /\ phase = "idle"
  /\ facts[id].status = "proposed" /\ facts[id].space = s
  /\ facts' = [facts EXCEPT ![id].status = "declined"]
  /\ UNCHANGED revision /\ Unchanged

(* Seeded fault: closing a fact erases the time it held. *)
FactsCloseBackdated(s, id) ==
  /\ phase = "idle"
  /\ facts[id].status = "active" /\ facts[id].space = s
  /\ facts' = [facts EXCEPT ![id].status = "closed", ![id].until = facts[id].from]
  /\ UNCHANGED revision /\ Unchanged

FactsClose(s, id) ==
  /\ phase = "idle"
  /\ facts[id].status = "active" /\ facts[id].space = s
  /\ facts' = [facts EXCEPT ![id].status = "closed", ![id].until = now]
  /\ UNCHANGED revision /\ Unchanged

FactsExclude(s, id) ==
  /\ phase = "idle"
  /\ facts[id].status \in {"active", "closed", "expired"} /\ facts[id].space = s
  /\ revision[s] < MaxRevision
  /\ facts' = [facts EXCEPT ![id].excluded = TRUE]
  /\ revision' = [revision EXCEPT ![s] = @ + 1]
  /\ Unchanged

FactsInclude(s, id) ==
  /\ phase = "idle"
  /\ facts[id].status # "none" /\ facts[id].space = s /\ facts[id].excluded
  /\ revision[s] < MaxRevision
  /\ facts' = [facts EXCEPT ![id].excluded = FALSE]
  /\ revision' = [revision EXCEPT ![s] = @ + 1]
  /\ Unchanged

(***************************************************************************)
(* decay_facts.  access_count = 0 implies that last_accessed is NULL: the  *)
(* two are only ever written together.                                     *)
(***************************************************************************)
Stale(f) ==
  /\ f.status = "active"
  /\ f.confidence < DecayCeiling
  /\ ~f.accessed
  /\ f.from < now - MaxIdle

DecayFacts(s) ==
  /\ phase = "idle"
  /\ LET stale == {i \in Active(facts) : facts[i].space = s /\ Stale(facts[i])}
     IN  /\ stale # {}
         /\ facts' = [i \in FactIds |->
                        IF i \in stale
                        THEN [facts[i] EXCEPT !.status = "expired", !.until = now]
                        ELSE facts[i]]
  /\ UNCHANGED revision /\ Unchanged

-----------------------------------------------------------------------------
(* Recall.  A row is served for time t if it holds then and nobody has     *)
(* excluded it; the query's words pick any of these, `limit` of them at    *)
(* most.  A recall of the present then reinforces what it served, row by   *)
(* row, in statements of their own; one with `as_of` changes nothing.      *)

(* Seeded fault: recall looks at the interval alone. *)
HoldsWhateverStatus(f, t) ==
  f.from <= t /\ (f.until = NULL \/ f.until > t)

Holds(f, t) ==
  /\ f.status \in {"active", "closed", "expired"}
  /\ f.from <= t /\ (f.until = NULL \/ f.until > t)

Served(F, s, t) ==
  {i \in Rows(F) : F[i].space = s /\ Holds(F[i], t) /\ ~F[i].excluded}

RecallFacts(s) ==
  /\ recalled = {}
  /\ recalled' \in (SUBSET Served(facts, s, now)) \ {{}}
  /\ Cardinality(recalled') <= RecallLimit
  /\ UNCHANGED <<facts, staged, phase, job, alias, revision, now>>

Reinforce(id) ==
  /\ phase = "idle"
  /\ id \in recalled
  /\ facts' = [facts EXCEPT ![id].accessed = TRUE]
  /\ recalled' = recalled \ {id}
  /\ UNCHANGED <<staged, phase, job, alias, revision, now>>

(* The recalling process dies, or a statement fails, before the rest. *)
RecallFails ==
  /\ recalled # {}
  /\ recalled' = {}
  /\ UNCHANGED <<facts, staged, phase, job, alias, revision, now>>

Tick ==
  /\ now < MaxTime
  /\ now' = now + 1
  /\ UNCHANGED <<facts, staged, phase, job, alias, recalled, revision>>

-----------------------------------------------------------------------------
Review(s, id) ==
  \/ FactsApprove(s, id) \/ FactsDecline(s, id) \/ FactsClose(s, id)
  \/ FactsExclude(s, id) \/ FactsInclude(s, id)

Next ==
  \/ \E s \in Spaces, e \in Episodes, batch \in Batches, gate \in Gates :
       BeginApply(s, e, batch, gate)
  \/ ApplyFact \/ CommitApply \/ AbortApply
  \/ \E a, canonical \in Names : AddEntityAlias(a, canonical)
  \/ \E s \in Spaces, id \in FactIds : Review(s, id)
  \/ \E s \in Spaces : DecayFacts(s) \/ RecallFacts(s)
  \/ \E id \in FactIds : Reinforce(id)
  \/ RecallFails
  \/ Tick

Spec == Init /\ [][Next]_vars

-----------------------------------------------------------------------------
(***************************************************************************)
(* Safety                                                                  *)
(***************************************************************************)

(* I2: no two active facts share subject and predicate, whatever order     *)
(* documents arrive in, proposals are approved in, and batches commit in.  *)
OneActive(F) == \A i, j \in Active(F) : SameTopic(F[i], F[j]) => i = j

OneActivePerTopic == OneActive(facts)

(* "Strengthen, never duplicate": a statement that is active, waiting for  *)
(* review or declined has one row.  So a declined statement cannot come    *)
(* back as another row, however often it is extracted again.               *)
Standing(F) ==
  {i \in FactIds : F[i].status \in {"active", "proposed", "declined"}}

OneRow(F) == \A i, j \in Standing(F) : SameStatement(F[i], F[j]) => i = j

OneRowPerStatement == OneRow(facts)

(* I4: every fact names an episode that taught it, and only episodes of    *)
(* its own space.                                                          *)
SourcesInSpace ==
  \A i \in Rows(facts) :
    /\ facts[i].sources # {}
    /\ \A e \in facts[i].sources : EpisodeSpace[e] = facts[i].space

(* I3: a superseded fact names the ledger fact that took its place: one on *)
(* its own topic, never a proposal, that starts where its interval ends.   *)
SupersededInPlace ==
  \A i \in Rows(facts) :
    facts[i].by # NULL =>
      LET w == facts[facts[i].by]
      IN  /\ facts[i].status = "closed" /\ facts[i].by # i
          /\ w.status \in {"active", "closed", "expired"}
          /\ SameTopic(facts[i], w)
          /\ facts[i].until = w.from

(* An interval ends exactly when a fact has left the present, and never    *)
(* before it began.  This needs episodes that are not dated in the future: *)
(* facts_close and decay_facts end an interval at the clock's time.        *)
IntervalsOrdered ==
  \A i \in Rows(facts) :
    /\ facts[i].until # NULL <=> facts[i].status \in {"closed", "expired"}
    /\ facts[i].until # NULL => facts[i].from <= facts[i].until

(* A proposal or a declined fact has never been served to a reader, even   *)
(* by a recall whose reinforcement was overtaken by other writers.         *)
ServedOnlyLedger ==
  \A i \in Rows(facts) :
    facts[i].accessed \/ facts[i].excluded
      => facts[i].status \in {"active", "closed", "expired"}

-----------------------------------------------------------------------------
(***************************************************************************)
(* What a step may never do                                                *)
(***************************************************************************)

(* I3: history is kept.  No row disappears or changes what it says, its    *)
(* provenance only grows, and a decided row (closed, expired, declined)    *)
(* keeps its status, its interval and its reason.                          *)
KeepsHistory(f, g) ==
  /\ SameStatement(f, g) /\ g.from = f.from
  /\ f.sources \subseteq g.sources /\ f.confidence <= g.confidence
  /\ f.status \in {"closed", "expired", "declined"}
       => g.status = f.status /\ g.until = f.until /\ g.by = f.by

HistoryIsKept ==
  [][\A i \in Rows(facts) : i \in Rows(facts') /\ KeepsHistory(facts[i], facts'[i])]_facts

(* The past is only rewritten by documents.  What a fact was said to be at *)
(* an earlier time, an `as_of` recall finds again, unless another fact has *)
(* superseded it: closing it by hand, declining, decay, exclusion and      *)
(* reinforcement take nothing out of the past.                             *)
PastIsSettled ==
  [][\A i \in Rows(facts), t \in 0 .. now - 1 :
       Holds(facts[i], t) => Holds(facts'[i], t) \/ facts'[i].by # NULL]_facts

(***************************************************************************)
(* The ledger implements CurrentTruth: what is active on a topic is the    *)
(* topic's belief, and it is never replaced by an older fact.              *)
(***************************************************************************)
Topics == Spaces \X Names \X Predicates

Topic(f) == <<f.space, f.subject, f.predicate>>

Belief(F, t) ==
  IF \E i \in Active(F) : Topic(F[i]) = t
  THEN LET i == CHOOSE i \in Active(F) : Topic(F[i]) = t
       IN  [id |-> i, from |-> F[i].from]
  ELSE [id |-> 0, from |-> 0]

Current == [t \in Topics |-> Belief(facts, t)]

Truth == INSTANCE CurrentTruth
           WITH Topics <- Topics, Ids <- FactIds, current <- Current

TruthMovesForward == Truth!Spec

-----------------------------------------------------------------------------
(***************************************************************************)
(* What the documentation says and the code does not do                    *)
(***************************************************************************)

(* settle_active_fact's comment: only a fact that is actually newer may    *)
(* supersede; an old document must not overwrite what has been learned     *)
(* since.  So a fact is not closed by one older than a document that       *)
(* states it.                                                              *)
BackfillNeverOverwrites ==
  [][\A i \in Active(facts) :
       facts'[i].by # NULL =>
         \A e \in facts[i].sources : HappenedAt[e] <= facts'[facts'[i].by].from]_facts
=============================================================================
