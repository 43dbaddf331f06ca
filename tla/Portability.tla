---------------------------- MODULE Portability ----------------------------
(***************************************************************************)
(* Export and import (portability.rs).  A space of one store, "home", is   *)
(* read in three statements while others write to it; the records are      *)
(* brought into another store, "away", one transaction each, by imports    *)
(* that may fail at a record, end anywhere and be run again.               *)
(***************************************************************************)
EXTENDS Integers, SequencesExt

CONSTANTS
  Episodes,   \* the texts; their order is that of their dates
  AliasCalls, \* <<alias, name>>; names are in the order of their spelling
  Claims,     \* [episode, name, object, status] that facts are learnt from
  MaxWrites   \* bound: writes of others to the two stores

ASSUME PortAssumption ==
  /\ Episodes \subseteq Nat /\ AliasCalls \subseteq Nat \X Nat
  /\ \A claim \in Claims : claim.episode \in Episodes

VARIABLES
  store,     \* store[s]: episodes, aliases, facts of "home" and "away"
  exporter,  \* the statements that the export has made
  export,    \* the export that was written last
  importer,  \* the import in progress: the records left
  writes,    \* writes of others so far
  landed     \* history: the export that was imported to the end, and what away held then

portVars == <<store, exporter, export, importer, writes, landed>>

Stores == {"home", "away"}
NoStore == [episodes |-> {}, aliases |-> <<>>, facts |-> <<>>]
Nowhere == [at |-> "idle"]
NotLanded == [at |-> "nowhere"]

PortInit ==
  /\ store = [s \in Stores |-> NoStore]
  /\ exporter = Nowhere /\ export = NoStore /\ importer = Nowhere
  /\ writes = 0 /\ landed = NotLanded

-----------------------------------------------------------------------------
(* The rest of the engine, which writes to either store: FactLedger has it *)
(* in full.                                                                *)

(* resolve_entity and add_entity_alias *)
Resolve(s, name) == IF name \in DOMAIN store[s].aliases THEN store[s].aliases[name] ELSE name

Aliased(s, alias, name) ==
  [a \in DOMAIN store[s].aliases \cup {alias} |->
     IF a = alias THEN Resolve(s, name) ELSE store[s].aliases[a]]

Write(s, after) ==
  /\ writes < MaxWrites /\ writes' = writes + 1
  /\ store' = [store EXCEPT ![s] = after]
  /\ landed' = IF s = "away" THEN NotLanded ELSE landed
  /\ importer' = IF s = "away" /\ importer # Nowhere THEN [importer EXCEPT !.alone = FALSE]
                 ELSE importer
  /\ UNCHANGED <<exporter, export>>

FileText(s, e) ==
  /\ e \notin store[s].episodes
  /\ Write(s, [store[s] EXCEPT !.episodes = @ \cup {e}])

AddAlias(s, alias, name) ==
  Write(s, [store[s] EXCEPT !.aliases = Aliased(s, alias, name)])

(* A fact of an episode: a proposal, or news that closes what it replaces. *)
LearnFact(s, claim) ==
  LET facts == store[s].facts
      subject == Resolve(s, claim.name)
      Replaced(f) == f.subject = subject /\ f.status = "active" /\ claim.status = "active"
      new == [subject |-> subject, object |-> claim.object, from |-> claim.episode,
              status |-> claim.status, excluded |-> FALSE, sources |-> {claim.episode}]
  IN  /\ claim.episode \in store[s].episodes
      /\ \A f \in ToSet(facts) : f.subject = subject => f.from < claim.episode
      /\ Write(s, [store[s] EXCEPT !.facts = Append([i \in DOMAIN facts |->
                     IF Replaced(facts[i]) THEN [facts[i] EXCEPT !.status = "closed"]
                     ELSE facts[i]], new)])

ExcludeFact(s) ==
  \E i \in DOMAIN store[s].facts :
    /\ ~ store[s].facts[i].excluded
    /\ Write(s, [store[s] EXCEPT !.facts[i].excluded = TRUE])

-----------------------------------------------------------------------------
(* export_jsonl: the episodes and the facts of the space, with the aliases *)
(* of the whole store in between.                                          *)

ExportEpisodes ==
  /\ exporter.at = "idle"
  /\ exporter' = [at |-> "aliases", episodes |-> store["home"].episodes, aliases |-> <<>>]
  /\ UNCHANGED <<store, export, importer, writes, landed>>

ExportAliases ==
  /\ exporter.at = "aliases"
  /\ exporter' = [exporter EXCEPT !.at = "facts", !.aliases = store["home"].aliases]
  /\ UNCHANGED <<store, export, importer, writes, landed>>

ExportFacts ==
  /\ exporter.at = "facts"
  /\ export' = [episodes |-> exporter.episodes, aliases |-> exporter.aliases,
                facts |-> store["home"].facts]
  /\ exporter' = Nowhere
  /\ UNCHANGED <<store, importer, writes, landed>>

-----------------------------------------------------------------------------
(* import_jsonl: the episodes, then the aliases in the order of their      *)
(* spelling, then the facts in that of their ids.                          *)

BeginImport ==
  /\ importer = Nowhere
  /\ importer' = [at |-> "import", alone |-> TRUE, of |-> export,
                  episodes |-> export.episodes, aliases |-> DOMAIN export.aliases,
                  facts |-> export.facts]
  /\ landed' = IF landed # NotLanded /\ landed.of = export THEN landed ELSE NotLanded
  /\ UNCHANGED <<store, exporter, export, writes>>

Bring(after, left) ==
  /\ store' = [store EXCEPT !["away"] = after]
  /\ importer' = left
  /\ UNCHANGED <<exporter, export, writes, landed>>

ImportText ==
  /\ importer.at = "import" /\ importer.episodes # {}
  /\ LET e == Min(importer.episodes)
     IN  Bring([store["away"] EXCEPT !.episodes = @ \cup {e}],
               [importer EXCEPT !.episodes = @ \ {e}])

ImportAlias ==
  /\ importer.at = "import" /\ importer.episodes = {} /\ importer.aliases # {}
  /\ LET alias == Min(importer.aliases)
     IN  Bring([store["away"] EXCEPT
                  !.aliases = Aliased("away", alias, importer.of.aliases[alias])],
               [importer EXCEPT !.aliases = @ \ {alias}])

(* Seeded fault: the hashes that no episode here has are kept. *)
ProvenanceUnresolved(f) == f.sources

(* The episodes of away that have the fact's hashes. *)
Provenance(f) == f.sources \cap store["away"].episodes

SameFact(f, g) ==
  f.subject = g.subject /\ f.object = g.object /\ f.from = g.from /\ f.status = g.status

(* import_fact: a fact that is there is left as it is; one that is new is  *)
(* inserted as it is, whatever away holds of its topic, and its subject is *)
(* the entity of that name, whatever its aliases.                          *)
ImportFact ==
  /\ importer.at = "import" /\ importer.episodes = {} /\ importer.aliases = {}
  /\ importer.facts # <<>>
  /\ LET f == Head(importer.facts)
         facts == store["away"].facts
     IN  IF f.status \notin {"active", "closed", "expired"} \/ Provenance(f) = {}
         THEN Bring(store["away"], Nowhere)  \* an error: what was imported stays
         ELSE Bring([store["away"] EXCEPT
                       !.facts = IF \E g \in ToSet(facts) : SameFact(f, g) THEN facts
                                 ELSE Append(facts, [f EXCEPT !.sources = Provenance(f)])],
                    [importer EXCEPT !.facts = Tail(@)])

EndImport ==
  /\ importer.at = "import"
  /\ importer.episodes = {} /\ importer.aliases = {} /\ importer.facts = <<>>
  /\ importer' = Nowhere
  /\ landed' = IF importer.alone /\ landed = NotLanded
               THEN [of |-> importer.of, held |-> store["away"]]
               ELSE landed
  /\ UNCHANGED <<store, exporter, export, writes>>

ImportDies ==
  /\ importer # Nowhere
  /\ importer' = Nowhere
  /\ UNCHANGED <<store, exporter, export, writes, landed>>

PortNext ==
  \/ \E s \in Stores, e \in Episodes : FileText(s, e)
  \/ \E s \in Stores, call \in AliasCalls : AddAlias(s, call[1], call[2])
  \/ \E s \in Stores, claim \in Claims : LearnFact(s, claim)
  \/ \E s \in Stores : ExcludeFact(s)
  \/ ExportEpisodes
  \/ ExportAliases
  \/ ExportFacts
  \/ BeginImport
  \/ ImportText
  \/ ImportAlias
  \/ ImportFact
  \/ EndImport
  \/ ImportDies

PortSpec == PortInit /\ [][PortNext]_portVars

-----------------------------------------------------------------------------

Chained(aliases) == \E a, b \in DOMAIN aliases : a # b /\ aliases[a] = b

(* "Every importer path is idempotent - re-importing an export is a no-op" *)
(* (portability.rs:5), wherever earlier imports of it stopped: what landed *)
(* holds the export, and another import of it changes neither episodes nor *)
(* facts, nor aliases unless one is of another's name (the second import   *)
(* resolves it further).  However the export was torn by other writes, and *)
(* whatever came in before, a fact rests on episodes of its own store.     *)
ReimportChangesNothing ==
  /\ \A s \in Stores : \A f \in ToSet(store[s].facts) :
       f.sources # {} /\ f.sources \subseteq store[s].episodes
  /\ landed # NotLanded =>
       /\ landed.of.episodes \subseteq store["away"].episodes
       /\ \A f \in ToSet(landed.of.facts) : \E g \in ToSet(store["away"].facts) : SameFact(f, g)
       /\ store["away"].episodes = landed.held.episodes
       /\ store["away"].facts = landed.held.facts
       /\ ~ Chained(landed.of.aliases) => store["away"].aliases = landed.held.aliases

=============================================================================
