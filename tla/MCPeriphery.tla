---------------------------- MODULE MCPeriphery ----------------------------
(***************************************************************************)
(* What is read from the store, and the parts around the ledger and the    *)
(* indexes, each on its own: `focus` says which of them a behaviour is     *)
(* about, and the others stand still.                                      *)
(***************************************************************************)
EXTENDS
  FactLinks, EvidenceLog, Migrations, SyncCursor, Portability, ServeApi, ChunkSpans, MCAnswers

VARIABLE focus

peripheryVars ==
  <<focus, linkVars, logVars, schemaVars, syncVars, portVars, serveVars, chunkVars, recallVars,
    sample>>

-----------------------------------------------------------------------------
(* The instances.                                                          *)

(* Links that may close a circle of three, and calls that are refused.     *)
MCLinkCalls ==
  {c \in Calls : c.kind = "extends" /\ c.quote = "none" /\ {c.from, c.to} \subseteq LinkedFacts}
    \cup {[from |-> 2, to |-> 1, kind |-> "derived_from", quote |-> "held"],
          [from |-> 2, to |-> 1, kind |-> "derived_from", quote |-> "false"],
          [from |-> 1, to |-> 3, kind |-> "supports", quote |-> "none"],
          [from |-> 1, to |-> 9, kind |-> "extends", quote |-> "none"]}

(* Two contents under one source, and one source in two spaces.            *)
MCReports ==
  {[space |-> "a", source |-> 1, content |-> "x", episode |-> NoEpisodeId],
   [space |-> "a", source |-> 1, content |-> "y", episode |-> 3],
   [space |-> "b", source |-> 1, content |-> "x", episode |-> 2]}
MCFiling == <<"a", "b", "a">>

(* Three pages of Notion for a page of two; two services in one sync; two  *)
(* processes at one service, of either kind of cursor; messages.           *)
MCServiceOf ==
  [d \in {"n1", "n2", "d1", "k1", "g1", "g2", "g3"} |->
     CASE d \in {"n1", "n2"} -> "notion" [] d = "d1" -> "google-drive" [] d = "k1" -> "slack"
       [] OTHER -> "github"]
MCScenes ==
  {[syncers |-> {"s1"}, documents |-> {"n1", "n2"}, edits |-> 3],
   [syncers |-> {"s1"}, documents |-> {"g1", "g2", "g3"}, edits |-> 3],
   [syncers |-> {"s1"}, documents |-> {"k1", "d1"}, edits |-> 2],
   [syncers |-> {"s1", "s2"}, documents |-> {"g1"}, edits |-> 2],
   [syncers |-> {"s1", "s2"}, documents |-> {"n1"}, edits |-> 2]}

(* An alias, news on one subject under both its names, and a proposal.     *)
MCAliasCalls == {<<1, 2>>}
MCClaims ==
  {[episode |-> 1, name |-> 1, object |-> "pnpm", status |-> "active"],
   [episode |-> 2, name |-> 2, object |-> "bun", status |-> "active"],
   [episode |-> 2, name |-> 2, object |-> "bun", status |-> "proposed"]}

MCKeys == {[space |-> "a", role |-> r] : r \in Roles}
MCOpening == <<>>

(* Lines of characters of one, three and four bytes, longer and shorter    *)
(* than a target.                                                          *)
LineOf(kind, count, width) ==
  [kind |-> kind, bytes |-> count * width, chars |-> {width * c : c \in 0 .. count - 1}]
MCLines ==
  {LineOf("blank", 1, 1), LineOf("plain", 1, 4)}
    \cup {LineOf(kind, n, 1) : kind \in {"plain", "decl"}, n \in {1, 5}}
    \cup {LineOf(kind, n, 3) : kind \in {"plain", "heading"}, n \in {2, 9}}

-----------------------------------------------------------------------------

(* The parts that are not looked at begin in one of their initial states.  *)
(* Files of the other versions are those that the opening of these passes. *)
PeripheryInit ==
  /\ focus \in {"links", "log", "schema", "sync", "port", "serve", "chunks", "answers"}
  /\ LinksInit /\ LogInit /\ SchemaInit /\ SyncInit /\ PortInit /\ ServeInit /\ ChunksInit
  /\ focus # "log" => reader = "walks" /\ follower.space = "a" /\ follower.kind = "any"
  /\ file.version \in (IF focus = "schema" THEN {0, 1, 2, 5, 8} ELSE {0})
  /\ focus # "sync" => scene = (CHOOSE s \in Scenes : TRUE) /\ credentials = NoServices
  /\ focus # "chunks" => cutting.target = Max({1, Min(Targets)}) /\ ~ cutting.code
  /\ IF focus = "answers" THEN AnswersInit ELSE RecallInit /\ sample = NoSample

answerVars == <<recallVars, sample>>

NotLinks ==
  UNCHANGED <<focus, logVars, schemaVars, syncVars, portVars, serveVars, chunkVars, answerVars>>
NotLog ==
  UNCHANGED <<focus, linkVars, schemaVars, syncVars, portVars, serveVars, chunkVars, answerVars>>
NotSchema ==
  UNCHANGED <<focus, linkVars, logVars, syncVars, portVars, serveVars, chunkVars, answerVars>>
NotSync ==
  UNCHANGED <<focus, linkVars, logVars, schemaVars, portVars, serveVars, chunkVars, answerVars>>
NotPort ==
  UNCHANGED <<focus, linkVars, logVars, schemaVars, syncVars, serveVars, chunkVars, answerVars>>
NotServe ==
  UNCHANGED <<focus, linkVars, logVars, schemaVars, syncVars, portVars, chunkVars, answerVars>>
NotChunks ==
  UNCHANGED <<focus, linkVars, logVars, schemaVars, syncVars, portVars, serveVars, answerVars>>
NotAnswers ==
  UNCHANGED <<focus, linkVars, logVars, schemaVars, syncVars, portVars, serveVars, chunkVars>>

PeripheryNext ==
  \/ focus = "links" /\ LinksNext /\ NotLinks
  \/ focus = "log" /\ LogNext /\ NotLog
  \/ focus = "schema" /\ SchemaNext /\ NotSchema
  \/ focus = "sync" /\ SyncNext /\ NotSync
  \/ focus = "port" /\ PortNext /\ NotPort
  \/ focus = "serve" /\ ServeNext /\ NotServe
  \/ focus = "chunks" /\ ChunksNext /\ NotChunks
  \/ focus = "answers" /\ AnswersNext /\ NotAnswers

PeripherySpec == PeripheryInit /\ [][PeripheryNext]_peripheryVars

=============================================================================
