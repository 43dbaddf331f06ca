----------------------------- MODULE Migrations -----------------------------
(***************************************************************************)
(* Opening a store (db.rs, open): a file of any earlier build is brought   *)
(* to this build's schema by statements that are committed one by one,     *)
(* each step's shape before its version, by processes that may die between *)
(* any two and of which several may open one file at a time.               *)
(***************************************************************************)
EXTENDS Integers, SequencesExt

CONSTANT Openers  \* the processes

VARIABLES
  file,     \* [version, parts, excludes, queued]
  opener,   \* opener[p]: where p is in open()
  origin,   \* history: the file as it was found
  late      \* history: a step was taken whose version was already stamped

schemaVars == <<file, opener, origin, late>>

SchemaVersion == 8

-----------------------------------------------------------------------------
(* The files there are.  A part is a table, or a widening of one; fact     *)
(* links were added to the second step while files of versions 2 to 5      *)
(* were about.                                                             *)

BaseParts == {"base", "connector_kind", "deleted_at"}

(* Seeded fault: the marker of deleted spaces is left to the base schema,  *)
(* which only a new file runs.                                             *)
StatementsWithoutMarker ==
  [step \in 2..SchemaVersion |->
     CASE step = 2 -> <<"facts", "fact_links", "queue", "backfill">>
       [] step = 3 -> <<"tags">>
       [] step = 4 -> <<"connector_kind">>
       [] step = 5 -> <<"proposed_status">>
       [] step = 8 -> <<"excluded_reason">>
       [] OTHER -> <<>>]

(* SCHEMA_V2 to SCHEMA_V5 and the ALTERs of steps 7 and 8; step 6 only     *)
(* writes its version.                                                     *)
Statements ==
  [step \in 2..SchemaVersion |->
     CASE step = 2 -> <<"facts", "fact_links", "queue", "backfill">>
       [] step = 3 -> <<"tags">>
       [] step = 4 -> <<"connector_kind">>
       [] step = 5 -> <<"proposed_status">>
       [] step = 7 -> <<"deleted_at">>
       [] step = 8 -> <<"excluded_reason">>
       [] OTHER -> <<>>]

(* ALTER TABLE: only where the column is missing. *)
Altering == {7, 8}

(* What the build of a version gave its files; episodes are old where the  *)
(* build knew no queue.                                                    *)
PartsOf ==
  [v \in 0..SchemaVersion |->
     IF v = 0 THEN {}
     ELSE {"base"}
          \cup (IF v >= 2 THEN {"facts", "queue"} ELSE {})
          \cup (IF v >= 3 THEN {"tags"} ELSE {})
          \cup (IF v >= 4 THEN {"connector_kind"} ELSE {})
          \cup (IF v >= 5 THEN {"proposed_status"} ELSE {})
          \cup (IF v >= 7 THEN {"deleted_at"} ELSE {})
          \cup (IF v >= 8 THEN {"excluded_reason"} ELSE {})]

BuildParts == UNION {PartsOf[v] : v \in 0..SchemaVersion}

FilesFound ==
  {[version |-> v, parts |-> PartsOf[v] \cup with, excludes |-> v = 8, queued |-> v # 1] :
     v \in 0..SchemaVersion, with \in {{}, {"fact_links"}}}

SchemaInit ==
  /\ file \in {f \in FilesFound : f.version < 2 => "fact_links" \notin f.parts}
  /\ opener = [p \in Openers |-> [at |-> "closed"]]
  /\ origin = file /\ late = FALSE

-----------------------------------------------------------------------------
(* The statements of open, in its order.                                   *)

Go(p, at) == opener' = [opener EXCEPT ![p] = at]

(* SCHEMA: CREATE TABLE IF NOT EXISTS, so an older file keeps its shape. *)
BaseSchema(p) ==
  /\ opener[p].at = "closed"
  /\ file' = [file EXCEPT !.parts = IF "base" \in @ THEN @ ELSE @ \cup BaseParts]
  /\ Go(p, [at |-> "version"])
  /\ UNCHANGED <<origin, late>>

FirstVersion(p) ==
  /\ opener[p].at = "version"
  /\ file' = [file EXCEPT !.version = IF @ = 0 THEN 1 ELSE @]
  /\ Go(p, [at |-> "read", step |-> 2])
  /\ UNCHANGED <<origin, late>>

(* Steps 6, 7 and 8 go by one reading of the version.                      *)
NextStep(step, version) ==
  IF step = SchemaVersion THEN [at |-> "open"]
  ELSE IF step \in {6, 7} THEN [at |-> "step", step |-> step + 1, version |-> version]
  ELSE [at |-> "read", step |-> step + 1]

ReadVersion(p) ==
  LET me == opener[p]
  IN  /\ me.at = "read"
      /\ Go(p, [at |-> "step", step |-> me.step, version |-> file.version])
      /\ UNCHANGED <<file, origin, late>>

(* A step that is due begins with its statements; where a column is to be  *)
(* added, with none if a look finds it there.                              *)
BeginStep(p) ==
  LET me == opener[p]
      todo == IF me.step \in Altering /\ ToSet(Statements[me.step]) \subseteq file.parts
              THEN <<>> ELSE Statements[me.step]
  IN  /\ me.at = "step"
      /\ Go(p, IF me.version < me.step
               THEN [at |-> "apply", step |-> me.step, version |-> me.version, todo |-> todo]
               ELSE NextStep(me.step, me.version))
      /\ UNCHANGED <<file, origin, late>>

(* The fifth step rebuilds facts with the columns that it names.           *)
Applied(part) ==
  CASE part = "backfill" -> [file EXCEPT !.queued = TRUE]
    [] part = "proposed_status" ->
         [file EXCEPT !.parts = (@ \cup {part}) \ {"excluded_reason"}, !.excludes = FALSE]
    [] OTHER -> [file EXCEPT !.parts = @ \cup {part}]

(* An ALTER fails where another process added the column after the look.   *)
Apply(p) ==
  LET me == opener[p]
      fails == me.step \in Altering /\ Head(me.todo) \in file.parts
  IN  /\ me.at = "apply" /\ me.todo # <<>>
      /\ IF fails THEN Go(p, [at |-> "closed"]) /\ UNCHANGED file
         ELSE Go(p, [me EXCEPT !.todo = Tail(@)]) /\ file' = Applied(Head(me.todo))
      /\ late' = (late \/ (~ fails /\ file.version >= me.step))
      /\ UNCHANGED origin

(* The step's version, whatever the file's version has become. *)
Stamp(p) ==
  LET me == opener[p]
  IN  /\ me.at = "apply" /\ me.todo = <<>>
      /\ file' = [file EXCEPT !.version = me.step]
      /\ Go(p, NextStep(me.step, me.version))
      /\ late' = (late \/ file.version >= me.step)
      /\ UNCHANGED origin

-----------------------------------------------------------------------------
(* An open store is used, and processes end.                               *)

(* facts_exclude *)
StoreExclusion(p) ==
  /\ opener[p].at = "open"
  /\ "excluded_reason" \in file.parts
  /\ file' = [file EXCEPT !.excludes = TRUE]
  /\ origin' = [origin EXCEPT !.excludes = TRUE]
  /\ UNCHANGED <<opener, late>>

Ends(p) ==
  /\ opener[p].at # "closed"
  /\ Go(p, [at |-> "closed"])
  /\ UNCHANGED <<file, origin, late>>

SchemaNext ==
  \/ \E p \in Openers : BaseSchema(p)
  \/ \E p \in Openers : FirstVersion(p)
  \/ \E p \in Openers : ReadVersion(p)
  \/ \E p \in Openers : BeginStep(p)
  \/ \E p \in Openers : Apply(p)
  \/ \E p \in Openers : Stamp(p)
  \/ \E p \in Openers : StoreExclusion(p)
  \/ \E p \in Openers : Ends(p)

SchemaSpec == SchemaInit /\ [][SchemaNext]_schemaVars

-----------------------------------------------------------------------------

(* The parts that this build's statements name.                            *)
PartsUsed == BuildParts \cup {"connector_kind", "fact_links"}

(* Fact links are made by the second step, which a file of version 2 or    *)
(* more has behind it; the reasons of exclusions are lost to a fifth step  *)
(* that is taken again.                                                    *)
NeverMade == IF origin.version < 2 THEN {} ELSE {"fact_links"} \ origin.parts
DroppedLate == IF late THEN {"excluded_reason"} ELSE {}

(* Whatever the build that wrote the file, wherever earlier openings of it *)
(* stopped and whoever opens it at the same time, an opened store has      *)
(* every table and column this build uses but those two, its episodes of   *)
(* before the queue are queued, and until a process takes a step that      *)
(* another had stamped before it, the version is this build's and the      *)
(* exclusions that were stored stay (db.rs, open: the version's reading    *)
(* and the step are separate).                                             *)
MigrationsKeepEveryColumn ==
  /\ \A p \in Openers : opener[p].at = "open" =>
       /\ PartsUsed \ file.parts \subseteq NeverMade \cup DroppedLate
       /\ file.queued
       /\ ~ late => file.version = SchemaVersion
  /\ ~ late /\ origin.excludes => file.excludes

(* "v6 adds fact_links, created above by the base schema for every file"   *)
(* (db.rs:246): once it is open, a file that went through the sixth step   *)
(* has that table.                                                         *)
EveryFileHasFactLinks ==
  \A p \in Openers :
    opener[p].at = "open" /\ origin.version < 6 => "fact_links" \in file.parts

=============================================================================
