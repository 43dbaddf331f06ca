------------------------------ MODULE ServeApi ------------------------------
(***************************************************************************)
(* The HTTP server (serve.rs): keys with a space and a role, the gate      *)
(* before the handlers, and the handlers that change a ledger or read a    *)
(* page of it.  The server's requests take turns by a mutex; other         *)
(* processes (the CLI, the MCP server, a worker) do not, and the page is   *)
(* read in three statements: the list, the revision, the sources.          *)
(***************************************************************************)
EXTENDS Integers, SequencesExt

CONSTANTS
  Keys,        \* [space, role]
  ClaimIds,      \* the claims a space may hold
  Opening,     \* the claims at first: claim |-> [status, excluded]
  Filters,     \* bound: which lists are asked for
  MaxChanges,  \* bound: changes of a space that move its revision
  MaxPages     \* bound: pages of the ledger served

VARIABLES
  ledger,   \* ledger[s]: its claims, its revision, whether it was deleted
  serving,  \* the page being read, under the mutex
  pages     \* the pages served

serveVars == <<ledger, serving, pages>>

Roles == {"read", "write", "review", "full"}
ASSUME KeysAssumption == \A k \in Keys : k.role \in Roles

ServedSpaces == {k.space : k \in Keys}
Free == [at |-> "free"]
NotRead == {}

ServeInit ==
  /\ ledger = [s \in ServedSpaces |-> [claims |-> Opening, revision |-> 0, deleted |-> FALSE]]
  /\ serving = Free /\ pages = <<>>

-----------------------------------------------------------------------------
(* What the engine does to a space: its claims, and the revision where it  *)
(* moves.  Approving, declining, closing, decaying and learning a claim    *)
(* leave the revision alone.                                               *)

Status(space, c) == ledger[space].claims[c].status
Held(space) == DOMAIN ledger[space].claims

WithStatus(space, c, status) == [ledger[space] EXCEPT !.claims[c].status = status]

(* Seeded fault: excluding leaves the revision alone. *)
WithExclusionUnmarked(space, c, excluded) ==
  [ledger[space] EXCEPT !.claims[c].excluded = excluded]

WithExclusion(space, c, excluded) ==
  [ledger[space] EXCEPT !.claims[c].excluded = excluded, !.revision = @ + 1]

WithClaim(space, c, status) ==
  [ledger[space] EXCEPT !.claims =
     [d \in DOMAIN @ \cup {c} |->
        IF d = c THEN [status |-> status, excluded |-> FALSE] ELSE @[d]]]

(* The ledgers that an operation may leave of a space: none where it is    *)
(* refused or changes nothing.  Approving is of a claim without a rival;   *)
(* FactLedger has the rest.                                                *)
Outcomes(op, space) ==
  LET Of(statuses) == {c \in Held(space) : Status(space, c) \in statuses}
  IN  CASE op = "episodes" -> {[ledger[space] EXCEPT !.revision = @ + 1]}
        [] op = "approve" -> {WithStatus(space, c, "active") : c \in Of({"proposed"})}
        [] op = "decline" -> {WithStatus(space, c, "declined") : c \in Of({"proposed"})}
        [] op = "exclude" ->
             {WithExclusion(space, c, TRUE) : c \in Of({"active", "closed", "expired"})}
        [] op = "include" ->
             {WithExclusion(space, c, FALSE) :
                c \in {d \in Held(space) : ledger[space].claims[d].excluded}}
        [] op = "close" -> {WithStatus(space, c, "closed") : c \in Of({"active"})}
        [] op = "decay" -> {WithStatus(space, c, "expired") : c \in Of({"active"})}
        [] op = "learn" ->
             {WithClaim(space, c, "active") : c \in ClaimIds \ Held(space)}
               \cup {WithClaim(space, c, "proposed") : c \in ClaimIds \ Held(space)}
        [] op = "spaces" ->
             {[ledger[space] EXCEPT !.claims = <<>>, !.revision = @ + 1, !.deleted = TRUE]}

Change(op, space) ==
  /\ ~ ledger[space].deleted
  /\ ledger[space].revision < MaxChanges
  /\ \E after \in Outcomes(op, space) : ledger' = [ledger EXCEPT ![space] = after]

-----------------------------------------------------------------------------
(* The gate: what is asked is told by the method and the path.             *)

Routes ==
  [episodes |-> [method |-> "POST", path |-> <<"v1", "episodes">>],
   approve |-> [method |-> "POST", path |-> <<"v1", "facts", "id", "approve">>],
   decline |-> [method |-> "POST", path |-> <<"v1", "facts", "id", "decline">>],
   exclude |-> [method |-> "POST", path |-> <<"v1", "facts", "id", "exclude">>],
   include |-> [method |-> "POST", path |-> <<"v1", "facts", "id", "include">>],
   close |-> [method |-> "POST", path |-> <<"v1", "facts", "id", "close">>],
   spaces |-> [method |-> "DELETE", path |-> <<"v1", "spaces", "name">>],
   facts |-> [method |-> "GET", path |-> <<"v1", "facts">>]]

IsSpaceDelete(route) == route.method = "DELETE" /\ route.path[2] = "spaces"
IsDecision(route) == Last(route.path) \in {"approve", "decline", "exclude", "include"}

(* Role::permits *)
Permits(role, route) ==
  \/ route.method = "GET" \/ role = "full"
  \/ ~ IsSpaceDelete(route) /\ role = (IF IsDecision(route) THEN "review" ELSE "write")

(* role_gate and with_engine: the mutex is free, and the key's space is    *)
(* not a deleted one.                                                      *)
Admitted(key, op) ==
  /\ Permits(key.role, Routes[op])
  /\ serving = Free
  /\ ~ ledger[key.space].deleted

(* The handlers that write.  delete_space is of the key's own space, by    *)
(* name.                                                                   *)
Handle(key, op) ==
  /\ op # "facts" /\ Admitted(key, op)
  /\ Change(op, key.space)
  /\ UNCHANGED <<serving, pages>>

-----------------------------------------------------------------------------
(* GET /v1/facts.                                                          *)

Listed(space, filter) ==
  LET shown == {c \in Held(space) :
                  /\ filter = "active" => Status(space, c) = "active"
                  /\ filter = "proposed" => Status(space, c) = "proposed"
                  /\ ledger[space].claims[c].excluded => filter = "everything"}
  IN  [c \in shown |-> ledger[space].claims[c]]

ReadList(key, filter) ==
  /\ Admitted(key, "facts")
  /\ Len(pages) < MaxPages
  /\ serving' = [at |-> "list", space |-> key.space, filter |-> filter,
                 list |-> Listed(key.space, filter),
                 revision |-> NotRead, sourced |-> NotRead]
  /\ UNCHANGED <<ledger, pages>>

ReadRevision ==
  /\ serving.at = "list"
  /\ serving' = [serving EXCEPT !.at = "revision", !.revision = ledger[serving.space].revision]
  /\ UNCHANGED <<ledger, pages>>

(* fact_sources, per claim: those of a claim that is gone are none.        *)
ReadSources ==
  /\ serving.at = "revision"
  /\ pages' = Append(pages, [serving EXCEPT !.at = "served",
                              !.sourced = DOMAIN serving.list \cap Held(serving.space)])
  /\ serving' = Free
  /\ UNCHANGED ledger

-----------------------------------------------------------------------------

(* Another process, which does not take the mutex.                         *)
Elsewhere(op, space) == Change(op, space) /\ UNCHANGED <<serving, pages>>

ServeNext ==
  \/ \E k \in Keys, op \in DOMAIN Routes : Handle(k, op)
  \/ \E k \in Keys, filter \in Filters : ReadList(k, filter)
  \/ ReadRevision
  \/ ReadSources
  \/ \E op \in (DOMAIN Routes \ {"facts"}) \cup {"learn", "decay"}, s \in ServedSpaces :
       Elsewhere(op, s)

ServeSpec == ServeInit /\ [][ServeNext]_serveVars

-----------------------------------------------------------------------------

(* "The revision is read with the list" (serve.rs:691), so that a reader   *)
(* who freezes a page knows what was frozen - but by statements between    *)
(* which another process may write, so a page may carry the revision of a  *)
(* later ledger.  What a reader can rely on: a revision that was already   *)
(* served before the page was read.  All such pages of a space, whatever   *)
(* they list, agree on what is excluded.  (Not on what is active: the      *)
(* decisions that leave the revision alone.)  And no claim is shown        *)
(* without its sources, unless its space was deleted under the reader.     *)
Reread(k) ==
  \E i \in 1 .. k - 1 : pages[i].space = pages[k].space /\ pages[i].revision = pages[k].revision

Agree(page, other) ==
  \A c \in DOMAIN page.list \cap DOMAIN other.list :
    page.list[c].excluded = other.list[c].excluded

RereadShowsItsRevision ==
  /\ \A j, k \in DOMAIN pages :
       /\ pages[j].space = pages[k].space /\ pages[j].revision = pages[k].revision
       /\ Reread(j) /\ Reread(k)
       => Agree(pages[j], pages[k])
  /\ \A k \in DOMAIN pages :
       ledger[pages[k].space].deleted \/ pages[k].sourced = DOMAIN pages[k].list

=============================================================================
