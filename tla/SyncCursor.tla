----------------------------- MODULE SyncCursor -----------------------------
(***************************************************************************)
(* `scone sync` and `scone connect` (main.rs, connectors.rs): documents of *)
(* outside services are listed from a cursor on, read and imported, and    *)
(* the cursors are written, in the file that also holds the tokens, once   *)
(* all services were read: the file is emptied first and then written.     *)
(* The services edit their documents meanwhile.                            *)
(***************************************************************************)
EXTENDS Integers, SequencesExt

CONSTANTS
  Syncers,    \* the processes
  ServiceOf,  \* the documents there may be: document |-> its service
  Scenes,     \* bound: processes and documents that meet, and edits of these
  ListLimit,  \* documents of one listing (100 or 200 in the code)
  MaxTicks,   \* bound: the services' clock
  Unreadable  \* a file that does not parse

VARIABLES
  scene,       \* which of Scenes the behaviour is about
  remote,      \* remote[d]: when the document was edited, and its edit
  ticks,       \* the services' clock, which may stand still between edits
  imported,    \* <<document, edit>>: the episodes of the store
  credentials, \* connectors.toml: service |-> cursor, for the connected ones
  syncer,      \* syncer[s]: the command that s runs
  listedAt,    \* history: when each service last listed its documents
  leftOut      \* history: editions, as <<document, edit>>, that no sync was given

world == <<scene, remote, ticks>>
gaps == <<listedAt, leftOut>>
syncVars == <<world, imported, credentials, gaps, syncer>>

Documents == DOMAIN ServiceOf
KNOWN == <<"notion", "github", "slack", "google-drive">>
Services == Range(ServiceOf)
Met == {ServiceOf[d] : d \in scene.documents}

ASSUME ScenesAssumption ==
  Scenes \subseteq [syncers : SUBSET Syncers, documents : SUBSET Documents, edits : Nat]

NoCursor == 0
NoServices == [p \in {} |-> NoCursor]    \* an empty file
NoDocument == [time |-> 0, edit |-> 0]
Resting == [at |-> "idle"]

SyncInit ==
  /\ scene \in Scenes
  /\ remote = [d \in Documents |-> NoDocument]
  /\ ticks = 1 /\ imported = {} /\ leftOut = {}
  /\ credentials \in {[p \in connected |-> NoCursor] : connected \in SUBSET Met}
  /\ syncer = [s \in Syncers |-> Resting]
  /\ listedAt = [p \in Services |-> 0]

-----------------------------------------------------------------------------
(* The services, as far as the requests rely on them: `since` of GitHub    *)
(* takes the cursor's own time in, Drive's modifiedTime and Slack's oldest *)
(* do not, and Notion's pages are compared by parse_search.  A message of  *)
(* Slack is dated by its ts, which an edit leaves as it is.                *)

ListsCursorTime == {"github"}
DatesByCreation == {"slack"}
ListsBodies == {"github", "slack"}
LeavesOutBlanks == {"notion", "slack", "google-drive"}

Exist(p) == {d \in Documents : ServiceOf[d] = p /\ remote[d] # NoDocument}

After(p, time, since) == time > since \/ (p \in ListsCursorTime /\ time = since)

Editions(D) == {<<d, remote[d].edit>> : d \in D}

(* A page of the newest of D. *)
NewestPage(page, D) ==
  /\ page \subseteq D /\ Cardinality(page) = Min({ListLimit, Cardinality(D)})
  /\ \A d \in page, e \in D \ page : remote[d].time >= remote[e].time

Edits == Max({0} \cup {remote[d].edit : d \in Documents})

(* An edit that is dated no later than the last listing may be passed.     *)
Edit(d) ==
  LET p == ServiceOf[d]
      time == IF p \in DatesByCreation /\ d \in Exist(p) THEN remote[d].time ELSE ticks
  IN  /\ Edits < scene.edits
      /\ remote' = [remote EXCEPT ![d] = [time |-> time, edit |-> Edits + 1]]
      /\ leftOut' = leftOut \cup (IF After(p, time, listedAt[p]) THEN {} ELSE {<<d, Edits + 1>>})
      /\ UNCHANGED <<scene, ticks, imported, credentials, syncer, listedAt>>

Tick ==
  /\ ticks < MaxTicks
  /\ ticks' = ticks + 1
  /\ UNCHANGED <<scene, remote, imported, credentials, syncer, gaps>>

-----------------------------------------------------------------------------
(* scone sync.                                                             *)

Set(s, to) == syncer' = [syncer EXCEPT ![s] = to]

(* One service, or all the connected ones, with or without --full.         *)
BeginSync(s, wanted, full) ==
  /\ syncer[s] = Resting
  /\ wanted # <<>> /\ credentials # Unreadable
  /\ Set(s, [at |-> "next", creds |-> credentials, wanted |-> wanted, full |-> full])
  /\ UNCHANGED <<world, imported, credentials, gaps>>

(* A service without a token is passed over.                               *)
PassOver(s) ==
  LET me == syncer[s]
  IN  /\ me.at = "next" /\ me.wanted # <<>>
      /\ Head(me.wanted) \notin DOMAIN me.creds
      /\ Set(s, [me EXCEPT !.wanted = Tail(@)])
      /\ UNCHANGED <<world, imported, credentials, gaps>>

(* The listing of fetch: newest first and one page.  Notion's page is cut  *)
(* before it is compared with the cursor.                                  *)
List(s) ==
  LET me == syncer[s]
      p == Head(me.wanted)
      since == IF me.full THEN NoCursor ELSE me.creds[p]
      new == {d \in Exist(p) : After(p, remote[d].time, since)}
      offered == IF p = "notion" THEN Exist(p) ELSE new
  IN  /\ me.at = "next" /\ me.wanted # <<>>
      /\ p \in DOMAIN me.creds
      /\ \E page \in SUBSET offered :
           /\ NewestPage(page, offered)
           /\ Set(s, [at |-> "read", creds |-> me.creds, wanted |-> me.wanted, full |-> me.full,
                      listed |-> {[doc |-> d, time |-> remote[d].time, edit |-> remote[d].edit] :
                                    d \in page \cap new},
                      read |-> {}, newest |-> since])
           /\ leftOut' = leftOut \cup Editions(new \ page)
      /\ listedAt' = [listedAt EXCEPT ![p] = ticks]
      /\ UNCHANGED <<world, imported, credentials>>

(* The body of a document: with the listing, or by a request of its own,   *)
(* which may find a later edit.  A blank one is left out, but not by       *)
(* GitHub, where the header stands for it: a page of Notion without        *)
(* supported text, a message without text or with a subtype.  What Drive   *)
(* or Slack could not give counts as blank; Notion's failure ends the sync *)
(* (SyncEnds).                                                             *)
ReadBody(s) ==
  LET me == syncer[s]
      p == Head(me.wanted)
      Body(row) == IF p \in ListsBodies THEN row.edit ELSE remote[row.doc].edit
  IN  /\ me.at = "read"
      /\ \E row \in me.listed :
         \/ /\ Set(s, [me EXCEPT !.listed = @ \ {row},
                         !.read = @ \cup {[row EXCEPT !.edit = Body(row)]}])
            /\ UNCHANGED leftOut
         \/ /\ p \in LeavesOutBlanks
            /\ Set(s, [me EXCEPT !.listed = @ \ {row}])
            /\ leftOut' = leftOut \cup {<<row.doc, Body(row)>>}
      /\ UNCHANGED <<world, imported, credentials, listedAt>>

(* Seeded fault: the cursor is our own clock. *)
AdvancedToNow(newest, time) == ticks

Advanced(newest, time) == IF time > newest THEN time ELSE newest

(* import_episode, by content; and the cursor in memory.                   *)
ImportOne(s) ==
  LET me == syncer[s]
  IN  /\ me.at = "read" /\ me.listed = {}
      /\ \E row \in me.read :
           /\ imported' = imported \cup {<<row.doc, row.edit>>}
           /\ Set(s, [me EXCEPT !.read = @ \ {row}, !.newest = Advanced(@, row.time)])
      /\ UNCHANGED <<world, credentials, gaps>>

ServiceRead(s) ==
  LET me == syncer[s]
      p == Head(me.wanted)
      creds == IF me.newest = NoCursor THEN me.creds
               ELSE [me.creds EXCEPT ![p] = me.newest]
  IN  /\ me.at = "read" /\ me.listed = {} /\ me.read = {}
      /\ Set(s, [at |-> "next", creds |-> creds, wanted |-> Tail(me.wanted), full |-> me.full])
      /\ UNCHANGED <<world, imported, credentials, gaps>>

(* save_credentials: fs::write empties the file, and then writes it as     *)
(* this process has it.                                                    *)
EmptyFile(s) ==
  LET me == syncer[s]
  IN  /\ me.at = "next" /\ me.wanted = <<>>
      /\ credentials' = NoServices
      /\ Set(s, [at |-> "saving", creds |-> me.creds])
      /\ UNCHANGED <<world, imported, gaps>>

(* What the file may hold once `mine` is written over the longer text that *)
(* another process wrote since the file was emptied, if the rest of that   *)
(* text parses: services of it, or a cursor for one without.               *)
Mixed(mine, found) ==
  UNION {{c \in [DOMAIN mine \cup rest -> Range(mine) \cup Range(found)] :
            \A p \in DOMAIN c :
              \/ p \in DOMAIN mine /\ c[p] = mine[p]
              \/ p \in DOMAIN found /\ c[p] = found[p]}
         : rest \in SUBSET DOMAIN found}

WriteFile(s) ==
  LET me == syncer[s]
  IN  /\ me.at = "saving"
      /\ \/ credentials' = me.creds
         \/ /\ credentials \notin {NoServices, Unreadable}
            /\ credentials' \in {Unreadable} \cup Mixed(me.creds, credentials)
         \/ credentials = Unreadable /\ credentials' = Unreadable
      /\ Set(s, Resting)
      /\ UNCHANGED <<world, imported, gaps>>

(* A request, a read or an import fails, or the process ends: the cursors  *)
(* of the services it had read are not saved either, and a file that it    *)
(* has emptied stays empty.                                                *)
SyncEnds(s) ==
  /\ syncer[s] # Resting
  /\ Set(s, Resting)
  /\ UNCHANGED <<world, imported, credentials, gaps>>

(* scone connect: the file is loaded, and saved with the token in it; the  *)
(* cursor of a service that had one stays.                                 *)
BeginConnect(s, p) ==
  /\ syncer[s] = Resting /\ credentials # Unreadable
  /\ Set(s, [at |-> "next", wanted |-> <<>>, full |-> FALSE,
             creds |-> [q \in DOMAIN credentials \cup {p} |->
                          IF q \in DOMAIN credentials THEN credentials[q] ELSE NoCursor]])
  /\ UNCHANGED <<world, imported, credentials, gaps>>

SyncNext ==
  \/ \E d \in scene.documents : Edit(d)
  \/ Tick
  \/ \E s \in scene.syncers, full \in BOOLEAN, p \in Met : BeginSync(s, <<p>>, full)
  \/ \E s \in scene.syncers, full \in BOOLEAN :
       credentials # Unreadable
         /\ BeginSync(s, SelectSeq(KNOWN, LAMBDA p : p \in DOMAIN credentials), full)
  \/ \E s \in scene.syncers : PassOver(s)
  \/ \E s \in scene.syncers : List(s)
  \/ \E s \in scene.syncers : ReadBody(s)
  \/ \E s \in scene.syncers : ImportOne(s)
  \/ \E s \in scene.syncers : ServiceRead(s)
  \/ \E s \in scene.syncers : EmptyFile(s)
  \/ \E s \in scene.syncers : WriteFile(s)
  \/ \E s \in scene.syncers : SyncEnds(s)
  \/ \E s \in scene.syncers, p \in Met : BeginConnect(s, p)

SyncSpec == SyncInit /\ [][SyncNext]_syncVars

-----------------------------------------------------------------------------

(* "Only advance the cursor on success, so an interrupted sync re-reads    *)
(* rather than silently skipping documents" (main.rs:1090): whatever was   *)
(* interrupted, wherever in the file's writing, and whoever synced         *)
(* meanwhile, a document that the next sync will not be offered is in the  *)
(* store as it is now - or this very edition of it is one that no sync was *)
(* given: cut from a listing, blank or not readable, or dated no later     *)
(* than a listing that was made before it.                                 *)
CursorNeverPassesUnread ==
  credentials # Unreadable =>
    \A p \in DOMAIN credentials : \A d \in Exist(p) :
      ~ After(p, remote[d].time, credentials[p]) =>
        <<d, remote[d].edit>> \in imported \cup leftOut

=============================================================================
