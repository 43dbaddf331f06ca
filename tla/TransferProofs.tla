---------------------------- MODULE TransferProofs ----------------------------
(***************************************************************************)
(* Proofs about what comes into a store from outside: the documents of     *)
(* services that are synced (SyncCursor), and exports of other stores      *)
(* (Portability).  For any number of processes, documents and edits, and   *)
(* of episodes, names and facts.                                           *)
(***************************************************************************)
EXTENDS SyncCursor, Portability, SequenceTheorems, WellFoundedInduction, TLAPS

-----------------------------------------------------------------------------
(***************************************************************************)
(* Syncing: the inductive invariant                                        *)
(***************************************************************************)

(* What a service at this cursor will not offer again is in the store, or  *)
(* was left out.                                                           *)
Accounted == imported \cup leftOut

Settled(p, cursor) ==
  \A d \in Exist(p) : ~ After(p, remote[d].time, cursor) => <<d, remote[d].edit>> \in Accounted

(* Cursors, of the file or in a process's memory.                          *)
CursorsHold(c) ==
  /\ DOMAIN c \subseteq Services
  /\ \A p \in DOMAIN c : c[p] \in Nat /\ c[p] <= listedAt[p] /\ Settled(p, c[p])

FileHolds == credentials = Unreadable \/ CursorsHold(credentials)

(* A sync that has listed a service holds, of each of its documents, the   *)
(* row or the body of what is there now, unless that is in the store, was  *)
(* left out, or is later than all that this sync may move the cursor to.   *)
Rows(me) == me.listed \cup me.read

InHand(p, me) ==
  \A d \in Exist(p) :
    \/ <<d, remote[d].edit>> \in Accounted
    \/ \E row \in Rows(me) : row.doc = d /\ row.edit = remote[d].edit
    \/ /\ After(p, remote[d].time, me.newest)
       /\ \A row \in Rows(me) : After(p, remote[d].time, row.time)

Commanded == {"at", "creds", "wanted", "full"}
Reading == Commanded \cup {"listed", "read", "newest"}
RowFields == {"doc", "time", "edit"}

ReadsInOrder(p, me) ==
  /\ p \in DOMAIN me.creds
  /\ me.newest \in Nat /\ me.newest <= listedAt[p]
  /\ \A row \in Rows(me) :
       /\ DOMAIN row = RowFields
       /\ row.time \in Nat /\ row.time <= listedAt[p]
  /\ InHand(p, me)

CommandHolds(me) ==
  \/ me = Resting
  \/ me.at = "next" /\ DOMAIN me = Commanded /\ CursorsHold(me.creds)
  \/ /\ me.at = "read" /\ DOMAIN me = Reading /\ CursorsHold(me.creds)
     /\ ReadsInOrder(Head(me.wanted), me)
  \/ me.at = "saving" /\ CursorsHold(me.creds)

WorldHolds ==
  /\ scene \in Scenes
  /\ ticks \in Nat /\ ticks >= 1
  /\ DOMAIN remote = Documents
  /\ \A d \in Documents :
       /\ DOMAIN remote[d] = {"time", "edit"}
       /\ remote[d].time \in Nat /\ remote[d].time <= ticks
       /\ remote[d] # NoDocument => remote[d].time >= 1
  /\ DOMAIN listedAt = Services
  /\ \A p \in Services : listedAt[p] \in Nat /\ listedAt[p] <= ticks
  /\ DOMAIN syncer = Syncers

SyncInv ==
  /\ WorldHolds
  /\ FileHolds
  /\ \A s \in Syncers : CommandHolds(syncer[s])

-----------------------------------------------------------------------------
(***************************************************************************)
(* It holds at first, and what the world's own steps leave of it           *)
(***************************************************************************)

(* The connected services are some of those there are. *)
LEMMA MetAreServices ==
  ASSUME scene \in Scenes
  PROVE  Met \subseteq Services
BY ScenesAssumption DEF Met, Services, Documents, Range

(* A new cursor covers nothing: whatever exists came after it. *)
LEMMA NothingBeforeTheFirst ==
  ASSUME WorldHolds, NEW p
  PROVE  Settled(p, NoCursor)
BY DEF WorldHolds, Settled, Exist, After, NoCursor

(* Nothing is connected at first.                                          *)
LEMMA InitSyncInv == SyncInit => SyncInv
<1> SUFFICES ASSUME SyncInit PROVE SyncInv
  OBVIOUS
<1>1. WorldHolds
  BY DEF SyncInit, WorldHolds, NoDocument
<1>2. CursorsHold(credentials)
  BY <1>1, MetAreServices, NothingBeforeTheFirst
     DEF SyncInit, CursorsHold, NoCursor, WorldHolds
<1> QED
  BY <1>1, <1>2 DEF SyncInit, SyncInv, FileHolds, CommandHolds

(* Documents stand still, and the store, what is left out and the listings *)
(* grow.                                                                   *)
Stands ==
  /\ remote' = remote /\ Accounted \subseteq Accounted'
  /\ \A p \in Services : listedAt'[p] \in Nat /\ listedAt[p] <= listedAt'[p]

(* A cursor covers what it covered if the documents stand.                 *)
LEMMA CursorsStand ==
  ASSUME WorldHolds, Stands, NEW c, CursorsHold(c)
  PROVE  CursorsHold(c)'
BY DEF WorldHolds, Stands, CursorsHold, Settled, Exist

(* What is in hand stays in hand if the documents stand.                   *)
LEMMA InHandStands ==
  ASSUME Stands, NEW p, NEW me, InHand(p, me)
  PROVE  InHand(p, me)'
BY DEF Stands, InHand, Exist, Rows

(* A command is not disturbed if the documents stand.                      *)
LEMMA CommandStands ==
  ASSUME WorldHolds, Stands, NEW me, CommandHolds(me)
  PROVE  CommandHolds(me)'
<1>1. CASE me = Resting
  BY <1>1 DEF CommandHolds
<1>2. CASE me.at \in {"next", "saving"} /\ me # Resting
  BY <1>2, CursorsStand DEF CommandHolds
<1>3. CASE me.at = "read" /\ me # Resting
  <2>1. ReadsInOrder(Head(me.wanted), me) /\ CursorsHold(me.creds)
    BY <1>3 DEF CommandHolds
  <2>2. PICK p : p = Head(me.wanted)
    OBVIOUS
  <2>3. ReadsInOrder(p, me)'
    BY <2>1, <2>2, InHandStands DEF ReadsInOrder, CursorsHold, Rows, Stands, WorldHolds
  <2> QED
    BY <1>3, <2>1, <2>2, <2>3, CursorsStand DEF CommandHolds
<1> QED
  BY <1>1, <1>2, <1>3 DEF CommandHolds

(* An edit is later than every cursor of its service, or is left out: it   *)
(* is dated in the tick of a listing where the service's comparison is     *)
(* strict, or before it.                                                   *)
LEMMA EditIsLater ==
  ASSUME WorldHolds, NEW d \in Documents, Edit(d)
  PROVE  /\ d \in DOMAIN remote'
         /\ \/ <<d, remote'[d].edit>> \in Accounted'
            \/ \A t \in Nat : t <= listedAt[ServiceOf[d]] => After(ServiceOf[d], remote'[d].time, t)
<1>1. PICK p, time :
        /\ p = ServiceOf[d]
        /\ time = IF p \in DatesByCreation /\ d \in Exist(p) THEN remote[d].time ELSE ticks
        /\ remote' = [remote EXCEPT ![d] = [time |-> time, edit |-> Edits + 1]]
        /\ leftOut' = leftOut \cup (IF After(p, time, listedAt[p]) THEN {} ELSE {<<d, Edits + 1>>})
  BY DEF Edit
<1>2. time \in Nat /\ listedAt[p] \in Nat
  BY <1>1 DEF WorldHolds, Services, Range, Documents
<1>3. remote'[d].time = time /\ remote'[d].edit = Edits + 1 /\ d \in DOMAIN remote'
  BY <1>1 DEF WorldHolds
<1>4. CASE After(p, time, listedAt[p])
  BY <1>1, <1>2, <1>3, <1>4 DEF After
<1>5. CASE ~ After(p, time, listedAt[p])
  BY <1>1, <1>3, <1>5 DEF Accounted
<1> QED
  BY <1>4, <1>5

(* An edit changes one document of one service.                            *)
LEMMA EditOfOne ==
  ASSUME WorldHolds, NEW d \in Documents, Edit(d)
  PROVE  /\ \A e \in Documents : e # d => remote'[e] = remote[e]
         /\ \A p : Exist(p)' \subseteq Exist(p) \cup {e \in {d} : ServiceOf[e] = p}
         /\ Accounted \subseteq Accounted' /\ listedAt' = listedAt
         /\ credentials' = credentials /\ syncer' = syncer
BY DEF WorldHolds, Edit, Exist, Accounted

(* What a cursor covers stays covered through an edit.                     *)
LEMMA CursorsThroughEdit ==
  ASSUME WorldHolds, NEW d \in Documents, Edit(d), NEW c, CursorsHold(c)
  PROVE  CursorsHold(c)'
<1>1. ASSUME NEW p \in DOMAIN c, NEW e \in Exist(p)',
             ~ After(p, remote'[e].time, c[p])
      PROVE  <<e, remote'[e].edit>> \in Accounted'
  <2>1. CASE e = d
    BY <1>1, <2>1, EditIsLater DEF CursorsHold, Exist
  <2>2. CASE e # d
    <3>1. e \in Exist(p) /\ remote'[e] = remote[e] /\ Accounted \subseteq Accounted'
      BY <1>1, <2>2, EditOfOne DEF Exist
    <3> QED
      BY <1>1, <3>1 DEF CursorsHold, Settled
  <2> QED
    BY <2>1, <2>2
<1>2. listedAt' = listedAt
  BY EditOfOne
<1> QED
  BY <1>1, <1>2 DEF CursorsHold, Settled

(* And later than what a command under way has listed.                     *)
LEMMA CommandThroughEdit ==
  ASSUME WorldHolds, NEW d \in Documents, Edit(d), NEW me, CommandHolds(me)
  PROVE  CommandHolds(me)'
<1>1. CASE me = Resting
  BY <1>1 DEF CommandHolds
<1>2. CASE me.at \in {"next", "saving"} /\ me # Resting
  BY <1>2, CursorsThroughEdit DEF CommandHolds
<1>3. CASE me.at = "read" /\ me # Resting
  <2>1. ReadsInOrder(Head(me.wanted), me) /\ CursorsHold(me.creds)
    BY <1>3 DEF CommandHolds
  <2>2. PICK p : p = Head(me.wanted)
    OBVIOUS
  <2>3. InHand(p, me)'
    <3>1. InHand(p, me) /\ Accounted \subseteq Accounted'
      BY <2>1, <2>2, EditOfOne DEF ReadsInOrder
    <3>2. ASSUME NEW e \in Exist(p)', e # d
          PROVE  e \in Exist(p) /\ remote'[e] = remote[e]
      BY <3>2, EditOfOne DEF Exist
    <3>3. ASSUME d \in Exist(p)'
          PROVE  \/ <<d, remote'[d].edit>> \in Accounted'
                 \/ /\ After(p, remote'[d].time, me.newest)
                    /\ \A row \in Rows(me) : After(p, remote'[d].time, row.time)
      BY <2>1, <2>2, <3>3, EditIsLater DEF ReadsInOrder, Exist
    <3> QED
      BY <3>1, <3>2, <3>3 DEF InHand, Rows
  <2>4. ReadsInOrder(p, me)'
    BY <2>1, <2>2, <2>3, EditOfOne DEF ReadsInOrder, Rows
  <2> QED
    BY <1>3, <2>1, <2>2, <2>4, CursorsThroughEdit DEF CommandHolds
<1> QED
  BY <1>1, <1>2, <1>3 DEF CommandHolds

-----------------------------------------------------------------------------
(***************************************************************************)
(* What a command's own steps make of it                                   *)
(***************************************************************************)

(* The command of s is now one that holds. *)
GoesOn(s) ==
  \E me : syncer' = [syncer EXCEPT ![s] = me] /\ CommandHolds(me)'

(* A sync begins with the cursors of the file.                             *)
LEMMA BeginSyncGoesOn ==
  ASSUME SyncInv, NEW s, NEW wanted, NEW full, BeginSync(s, wanted, full)
  PROVE  Stands /\ GoesOn(s)
<1>1. Stands
  BY DEF SyncInv, WorldHolds, BeginSync, Stands, Accounted, world, gaps
<1>2. PICK c : c = credentials
  OBVIOUS
<1>3. PICK me : me = [at |-> "next", creds |-> c, wanted |-> wanted, full |-> full]
  OBVIOUS
<1>4. me.at = "next" /\ DOMAIN me = Commanded /\ me.creds = c
  BY <1>3 DEF Commanded
<1>5. CursorsHold(c)
  BY <1>2 DEF BeginSync, SyncInv, FileHolds
<1>6. CommandHolds(me)'
  BY <1>1, <1>4, <1>5, CursorsStand DEF SyncInv, CommandHolds
<1> QED
  BY <1>1, <1>2, <1>3, <1>6 DEF BeginSync, Set, GoesOn

(* A connection begins without a cursor.                                   *)
LEMMA BeginConnectGoesOn ==
  ASSUME SyncInv, NEW s, NEW p \in Met, BeginConnect(s, p)
  PROVE  Stands /\ GoesOn(s)
<1>1. Stands
  BY DEF SyncInv, WorldHolds, BeginConnect, Stands, Accounted, world, gaps
<1>2. PICK c : c = credentials
  OBVIOUS
<1>3. PICK d : d = [q \in DOMAIN c \cup {p} |-> IF q \in DOMAIN c THEN c[q] ELSE NoCursor]
  OBVIOUS
<1>4. PICK me : me = [at |-> "next", wanted |-> <<>>, full |-> FALSE, creds |-> d]
  OBVIOUS
<1>5. me.at = "next" /\ DOMAIN me = Commanded /\ me.creds = d
  BY <1>4 DEF Commanded
<1>6. DOMAIN d = DOMAIN c \cup {p}
  BY <1>3
<1>7. \A q \in DOMAIN d : (d[q] = c[q] /\ q \in DOMAIN c) \/ d[q] = NoCursor
  BY <1>3
<1>8. CursorsHold(d)
  <2>1. CursorsHold(c)
    BY <1>2 DEF BeginConnect, SyncInv, FileHolds
  <2> QED
    BY <2>1, <1>6, <1>7, MetAreServices, NothingBeforeTheFirst
       DEF SyncInv, CursorsHold, WorldHolds, NoCursor
<1>9. CommandHolds(me)'
  BY <1>1, <1>5, <1>8, CursorsStand DEF SyncInv, CommandHolds
<1> QED
  BY <1>1, <1>2, <1>3, <1>4, <1>9 DEF BeginConnect, Set, GoesOn

(* A command that ends leaves the documents alone.                         *)
LEMMA EndGoesOn ==
  ASSUME SyncInv, NEW s, SyncEnds(s)
  PROVE  Stands /\ GoesOn(s)
<1>1. Stands
  BY DEF SyncInv, WorldHolds, SyncEnds, Stands, Accounted, world, gaps
<1>2. PICK me : me = Resting
  OBVIOUS
<1>3. CommandHolds(me)'
  BY <1>2 DEF CommandHolds
<1> QED
  BY <1>1, <1>2, <1>3 DEF SyncEnds, Set, GoesOn

(* An empty file, and one that two processes wrote, hold no cursor that    *)
(* none of them had.                                                       *)
LEMMA MixedHolds ==
  ASSUME NEW mine, NEW found, CursorsHold(mine), CursorsHold(found), NEW c \in Mixed(mine, found)
  PROVE  CursorsHold(c)
<1>1. PICK rest \in SUBSET DOMAIN found :
        /\ c \in [DOMAIN mine \cup rest -> Range(mine) \cup Range(found)]
        /\ \A p \in DOMAIN c :
             \/ p \in DOMAIN mine /\ c[p] = mine[p]
             \/ p \in DOMAIN found /\ c[p] = found[p]
  BY Zenon DEF Mixed
<1>2. DOMAIN c \subseteq Services
  BY <1>1 DEF CursorsHold
<1> QED
  BY <1>1, <1>2 DEF CursorsHold

(* Emptying the file: the cursors go with it, but none goes ahead.         *)
LEMMA EmptyFileGoesOn ==
  ASSUME SyncInv, NEW s \in Syncers, EmptyFile(s)
  PROVE  Stands /\ GoesOn(s) /\ FileHolds' /\ UNCHANGED <<world, gaps>>
<1>1. Stands /\ UNCHANGED <<world, gaps>>
  BY DEF SyncInv, WorldHolds, EmptyFile, Stands, Accounted, world, gaps
<1>2. PICK old : old = syncer[s]
  OBVIOUS
<1>3. CursorsHold(old.creds)
  BY <1>2 DEF SyncInv, CommandHolds, EmptyFile, Resting
<1>4. PICK me : me = [at |-> "saving", creds |-> old.creds]
  OBVIOUS
<1>5. me.at = "saving" /\ me.creds = old.creds
  BY <1>4
<1>6. CommandHolds(me)'
  BY <1>1, <1>3, <1>5, CursorsStand DEF CommandHolds, SyncInv
<1>7. GoesOn(s)
  BY <1>2, <1>4, <1>6 DEF EmptyFile, Set, GoesOn
<1>8. PICK c : c = NoServices
  OBVIOUS
<1>9. CursorsHold(c)'
  BY <1>8 DEF NoServices, CursorsHold
<1>10. credentials' = c
  BY <1>8 DEF EmptyFile
<1> QED
  BY <1>1, <1>7, <1>9, <1>10 DEF FileHolds

(* Writing it.                                                             *)
LEMMA WriteFileGoesOn ==
  ASSUME SyncInv, NEW s \in Syncers, WriteFile(s)
  PROVE  Stands /\ GoesOn(s) /\ FileHolds' /\ UNCHANGED <<world, gaps>>
<1>1. Stands /\ UNCHANGED <<world, gaps>>
  BY DEF SyncInv, WorldHolds, WriteFile, Stands, Accounted, world, gaps
<1>2. GoesOn(s)
  <2>1. PICK me : me = Resting
    OBVIOUS
  <2>2. CommandHolds(me)'
    BY <2>1 DEF CommandHolds
  <2> QED
    BY <2>1, <2>2 DEF WriteFile, Set, GoesOn
<1>3. PICK me, found : me = syncer[s] /\ found = credentials
  OBVIOUS
<1>4. CursorsHold(me.creds)
  BY <1>3 DEF SyncInv, CommandHolds, WriteFile, Resting
<1>5. \/ credentials' = Unreadable \/ credentials' = me.creds
      \/ found # Unreadable /\ credentials' \in Mixed(me.creds, found)
  BY <1>3 DEF WriteFile
<1>6. CASE credentials' = Unreadable
  BY <1>1, <1>2, <1>6 DEF FileHolds
<1>7. ASSUME NEW c, CursorsHold(c), credentials' = c
      PROVE  FileHolds'
  <2>1. CursorsHold(c)'
    BY <1>1, <1>7, CursorsStand DEF SyncInv
  <2> QED
    BY <1>7, <2>1 DEF FileHolds
<1>8. CASE credentials' = me.creds
  BY <1>1, <1>2, <1>4, <1>7, <1>8
<1>9. CASE found # Unreadable /\ credentials' \in Mixed(me.creds, found)
  <2>1. CursorsHold(found)
    BY <1>3, <1>9 DEF SyncInv, FileHolds
  <2>2. PICK c : c = credentials'
    OBVIOUS
  <2>3. CursorsHold(c)
    BY <1>4, <1>9, <2>1, <2>2, MixedHolds
  <2> QED
    BY <1>1, <1>2, <1>7, <2>2, <2>3
<1> QED
  BY <1>5, <1>6, <1>8, <1>9

(* A service that is passed over keeps its cursor.                         *)
LEMMA PassOverGoesOn ==
  ASSUME SyncInv, NEW s \in Syncers, PassOver(s)
  PROVE  Stands /\ GoesOn(s)
<1>1. Stands
  BY DEF SyncInv, WorldHolds, PassOver, Stands, Accounted, world, gaps
<1>2. PICK old : old = syncer[s]
  OBVIOUS
<1>3. PICK me : me = [old EXCEPT !.wanted = Tail(@)]
  OBVIOUS
<1>4. CommandHolds(old) /\ old.at = "next"
  BY <1>2 DEF SyncInv, PassOver
<1>5. DOMAIN old = Commanded
  BY <1>4 DEF CommandHolds, Resting
<1>6. me.at = old.at /\ DOMAIN me = Commanded /\ me.creds = old.creds
  BY <1>3, <1>5 DEF Commanded
<1>7. CommandHolds(me)
  BY <1>4, <1>5, <1>6 DEF CommandHolds, Resting
<1>8. CommandHolds(me)'
  BY <1>1, <1>7, CommandStands DEF SyncInv
<1> QED
  BY <1>1, <1>2, <1>3, <1>8 DEF PassOver, Set, GoesOn

(* The listing of a page, with names for what List computes. *)
Lists(s, page, old, p, since, new) ==
  /\ old = syncer[s] /\ p = Head(old.wanted)
  /\ since = IF old.full THEN NoCursor ELSE old.creds[p]
  /\ new = {d \in Exist(p) : After(p, remote[d].time, since)}
  /\ syncer' = [syncer EXCEPT ![s] =
       [at |-> "read", creds |-> old.creds, wanted |-> old.wanted, full |-> old.full,
        listed |-> {[doc |-> d, time |-> remote[d].time, edit |-> remote[d].edit] :
                      d \in page \cap new},
        read |-> {}, newest |-> since]]
  /\ leftOut' = leftOut \cup Editions(new \ page)
  /\ listedAt' = [listedAt EXCEPT ![p] = ticks]
  /\ remote' = remote /\ ticks' = ticks

(* A listing has every document that its cursor would pass.                *)
LEMMA ListGoesOn ==
  ASSUME SyncInv, NEW s \in Syncers, List(s)
  PROVE  Stands /\ GoesOn(s)
<1>1. Stands
  BY DEF SyncInv, WorldHolds, List, Stands, Accounted, world
<1>2. PICK page, old, p, since, new : Lists(s, page, old, p, since, new)
  <2> DEFINE o == syncer[s]
             q == Head(o.wanted)
             from == IF o.full THEN NoCursor ELSE o.creds[q]
             fresh == {d \in Exist(q) : After(q, remote[d].time, from)}
  <2>1. PICK page : Lists(s, page, o, q, from, fresh)
    BY DEF List, Lists, Set, world
  <2> HIDE DEF o, q, from, fresh
  <2> QED
    BY <2>1
<1>3. /\ old = syncer[s] /\ p = Head(old.wanted)
      /\ since = IF old.full THEN NoCursor ELSE old.creds[p]
      /\ new = {d \in Exist(p) : After(p, remote[d].time, since)}
      /\ leftOut' = leftOut \cup Editions(new \ page)
      /\ listedAt' = [listedAt EXCEPT ![p] = ticks]
      /\ remote' = remote /\ ticks' = ticks
  BY <1>2 DEF Lists
<1>4. old.at = "next" /\ p \in DOMAIN old.creds
  BY <1>3 DEF List
<1>5. PICK listed : listed = {[doc |-> d, time |-> remote[d].time, edit |-> remote[d].edit] :
                                d \in page \cap new}
  OBVIOUS
<1>6. PICK me : me = [at |-> "read", creds |-> old.creds, wanted |-> old.wanted,
                      full |-> old.full, listed |-> listed,
                      read |-> {}, newest |-> since]
  OBVIOUS
<1>7. /\ me.at = "read" /\ DOMAIN me = Reading /\ me.creds = old.creds
       /\ me.wanted = old.wanted /\ me.newest = since
       /\ Rows(me) = listed
  BY <1>6 DEF Reading, Commanded, Rows
<1>8. CommandHolds(old) /\ WorldHolds
  BY <1>3 DEF SyncInv
<1>9. CursorsHold(old.creds)
  BY <1>4, <1>8 DEF CommandHolds, Resting
<1>10. p \in Services /\ since \in Nat /\ since <= listedAt'[p] /\ listedAt'[p] = ticks
  BY <1>3, <1>4, <1>8, <1>9 DEF CursorsHold, WorldHolds, NoCursor
<1>11. \A row \in listed : DOMAIN row = RowFields /\ row.time \in Nat /\ row.time <= ticks
  BY <1>3, <1>5, <1>8 DEF WorldHolds, Exist, RowFields
<1>12. InHand(p, me)'
  <2>1. ASSUME NEW d \in Exist(p)
        PROVE  \/ <<d, remote[d].edit>> \in Accounted'
               \/ \E row \in listed : row.doc = d /\ row.edit = remote[d].edit
               \/ After(p, remote[d].time, since) /\ \A row \in listed : FALSE
    <3>1. CASE d \notin new
      <4>1. Settled(p, since)
        BY <1>3, <1>4, <1>8, <1>9, NothingBeforeTheFirst DEF CursorsHold
      <4> QED
        BY <1>1, <1>3, <2>1, <3>1, <4>1 DEF Settled, Stands
    <3>2. CASE d \in new \ page
      BY <1>3, <3>2 DEF Editions, Accounted
    <3>3. CASE d \in page \cap new
      <4> DEFINE row == [doc |-> d, time |-> remote[d].time, edit |-> remote[d].edit]
      <4>1. row \in listed
        BY <1>5, <3>3
      <4> QED
        BY <4>1
    <3> QED
      BY <3>1, <3>2, <3>3
  <2>2. Exist(p)' = Exist(p) /\ remote' = remote /\ Rows(me)' = listed
    BY <1>3, <1>7 DEF Exist, Rows
  <2> QED
    BY <1>7, <2>1, <2>2 DEF InHand
<1>13. ReadsInOrder(p, me)'
  BY <1>4, <1>7, <1>10, <1>11, <1>12 DEF ReadsInOrder, Rows
<1>14. CommandHolds(me)'
  BY <1>1, <1>3, <1>7, <1>8, <1>9, <1>13, CursorsStand DEF CommandHolds
<1> QED
  BY <1>1, <1>2, <1>5, <1>6, <1>14 DEF GoesOn, Lists

(* Where a sync is that reads a service. *)
LEMMA InTheReading ==
  ASSUME SyncInv, NEW s \in Syncers, syncer[s].at = "read"
  PROVE  /\ DOMAIN syncer[s] = Reading /\ CursorsHold(syncer[s].creds)
         /\ ReadsInOrder(Head(syncer[s].wanted), syncer[s])
BY DEF SyncInv, CommandHolds, Resting

(* A body is read as it is now.                                            *)
LEMMA ReadBodyGoesOn ==
  ASSUME SyncInv, NEW s \in Syncers, ReadBody(s)
  PROVE  Stands /\ GoesOn(s)
<1>1. Stands
  BY DEF SyncInv, WorldHolds, ReadBody, Stands, Accounted, world
<1>2. PICK old : old = syncer[s]
  OBVIOUS
<1>3. PICK p : p = Head(old.wanted)
  OBVIOUS
<1>4. /\ old.at = "read" /\ DOMAIN old = Reading /\ CursorsHold(old.creds)
      /\ ReadsInOrder(p, old)
  BY <1>2, <1>3, InTheReading DEF ReadBody
<1>5. PICK row \in old.listed :
        \E body : /\ body = IF p \in ListsBodies THEN row.edit ELSE remote[row.doc].edit
                  /\ \/ /\ Set(s, [old EXCEPT !.listed = @ \ {row},
                                              !.read = @ \cup {[row EXCEPT !.edit = body]}])
                        /\ UNCHANGED leftOut
                     \/ /\ Set(s, [old EXCEPT !.listed = @ \ {row}])
                        /\ leftOut' = leftOut \cup {<<row.doc, body>>}
  BY <1>2, <1>3 DEF ReadBody
<1>55. PICK now :
        /\ now = IF p \in ListsBodies THEN row.edit ELSE remote[row.doc].edit
        /\ \/ /\ Set(s, [old EXCEPT !.listed = @ \ {row},
                                    !.read = @ \cup {[row EXCEPT !.edit = now]}])
              /\ UNCHANGED leftOut
           \/ /\ Set(s, [old EXCEPT !.listed = @ \ {row}])
              /\ leftOut' = leftOut \cup {<<row.doc, now>>}
  BY <1>5
<1>6. DOMAIN row = RowFields
  BY <1>4, <1>5 DEF ReadsInOrder, Rows
<1>7. CASE /\ Set(s, [old EXCEPT !.listed = @ \ {row}])
           /\ leftOut' = leftOut \cup {<<row.doc, now>>}
  <2>1. PICK me : me = [old EXCEPT !.listed = @ \ {row}]
    OBVIOUS
  <2>2. /\ me.at = "read" /\ DOMAIN me = Reading /\ me.creds = old.creds
        /\ me.wanted = old.wanted /\ me.newest = old.newest
        /\ me.listed = old.listed \ {row} /\ me.read = old.read
    BY <1>4, <2>1 DEF Reading, Commanded
  <2>3. InHand(p, me)'
    <3>1. InHand(p, old) /\ remote' = remote /\ Exist(p)' = Exist(p) /\ Rows(me)' = Rows(me)
      BY <1>1, <1>4 DEF ReadsInOrder, Stands, Exist, Rows
    <3>2. Rows(me) \subseteq Rows(old) /\ Rows(old) \subseteq Rows(me) \cup {row}
      BY <2>2 DEF Rows
    <3>3. <<row.doc, now>> \in Accounted' /\ Accounted \subseteq Accounted'
      BY <1>1, <1>7 DEF Accounted, Stands
    <3> QED
      BY <1>5, <1>55, <2>2, <3>1, <3>2, <3>3 DEF InHand
  <2>4. ReadsInOrder(p, me)'
    <3>1. \A r \in Rows(me) : DOMAIN r = RowFields /\ r.time \in Nat /\ r.time <= listedAt[p]
      BY <1>4, <2>2 DEF ReadsInOrder, Rows
    <3>2. p \in Services /\ me.newest \in Nat /\ me.newest <= listedAt[p] /\ p \in DOMAIN me.creds
      BY <1>4, <2>2 DEF ReadsInOrder, CursorsHold
    <3> QED
      BY <1>1, <2>3, <3>1, <3>2 DEF ReadsInOrder, Rows, SyncInv, WorldHolds, Stands
  <2>5. CommandHolds(me)'
    BY <1>1, <1>3, <1>4, <2>2, <2>4, CursorsStand DEF CommandHolds, SyncInv
  <2> QED
    BY <1>1, <1>7, <2>1, <2>5 DEF Set, GoesOn
<1>8. CASE /\ Set(s, [old EXCEPT !.listed = @ \ {row},
                                !.read = @ \cup {[row EXCEPT !.edit = now]}])
           /\ UNCHANGED leftOut
  <2>1. PICK body : body = [row EXCEPT !.edit = now]
    OBVIOUS
  <2>2. PICK me : me = [old EXCEPT !.listed = @ \ {row}, !.read = @ \cup {body}]
    OBVIOUS
  <2>3. /\ DOMAIN body = RowFields /\ body.doc = row.doc /\ body.time = row.time
        /\ body.edit = row.edit \/ body.edit = remote[row.doc].edit
    BY <1>55, <1>6, <2>1 DEF RowFields
  <2>4. /\ me.at = "read" /\ DOMAIN me = Reading /\ me.creds = old.creds
        /\ me.wanted = old.wanted /\ me.newest = old.newest
        /\ me.listed = old.listed \ {row} /\ me.read = old.read \cup {body}
    BY <1>4, <2>2 DEF Reading, Commanded
  <2>5. InHand(p, me)
    <3>1. InHand(p, old)
      BY <1>4 DEF ReadsInOrder
    <3>2. Rows(me) \subseteq Rows(old) \cup {body} /\ Rows(old) \ {row} \subseteq Rows(me)
      BY <2>4 DEF Rows
    <3>3. body \in Rows(me) /\ row \in Rows(old)
      BY <1>5, <2>4 DEF Rows
    <3> QED
      BY <2>3, <2>4, <3>1, <3>2, <3>3 DEF InHand
  <2>6. ReadsInOrder(p, me)'
    <3>1. InHand(p, me)'
      BY <1>1, <2>5, InHandStands
    <3>2. \A r \in Rows(me) : DOMAIN r = RowFields /\ r.time \in Nat /\ r.time <= listedAt[p]
      BY <1>4, <1>5, <2>3, <2>4 DEF ReadsInOrder, Rows
    <3>3. p \in Services /\ me.newest \in Nat /\ me.newest <= listedAt[p] /\ p \in DOMAIN me.creds
      BY <1>4, <2>4 DEF ReadsInOrder, CursorsHold
    <3> QED
      BY <1>1, <3>1, <3>2, <3>3 DEF ReadsInOrder, Rows, SyncInv, WorldHolds, Stands
  <2>7. CommandHolds(me)'
    BY <1>1, <1>3, <1>4, <2>4, <2>6, CursorsStand DEF CommandHolds, SyncInv
  <2> QED
    BY <1>1, <1>8, <2>1, <2>2, <2>7 DEF Set, GoesOn
<1> QED
  BY <1>55, <1>7, <1>8

(* Importing a body settles its document, and moves the cursor at most to  *)
(* the latest of what is in hand.                                          *)
LEMMA ImportOneGoesOn ==
  ASSUME SyncInv, NEW s \in Syncers, ImportOne(s)
  PROVE  Stands /\ GoesOn(s)
<1>1. Stands
  BY DEF SyncInv, WorldHolds, ImportOne, Stands, Accounted, world, gaps
<1>2. PICK old : old = syncer[s]
  OBVIOUS
<1>3. PICK p : p = Head(old.wanted)
  OBVIOUS
<1>4. /\ old.at = "read" /\ DOMAIN old = Reading /\ CursorsHold(old.creds)
      /\ ReadsInOrder(p, old)
  BY <1>2, <1>3, InTheReading DEF ImportOne
<1>5. PICK row \in old.read :
        /\ imported' = imported \cup {<<row.doc, row.edit>>}
        /\ Set(s, [old EXCEPT !.read = @ \ {row}, !.newest = Advanced(@, row.time)])
  BY <1>2 DEF ImportOne
<1>6. PICK me : me = [old EXCEPT !.read = @ \ {row}, !.newest = Advanced(@, row.time)]
  OBVIOUS
<1>7. /\ me.at = "read" /\ DOMAIN me = Reading /\ me.creds = old.creds
      /\ me.wanted = old.wanted
      /\ me.listed = old.listed /\ me.read = old.read \ {row}
      /\ me.newest = old.newest \/ me.newest = row.time
  BY <1>4, <1>6 DEF Reading, Commanded, Advanced
<1>8. Rows(me) \subseteq Rows(old) /\ Rows(old) \subseteq Rows(me) \cup {row} /\ row \in Rows(old)
  BY <1>5, <1>7 DEF Rows
<1>9. ReadsInOrder(p, me)'
  <2>1. InHand(p, me)'
    <3>1. InHand(p, old)
      BY <1>4 DEF ReadsInOrder
    <3>2. Exist(p)' = Exist(p) /\ remote' = remote /\ Rows(me)' = Rows(me)
      BY <1>1 DEF Stands, Exist, Rows
    <3>3. <<row.doc, row.edit>> \in Accounted' /\ Accounted \subseteq Accounted'
      BY <1>1, <1>5 DEF Accounted, Stands
    <3> QED
      BY <1>7, <1>8, <3>1, <3>2, <3>3 DEF InHand
  <2>2. /\ me.newest \in Nat /\ me.newest <= listedAt[p] /\ p \in DOMAIN me.creds
        /\ \A r \in Rows(me) : DOMAIN r = RowFields /\ r.time \in Nat /\ r.time <= listedAt[p]
    BY <1>4, <1>7, <1>8 DEF ReadsInOrder
  <2>3. listedAt' = listedAt /\ Rows(me)' = Rows(me)
    BY DEF ImportOne, gaps, Rows
  <2> QED
    BY <2>1, <2>2, <2>3 DEF ReadsInOrder
<1>10. CommandHolds(me)'
  BY <1>1, <1>3, <1>4, <1>7, <1>9, CursorsStand DEF CommandHolds, SyncInv
<1> QED
  BY <1>1, <1>5, <1>6, <1>10 DEF Set, GoesOn

(* Nothing is in hand any more: the service's cursor may be what it is.    *)
LEMMA ServiceReadGoesOn ==
  ASSUME SyncInv, NEW s \in Syncers, ServiceRead(s)
  PROVE  Stands /\ GoesOn(s)
<1>1. Stands
  BY DEF SyncInv, WorldHolds, ServiceRead, Stands, Accounted, world, gaps
<1>2. PICK old : old = syncer[s]
  OBVIOUS
<1>3. PICK p : p = Head(old.wanted)
  OBVIOUS
<1>4. /\ old.at = "read" /\ DOMAIN old = Reading /\ CursorsHold(old.creds)
      /\ ReadsInOrder(p, old)
  BY <1>2, <1>3, InTheReading DEF ServiceRead
<1>5. PICK creds : creds = IF old.newest = NoCursor THEN old.creds
                           ELSE [old.creds EXCEPT ![p] = old.newest]
  OBVIOUS
<1>6. old.listed = {} /\ old.read = {}
  BY <1>2 DEF ServiceRead
<1>7. Settled(p, old.newest)
  BY <1>4, <1>6 DEF ReadsInOrder, InHand, Rows, Settled
<1>8. /\ DOMAIN creds = DOMAIN old.creds
      /\ \A q \in DOMAIN creds : creds[q] = old.creds[q] \/ (q = p /\ creds[q] = old.newest)
  BY <1>4, <1>5
<1>9. CursorsHold(creds)
  BY <1>4, <1>7, <1>8 DEF CursorsHold, ReadsInOrder
<1>10. PICK me : me = [at |-> "next", creds |-> creds,
                       wanted |-> Tail(old.wanted), full |-> old.full]
  OBVIOUS
<1>11. me.at = "next" /\ DOMAIN me = Commanded /\ me.creds = creds
  BY <1>10 DEF Commanded
<1>12. CommandHolds(me)'
  BY <1>1, <1>4, <1>8, <1>9, <1>11, CursorsStand DEF CommandHolds, SyncInv
<1> QED
  BY <1>1, <1>2, <1>3, <1>5, <1>10, <1>12 DEF ServiceRead, Set, GoesOn

-----------------------------------------------------------------------------
(***************************************************************************)
(* Every step keeps the invariant                                          *)
(***************************************************************************)

(* A step of a command but the writing of the file. *)
Work(s) ==
  \/ \E full \in BOOLEAN, p \in Met : BeginSync(s, <<p>>, full)
  \/ \E full \in BOOLEAN :
       /\ credentials # Unreadable
       /\ BeginSync(s, SelectSeq(KNOWN, LAMBDA p : p \in DOMAIN credentials), full)
  \/ PassOver(s) \/ List(s) \/ ReadBody(s) \/ ImportOne(s) \/ ServiceRead(s) \/ SyncEnds(s)
  \/ \E p \in Met : BeginConnect(s, p)

(* Every step of a sync keeps its promise and leaves the documents alone.  *)
LEMMA WorkGoesOn ==
  ASSUME SyncInv, NEW s \in Syncers, Work(s)
  PROVE  /\ Stands /\ GoesOn(s) /\ UNCHANGED credentials
         /\ scene' = scene /\ ticks' = ticks
         /\ DOMAIN listedAt' = DOMAIN listedAt /\ \A p \in Services : listedAt'[p] <= ticks
<1>1. Stands /\ GoesOn(s)
  BY BeginSyncGoesOn, PassOverGoesOn, ListGoesOn, ReadBodyGoesOn, ImportOneGoesOn,
     ServiceReadGoesOn, EndGoesOn, BeginConnectGoesOn DEF Work
<1>2. UNCHANGED credentials /\ scene' = scene /\ ticks' = ticks
  BY DEF Work, BeginSync, PassOver, List, ReadBody, ImportOne, ServiceRead, SyncEnds,
         BeginConnect, world
<1>3. listedAt' = listedAt \/ \E p : listedAt' = [listedAt EXCEPT ![p] = ticks]
  BY DEF Work, BeginSync, PassOver, List, ReadBody, ImportOne, ServiceRead, SyncEnds,
         BeginConnect, gaps
<1> QED
  BY <1>1, <1>2, <1>3 DEF SyncInv, WorldHolds

(* Who goes on, goes on; the others stand. *)
LEMMA AllCommandsHold ==
  ASSUME SyncInv, NEW s, Stands, GoesOn(s)
  PROVE  DOMAIN syncer' = Syncers /\ (\A t \in Syncers : CommandHolds(syncer[t]))'
<1>1. PICK me : syncer' = [syncer EXCEPT ![s] = me] /\ CommandHolds(me)'
  BY DEF GoesOn
<1>2. ASSUME NEW t \in Syncers PROVE CommandHolds(syncer[t])'
  <2>1. PICK old : old = syncer[t]
    OBVIOUS
  <2>2. CommandHolds(old)'
    BY <2>1, CommandStands DEF SyncInv
  <2>3. syncer'[t] = old \/ syncer'[t] = me
    BY <1>1, <2>1 DEF SyncInv, WorldHolds
  <2>4. CASE syncer'[t] = old
    BY <2>2, <2>4
  <2>5. CASE syncer'[t] = me
    BY <1>1, <2>5
  <2> QED
    BY <2>3, <2>4, <2>5
<1> QED
  BY <1>1, <1>2 DEF SyncInv, WorldHolds

(* Every step of the syncs and the services keeps the invariant.           *)
LEMMA NextSyncInv == SyncInv /\ [SyncNext]_syncVars => SyncInv'
<1> SUFFICES ASSUME SyncInv, [SyncNext]_syncVars PROVE SyncInv'
  OBVIOUS
<1>1. PICK c : c = credentials
  OBVIOUS
<1>2. ASSUME NEW s \in Syncers, Work(s)
      PROVE  SyncInv'
  <2>1. WorldHolds'
    BY <1>2, WorkGoesOn, AllCommandsHold DEF SyncInv, WorldHolds, Stands, Documents, Services
  <2>2. FileHolds'
    <3>1. CASE c = Unreadable
      BY <1>1, <1>2, <3>1, WorkGoesOn DEF FileHolds
    <3>2. CASE CursorsHold(c)
      <4>1. CursorsHold(c)' /\ credentials' = c
        BY <1>1, <1>2, <3>2, WorkGoesOn, CursorsStand DEF SyncInv
      <4> QED
        BY <4>1 DEF FileHolds
    <3> QED
      BY <1>1, <3>1, <3>2 DEF SyncInv, FileHolds
  <2> QED
    BY <1>2, <2>1, <2>2, WorkGoesOn, AllCommandsHold DEF SyncInv
<1>3. ASSUME NEW s \in Syncers, EmptyFile(s) \/ WriteFile(s)
      PROVE  SyncInv'
  <2>1. Stands /\ GoesOn(s) /\ FileHolds' /\ UNCHANGED <<world, gaps>>
    BY <1>3, EmptyFileGoesOn, WriteFileGoesOn
  <2>2. WorldHolds'
    BY <2>1, AllCommandsHold DEF SyncInv, WorldHolds, Documents, Services, world, gaps
  <2> QED
    BY <2>1, <2>2, AllCommandsHold DEF SyncInv
<1>4. ASSUME NEW d \in Documents, Edit(d)
      PROVE  SyncInv'
  <2>1. WorldHolds'
    BY <1>4 DEF SyncInv, WorldHolds, Edit, Documents, Services, NoDocument, Exist
  <2>2. FileHolds'
    <3>1. CASE c = Unreadable
      BY <1>1, <1>4, <3>1, EditOfOne DEF SyncInv, FileHolds
    <3>2. CASE CursorsHold(c)
      <4>1. CursorsHold(c)' /\ credentials' = c
        BY <1>1, <1>4, <3>2, CursorsThroughEdit, EditOfOne DEF SyncInv
      <4> QED
        BY <4>1 DEF FileHolds
    <3> QED
      BY <1>1, <3>1, <3>2 DEF SyncInv, FileHolds
  <2>3. ASSUME NEW t \in Syncers PROVE CommandHolds(syncer[t])'
    <3>1. PICK me : me = syncer[t]
      OBVIOUS
    <3>2. CommandHolds(me)' /\ syncer'[t] = me
      BY <1>4, <3>1, CommandThroughEdit, EditOfOne DEF SyncInv
    <3> QED
      BY <3>2
  <2> QED
    BY <2>1, <2>2, <2>3 DEF SyncInv
<1>5. ASSUME Stands, UNCHANGED <<scene, remote, credentials, gaps, syncer>>,
             ticks' \in Nat, ticks <= ticks'
      PROVE  SyncInv'
  <2>1. WorldHolds'
    BY <1>5 DEF SyncInv, WorldHolds, Documents, Services, gaps
  <2>2. FileHolds'
    <3>1. CASE c = Unreadable
      BY <1>1, <1>5, <3>1 DEF FileHolds
    <3>2. CASE CursorsHold(c)
      <4>1. CursorsHold(c)' /\ credentials' = c
        BY <1>1, <1>5, <3>2, CursorsStand DEF SyncInv
      <4> QED
        BY <4>1 DEF FileHolds
    <3> QED
      BY <1>1, <3>1, <3>2 DEF SyncInv, FileHolds
  <2>3. ASSUME NEW t \in Syncers PROVE CommandHolds(syncer[t])'
    <3>1. PICK me : me = syncer[t]
      OBVIOUS
    <3>2. CommandHolds(me)' /\ syncer'[t] = me
      BY <1>5, <3>1, CommandStands DEF SyncInv
    <3> QED
      BY <3>2
  <2> QED
    BY <2>1, <2>2, <2>3 DEF SyncInv
<1>6. CASE Tick
  BY <1>5, <1>6 DEF Tick, Stands, Accounted, SyncInv, WorldHolds, gaps
<1>7. CASE UNCHANGED syncVars
  BY <1>5, <1>7 DEF syncVars, world, Stands, Accounted, SyncInv, WorldHolds, gaps
<1>8. scene.syncers \subseteq Syncers /\ scene.documents \subseteq Documents
  BY ScenesAssumption DEF SyncInv, WorldHolds
<1>9. CASE SyncNext
  <2>1. \/ \E d \in scene.documents : Edit(d)
        \/ Tick
        \/ \E s \in scene.syncers : Work(s) \/ EmptyFile(s) \/ WriteFile(s)
    BY <1>9 DEF SyncNext, Work
  <2> QED
    BY <1>2, <1>3, <1>4, <1>6, <1>8, <2>1
<1> QED
  BY <1>7, <1>9

(* What syncs and edits keep true, whatever is interrupted.                *)
THEOREM SyncInvariant == SyncSpec => []SyncInv
BY InitSyncInv, NextSyncInv, PTL DEF SyncSpec

(* A document that the next sync will not be offered is in the store as it *)
(* is now, or no sync was given this edition of it: for any number of      *)
(* services, documents, edits and syncs that overlap, wherever any of them *)
(* ends (main.rs:1090, connectors.rs:72).                                  *)
THEOREM NothingIsSkipped == SyncSpec => []CursorNeverPassesUnread
<1>1. SyncInv => CursorNeverPassesUnread
  BY DEF SyncInv, FileHolds, CursorsHold, Settled, Accounted, CursorNeverPassesUnread
<1> QED
  BY <1>1, SyncInvariant, PTL

-----------------------------------------------------------------------------
(***************************************************************************)
(* Export and import: the inductive invariant                              *)
(***************************************************************************)

FactFields == {"subject", "object", "from", "status", "excluded", "sources"}

(* What a store or an export holds of a space. *)
IsContent(held) ==
  /\ DOMAIN held = {"episodes", "aliases", "facts"}
  /\ held.episodes \subseteq Nat
  /\ DOMAIN held.aliases \subseteq Nat
  /\ held.aliases = [a \in DOMAIN held.aliases |-> held.aliases[a]]
  /\ held.facts \in Seq(ToSet(held.facts))
  /\ \A f \in ToSet(held.facts) : DOMAIN f = FactFields

RestsOnItsOwn(held) ==
  \A f \in ToSet(held.facts) : f.sources # {} /\ f.sources \subseteq held.episodes

(* Away has a fact of a record; away has a name for an alias of one. *)
Brought(f) == \E g \in ToSet(store["away"].facts) : SameFact(f, g)

Named(aliases, a) ==
  /\ a \in DOMAIN store["away"].aliases
  /\ store["away"].aliases[a] = Resolve("away", aliases[a])

ExportHolds ==
  /\ IsContent(export)
  /\ exporter.at # "idle" =>
       DOMAIN exporter = {"at", "episodes", "aliases"} /\ exporter.episodes \subseteq Nat
  /\ exporter.at = "facts" =>
       /\ DOMAIN exporter.aliases \subseteq Nat
       /\ exporter.aliases = [a \in DOMAIN exporter.aliases |-> exporter.aliases[a]]

(* An import has brought all but the records that are left; what it brought *)
(* others may have changed, unless it was alone.  While an export is landed *)
(* it is the one that is brought again.                                     *)
ImportHolds ==
  importer # Nowhere =>
    /\ DOMAIN importer = {"at", "alone", "of", "episodes", "aliases", "facts"}
    /\ importer.at = "import" /\ IsContent(importer.of)
    /\ importer.episodes \subseteq importer.of.episodes
    /\ importer.aliases \subseteq DOMAIN importer.of.aliases
    /\ importer.facts \in Seq(ToSet(importer.of.facts))
    /\ importer.of.episodes \subseteq importer.episodes \cup store["away"].episodes
    /\ importer.alone =>
         /\ \A f \in ToSet(importer.of.facts) : f \in ToSet(importer.facts) \/ Brought(f)
         /\ ~ Chained(importer.of.aliases) =>
              \A a \in DOMAIN importer.of.aliases :
                a \in importer.aliases \/ Named(importer.of.aliases, a)
    /\ landed # NotLanded => importer.of = landed.of

LandedHolds ==
  landed # NotLanded =>
    /\ landed.of.episodes \subseteq store["away"].episodes
    /\ \A f \in ToSet(landed.of.facts) : Brought(f)
    /\ store["away"].episodes = landed.held.episodes
    /\ store["away"].facts = landed.held.facts
    /\ ~ Chained(landed.of.aliases) =>
         /\ store["away"].aliases = landed.held.aliases
         /\ \A a \in DOMAIN landed.of.aliases : Named(landed.of.aliases, a)

PortInv ==
  /\ DOMAIN store = Stores
  /\ \A s \in Stores : IsContent(store[s]) /\ RestsOnItsOwn(store[s])
  /\ ExportHolds /\ ImportHolds /\ LandedHolds

-----------------------------------------------------------------------------
(***************************************************************************)
(* Sequences of facts, and the least of some numbers                       *)
(***************************************************************************)

(* A sequence that is appended to has one element more.                    *)
LEMMA Appended ==
  ASSUME NEW f, f \in Seq(ToSet(f)), NEW x
  PROVE  /\ Append(f, x) \in Seq(ToSet(Append(f, x)))
         /\ ToSet(Append(f, x)) = ToSet(f) \cup {x}
<1> DEFINE S == ToSet(f) \cup {x}
           g == Append(f, x)
<1>1. f \in Seq(S)
  BY SeqMonotonic
<1>2. /\ g \in Seq(S) /\ Len(g) = Len(f) + 1 /\ g[Len(f) + 1] = x
      /\ \A i \in 1..Len(f) : g[i] = f[i]
  BY <1>1, AppendProperties
<1>3. Len(f) \in Nat /\ DOMAIN f = 1..Len(f) /\ DOMAIN g = 1..(Len(f) + 1)
  BY <1>1, <1>2, LenProperties
<1>4. ToSet(g) = S
  BY <1>2, <1>3 DEF ToSet
<1> QED
  BY <1>2, <1>4

(* A sequence that is rewritten in place is one of what it now holds.      *)
LEMMA Rewritten ==
  ASSUME NEW f, f \in Seq(ToSet(f)), NEW g, g = [i \in DOMAIN f |-> g[i]]
  PROVE  g \in Seq(ToSet(g))
<1>1. Len(f) \in Nat /\ DOMAIN f = 1..Len(f)
  BY LenProperties
<1>2. g \in [1..Len(f) -> ToSet(g)]
  BY <1>1 DEF ToSet
<1> QED
  BY <1>1, <1>2, SeqDef

(* A sequence is its head and the rest.                                    *)
LEMMA Beheaded ==
  ASSUME NEW S, NEW f \in Seq(S), f # <<>>
  PROVE  /\ Head(f) \in S /\ Tail(f) \in Seq(S)
         /\ ToSet(f) \subseteq ToSet(Tail(f)) \cup {Head(f)}
<1>1. Head(f) \in S /\ Tail(f) \in Seq(S)
  BY HeadTailProperties
<1>2. /\ Len(Tail(f)) = Len(f) - 1 /\ \A i \in 1..Len(Tail(f)) : Tail(f)[i] = f[i + 1]
      /\ Len(f) \in Nat /\ DOMAIN f = 1..Len(f) /\ DOMAIN Tail(f) = 1..Len(Tail(f))
  BY <1>1, HeadTailProperties, LenProperties
<1>3. Head(f) = f[1]
  OBVIOUS
<1>4. ASSUME NEW i \in DOMAIN f PROVE f[i] \in ToSet(Tail(f)) \cup {Head(f)}
  <2>1. CASE i = 1
    BY <1>3, <2>1
  <2>2. CASE i # 1
    <3>1. i - 1 \in DOMAIN Tail(f) /\ Tail(f)[i - 1] = f[i]
      BY <1>2, <2>2
    <3> QED
      BY <3>1 DEF ToSet
  <2> QED
    BY <2>1, <2>2
<1> QED
  BY <1>1, <1>4 DEF ToSet

(* Some numbers have a least one.                                          *)
LEMMA LeastOfSome ==
  ASSUME NEW S, S \subseteq Nat, S # {}
  PROVE  Min(S) \in S
<1>1. PICK R : IsWellFoundedOn(R, Nat) /\ \A m, n \in Nat : m < n => <<m, n>> \in R
  <2> DEFINE R == {mn \in Nat \X Nat : mn[1] < mn[2]}
  <2>1. IsWellFoundedOn(R, Nat)
    BY NatLessThanWellFounded, Zenon DEF OpToRel
  <2>2. \A m, n \in Nat : m < n => <<m, n>> \in R
    OBVIOUS
  <2> QED
    BY <2>1, <2>2
<1>2. IsWellFoundedOn(R, S)
  BY <1>1, IsWellFoundedOnSubset
<1>3. PICK x \in S : \A y \in S : ~ (<<y, x>> \in R)
  BY <1>2, WFMin
<1>4. ASSUME NEW y \in S PROVE x <= y
  <2>1. x \in Nat /\ y \in Nat /\ ~ (y < x)
    BY <1>1, <1>3
  <2> QED
    BY <2>1
<1> QED
  BY <1>4 DEF Min

-----------------------------------------------------------------------------
(***************************************************************************)
(* It holds at first, and through what others write                        *)
(***************************************************************************)

(* Both stores are empty at first.                                         *)
LEMMA InitPortInv == PortInit => PortInv
<1> SUFFICES ASSUME PortInit PROVE PortInv
  OBVIOUS
<1>1. ToSet(<<>>) = {} /\ <<>> \in Seq({})
  BY DEF ToSet
<1>2. IsContent(NoStore) /\ RestsOnItsOwn(NoStore)
  BY <1>1 DEF IsContent, RestsOnItsOwn, NoStore
<1> QED
  BY <1>2 DEF PortInit, PortInv, ExportHolds, ImportHolds, LandedHolds, Nowhere

(* A write of others lands no import, and takes no episode away. *)
LEMMA WriteKeeps ==
  ASSUME PortInv, NEW s \in Stores, NEW after, Write(s, after),
         IsContent(after), RestsOnItsOwn(after), store[s].episodes \subseteq after.episodes
  PROVE  PortInv'
<1>1. /\ store' = [store EXCEPT ![s] = after] /\ UNCHANGED <<exporter, export>>
      /\ landed' = IF s = "away" THEN NotLanded ELSE landed
      /\ importer' = IF s = "away" /\ importer # Nowhere THEN [importer EXCEPT !.alone = FALSE]
                     ELSE importer
  BY DEF Write
<1>2. DOMAIN store' = Stores /\ \A t \in Stores : store'[t] = IF t = s THEN after ELSE store[t]
  BY <1>1 DEF PortInv
<1>3. (\A t \in Stores : IsContent(store[t]) /\ RestsOnItsOwn(store[t]))'
  <2> TAKE t \in Stores
  <2>1. CASE t = s
    BY <1>2, <2>1 DEF IsContent, RestsOnItsOwn
  <2>2. CASE t # s
    BY <1>2, <2>2 DEF IsContent, RestsOnItsOwn, PortInv
  <2> QED
    BY <2>1, <2>2
<1>4. ExportHolds'
  BY <1>1 DEF PortInv, ExportHolds, IsContent
<1>5. CASE s = "home"
  <2>1. store'["away"] = store["away"] /\ importer' = importer /\ landed' = landed
    BY <1>1, <1>2, <1>5 DEF Stores
  <2>2. ImportHolds' /\ LandedHolds'
    BY <2>1 DEF PortInv, ImportHolds, LandedHolds, IsContent, Brought, Named, Resolve
  <2> QED
    BY <1>2, <1>3, <1>4, <2>2 DEF PortInv
<1>6. CASE s = "away"
  <2>1. landed' = NotLanded /\ store["away"].episodes \subseteq store'["away"].episodes
    BY <1>1, <1>2, <1>6
  <2>2. ImportHolds'
    <3>1. CASE importer = Nowhere
      BY <1>1, <3>1 DEF ImportHolds
    <3>2. CASE importer # Nowhere
      <4>1. PICK old : old = importer
        OBVIOUS
      <4>2. PICK new : new = [old EXCEPT !.alone = FALSE]
        OBVIOUS
      <4>3. /\ DOMAIN old = {"at", "alone", "of", "episodes", "aliases", "facts"}
            /\ old.at = "import" /\ IsContent(old.of)
            /\ old.episodes \subseteq old.of.episodes /\ old.aliases \subseteq DOMAIN old.of.aliases
            /\ old.facts \in Seq(ToSet(old.of.facts))
            /\ old.of.episodes \subseteq old.episodes \cup store["away"].episodes
        BY <3>2, <4>1 DEF PortInv, ImportHolds
      <4>4. /\ DOMAIN new = DOMAIN old /\ new.at = old.at /\ new.of = old.of
            /\ new.episodes = old.episodes /\ new.aliases = old.aliases
            /\ new.facts = old.facts /\ ~ new.alone
        BY <4>2, <4>3
      <4>5. importer' = new
        BY <1>1, <1>6, <3>2, <4>1, <4>2
      <4> QED
        BY <2>1, <4>3, <4>4, <4>5 DEF ImportHolds, IsContent
    <3> QED
      BY <3>1, <3>2
  <2>3. LandedHolds'
    BY <2>1 DEF LandedHolds
  <2> QED
    BY <1>2, <1>3, <1>4, <2>2, <2>3 DEF PortInv
<1> QED
  BY <1>5, <1>6 DEF Stores

(* What others write: a text, an alias, a fact with its source, a mark. *)
LEMMA FileTextKeeps ==
  ASSUME PortInv, NEW s \in Stores, NEW e \in Episodes, FileText(s, e)
  PROVE  PortInv'
<1>1. PICK old : old = store[s]
  OBVIOUS
<1>2. PICK new : new = [old EXCEPT !.episodes = @ \cup {e}]
  OBVIOUS
<1>3. IsContent(old) /\ RestsOnItsOwn(old)
  BY <1>1 DEF PortInv
<1>4. /\ DOMAIN new = DOMAIN old /\ new.episodes = old.episodes \cup {e}
      /\ new.aliases = old.aliases /\ new.facts = old.facts
  BY <1>2, <1>3 DEF IsContent
<1>5. IsContent(new) /\ RestsOnItsOwn(new)
  BY <1>3, <1>4, PortAssumption DEF IsContent, RestsOnItsOwn
<1>6. Write(s, new)
  BY <1>1, <1>2 DEF FileText
<1> QED
  BY <1>1, <1>4, <1>5, <1>6, WriteKeeps

(* A new alias keeps the invariant.                                        *)
LEMMA AddAliasKeeps ==
  ASSUME PortInv, NEW s \in Stores, NEW call \in AliasCalls, AddAlias(s, call[1], call[2])
  PROVE  PortInv'
<1>1. PICK old : old = store[s]
  OBVIOUS
<1>2. PICK aliases : aliases = Aliased(s, call[1], call[2])
  OBVIOUS
<1>3. PICK new : new = [old EXCEPT !.aliases = aliases]
  OBVIOUS
<1>4. IsContent(old) /\ RestsOnItsOwn(old)
  BY <1>1 DEF PortInv
<1>5. /\ DOMAIN new = DOMAIN old /\ new.episodes = old.episodes
      /\ new.aliases = aliases /\ new.facts = old.facts
  BY <1>3, <1>4 DEF IsContent
<1>6. DOMAIN aliases \subseteq Nat /\ aliases = [a \in DOMAIN aliases |-> aliases[a]]
  BY <1>1, <1>2, <1>4, PortAssumption DEF Aliased, IsContent
<1>7. IsContent(new) /\ RestsOnItsOwn(new)
  BY <1>4, <1>5, <1>6 DEF IsContent, RestsOnItsOwn
<1>8. Write(s, new)
  BY <1>1, <1>2, <1>3 DEF AddAlias
<1> QED
  BY <1>1, <1>5, <1>7, <1>8, WriteKeeps

(* Facts that are changed in place keep their fields and sources. *)
LEMMA FactsInPlace ==
  ASSUME NEW held, IsContent(held), RestsOnItsOwn(held),
         NEW facts, facts = [i \in DOMAIN held.facts |-> facts[i]],
         \A i \in DOMAIN held.facts :
           DOMAIN facts[i] = DOMAIN held.facts[i] /\ facts[i].sources = held.facts[i].sources
  PROVE  /\ facts \in Seq(ToSet(facts))
         /\ \A f \in ToSet(facts) :
              /\ DOMAIN f = FactFields
              /\ f.sources # {} /\ f.sources \subseteq held.episodes
<1>1. facts \in Seq(ToSet(facts))
  BY Rewritten DEF IsContent
<1>2. DOMAIN facts = DOMAIN held.facts
  OBVIOUS
<1>3. ASSUME NEW i \in DOMAIN facts
      PROVE  /\ DOMAIN facts[i] = FactFields
             /\ facts[i].sources # {} /\ facts[i].sources \subseteq held.episodes
  <2>1. held.facts[i] \in ToSet(held.facts)
    BY <1>2 DEF ToSet
  <2> QED
    BY <1>2, <1>3, <2>1 DEF IsContent, RestsOnItsOwn
<1> QED
  BY <1>1, <1>3 DEF ToSet

(* A new fact keeps the invariant.                                         *)
LEMMA LearnFactKeeps ==
  ASSUME PortInv, NEW s \in Stores, NEW claim \in Claims, LearnFact(s, claim)
  PROVE  PortInv'
<1>1. PICK old, fact, facts :
        /\ old = store[s]
        /\ DOMAIN fact = FactFields /\ fact.sources = {claim.episode}
        /\ facts = [i \in DOMAIN old.facts |-> facts[i]]
        /\ \A i \in DOMAIN old.facts :
             facts[i] = old.facts[i] \/ facts[i] = [old.facts[i] EXCEPT !.status = "closed"]
        /\ Write(s, [old EXCEPT !.facts = Append(facts, fact)])
  <2> DEFINE o == store[s]
             subject == Resolve(s, claim.name)
             Replaced(f) == f.subject = subject /\ f.status = "active" /\ claim.status = "active"
             n == [subject |-> subject, object |-> claim.object, from |-> claim.episode,
                   status |-> claim.status, excluded |-> FALSE, sources |-> {claim.episode}]
             fs == [i \in DOMAIN o.facts |->
                      IF Replaced(o.facts[i]) THEN [o.facts[i] EXCEPT !.status = "closed"]
                      ELSE o.facts[i]]
  <2>1. Write(s, [o EXCEPT !.facts = Append(fs, n)])
    BY DEF LearnFact
  <2>2. DOMAIN n = FactFields /\ n.sources = {claim.episode}
    BY DEF FactFields
  <2>3. fs = [i \in DOMAIN o.facts |-> fs[i]]
    OBVIOUS
  <2>4. \A i \in DOMAIN o.facts :
          fs[i] = o.facts[i] \/ fs[i] = [o.facts[i] EXCEPT !.status = "closed"]
    OBVIOUS
  <2> HIDE DEF fs, n
  <2> QED
    BY <2>1, <2>2, <2>3, <2>4
<1>2. IsContent(old) /\ RestsOnItsOwn(old) /\ claim.episode \in old.episodes
  BY <1>1 DEF PortInv, LearnFact
<1>3. ASSUME NEW i \in DOMAIN old.facts
      PROVE  DOMAIN facts[i] = DOMAIN old.facts[i] /\ facts[i].sources = old.facts[i].sources
  <2>1. DOMAIN old.facts[i] = FactFields
    BY <1>2 DEF IsContent, ToSet
  <2>2. /\ DOMAIN [old.facts[i] EXCEPT !.status = "closed"] = DOMAIN old.facts[i]
        /\ [old.facts[i] EXCEPT !.status = "closed"].sources = old.facts[i].sources
    BY <2>1 DEF FactFields
  <2> QED
    BY <1>1, <2>2
<1>4. /\ facts \in Seq(ToSet(facts))
      /\ \A f \in ToSet(facts) :
           /\ DOMAIN f = FactFields
           /\ f.sources # {} /\ f.sources \subseteq old.episodes
  <2>1. facts = [i \in DOMAIN old.facts |-> facts[i]]
    BY <1>1
  <2> QED
    BY <1>2, <1>3, <2>1, FactsInPlace
<1>5. PICK longer : longer = Append(facts, fact)
  OBVIOUS
<1>6. longer \in Seq(ToSet(longer)) /\ ToSet(longer) = ToSet(facts) \cup {fact}
  BY <1>4, <1>5, Appended
<1>7. PICK new : new = [old EXCEPT !.facts = longer]
  OBVIOUS
<1>8. /\ DOMAIN new = DOMAIN old /\ new.episodes = old.episodes
      /\ new.aliases = old.aliases /\ new.facts = longer
  BY <1>2, <1>7 DEF IsContent
<1>9. IsContent(new) /\ RestsOnItsOwn(new)
  BY <1>1, <1>2, <1>4, <1>6, <1>8 DEF IsContent, RestsOnItsOwn
<1>10. Write(s, new)
  BY <1>1, <1>5, <1>7
<1> QED
  BY <1>1, <1>8, <1>9, <1>10, WriteKeeps

(* An exclusion keeps the invariant.                                       *)
LEMMA ExcludeFactKeeps ==
  ASSUME PortInv, NEW s \in Stores, ExcludeFact(s)
  PROVE  PortInv'
<1>1. PICK i \in DOMAIN store[s].facts : Write(s, [store[s] EXCEPT !.facts[i].excluded = TRUE])
  BY DEF ExcludeFact
<1>2. PICK old : old = store[s]
  OBVIOUS
<1>3. IsContent(old) /\ RestsOnItsOwn(old)
  BY <1>2 DEF PortInv
<1>4. PICK facts : facts = [old.facts EXCEPT ![i].excluded = TRUE]
  OBVIOUS
<1>5. ASSUME NEW j \in DOMAIN old.facts
      PROVE  DOMAIN facts[j] = DOMAIN old.facts[j] /\ facts[j].sources = old.facts[j].sources
  <2>1. DOMAIN old.facts[j] = FactFields
    BY <1>3 DEF IsContent, ToSet
  <2>2. /\ DOMAIN [old.facts[j] EXCEPT !.excluded = TRUE] = DOMAIN old.facts[j]
        /\ [old.facts[j] EXCEPT !.excluded = TRUE].sources = old.facts[j].sources
    BY <2>1 DEF FactFields
  <2>3. facts[j] = IF j = i THEN [old.facts[j] EXCEPT !.excluded = TRUE] ELSE old.facts[j]
    BY <1>4
  <2> QED
    BY <2>2, <2>3
<1>6. facts = [j \in DOMAIN old.facts |-> facts[j]]
  BY <1>4
<1>7. /\ facts \in Seq(ToSet(facts))
      /\ \A f \in ToSet(facts) :
           /\ DOMAIN f = FactFields
           /\ f.sources # {} /\ f.sources \subseteq old.episodes
  BY <1>3, <1>5, <1>6, FactsInPlace
<1>8. PICK new : new = [old EXCEPT !.facts = facts]
  OBVIOUS
<1>9. /\ DOMAIN new = DOMAIN old /\ new.episodes = old.episodes
      /\ new.aliases = old.aliases /\ new.facts = facts
  BY <1>3, <1>8 DEF IsContent
<1>10. IsContent(new) /\ RestsOnItsOwn(new)
  BY <1>3, <1>7, <1>9 DEF IsContent, RestsOnItsOwn
<1>11. Write(s, new)
  BY <1>1, <1>2, <1>4, <1>8
<1> QED
  BY <1>2, <1>9, <1>10, <1>11, WriteKeeps

-----------------------------------------------------------------------------
(***************************************************************************)
(* Export and import, step by step                                         *)
(***************************************************************************)

(* The statements of an export only read.                                  *)
LEMMA ExportKeeps ==
  ASSUME PortInv, ExportEpisodes \/ ExportAliases \/ ExportFacts
  PROVE  PortInv'
<1>1. store' = store /\ importer' = importer /\ landed' = landed
  BY DEF ExportEpisodes, ExportAliases, ExportFacts
<1>2. IsContent(store["home"])
  BY DEF PortInv, Stores
<1>3. ExportHolds'
  <2>1. CASE ExportEpisodes
    BY <1>2, <2>1 DEF ExportEpisodes, PortInv, ExportHolds, IsContent
  <2>2. CASE ExportAliases
    <3>1. /\ DOMAIN exporter' = {"at", "episodes", "aliases"} /\ export' = export
          /\ exporter'.episodes = exporter.episodes /\ exporter.episodes \subseteq Nat
          /\ exporter'.aliases = store["home"].aliases
      BY <2>2 DEF ExportAliases, PortInv, ExportHolds
    <3> QED
      BY <1>2, <3>1 DEF PortInv, ExportHolds, IsContent
  <2>3. CASE ExportFacts
    <3>1. /\ export'.episodes = exporter.episodes /\ export'.aliases = exporter.aliases
          /\ export'.facts = store["home"].facts
          /\ DOMAIN export' = {"episodes", "aliases", "facts"} /\ exporter' = Nowhere
      BY <2>3 DEF ExportFacts
    <3>2. /\ exporter.episodes \subseteq Nat /\ DOMAIN exporter.aliases \subseteq Nat
          /\ exporter.aliases = [a \in DOMAIN exporter.aliases |-> exporter.aliases[a]]
      BY <2>3 DEF ExportFacts, PortInv, ExportHolds
    <3> QED
      BY <1>2, <3>1, <3>2 DEF ExportHolds, IsContent, Nowhere
  <2> QED
    BY <2>1, <2>2, <2>3
<1>4. ImportHolds' /\ LandedHolds'
  BY <1>1 DEF PortInv, ImportHolds, LandedHolds, IsContent, Brought, Named, Resolve
<1> QED
  BY <1>1, <1>3, <1>4 DEF PortInv, IsContent, RestsOnItsOwn

(* An import that begins has everything left to bring.                     *)
LEMMA BeginImportKeeps ==
  ASSUME PortInv, BeginImport
  PROVE  PortInv'
<1>1. /\ store' = store /\ exporter' = exporter /\ export' = export
      /\ importer' = [at |-> "import", alone |-> TRUE, of |-> export,
                      episodes |-> export.episodes, aliases |-> DOMAIN export.aliases,
                      facts |-> export.facts]
      /\ landed' = IF landed # NotLanded /\ landed.of = export THEN landed ELSE NotLanded
  BY DEF BeginImport
<1>2. IsContent(export)
  BY DEF PortInv, ExportHolds
<1>3. ImportHolds'
  BY <1>1, <1>2 DEF ImportHolds, IsContent
<1>4. LandedHolds'
  <2>1. CASE landed' = NotLanded
    BY <2>1 DEF LandedHolds
  <2>2. CASE landed' = landed
    BY <1>1, <2>2 DEF PortInv, LandedHolds, Brought, Named, Resolve
  <2> QED
    BY <1>1, <2>1, <2>2
<1>5. ExportHolds'
  BY <1>1 DEF PortInv, ExportHolds, IsContent
<1> QED
  BY <1>1, <1>3, <1>4, <1>5 DEF PortInv, IsContent, RestsOnItsOwn

(* What a running import is; and what a record that it brings leaves of    *)
(* the rest.                                                               *)
LEMMA Importing ==
  ASSUME PortInv, importer.at = "import"
  PROVE  /\ importer # Nowhere /\ IsContent(importer.of)
         /\ DOMAIN importer = {"at", "alone", "of", "episodes", "aliases", "facts"}
         /\ IsContent(store["away"]) /\ RestsOnItsOwn(store["away"])
BY DEF PortInv, ImportHolds, Nowhere, Stores

(* A record that is brought keeps the invariant if it keeps its promises.  *)
LEMMA BroughtKeeps ==
  ASSUME PortInv, NEW after, NEW left, Bring(after, left),
         IsContent(after), RestsOnItsOwn(after), ImportHolds', LandedHolds'
  PROVE  PortInv'
<1>1. DOMAIN store' = Stores /\ \A t \in Stores : store'[t] = IF t = "away" THEN after ELSE store[t]
  BY DEF Bring, PortInv
<1>2. (\A t \in Stores : IsContent(store[t]) /\ RestsOnItsOwn(store[t]))'
  <2> TAKE t \in Stores
  <2>1. CASE t = "away"
    BY <1>1, <2>1 DEF IsContent, RestsOnItsOwn
  <2>2. CASE t # "away"
    BY <1>1, <2>2 DEF IsContent, RestsOnItsOwn, PortInv
  <2> QED
    BY <2>1, <2>2
<1>3. ExportHolds'
  BY DEF Bring, PortInv, ExportHolds, IsContent
<1> QED
  BY <1>1, <1>2, <1>3 DEF PortInv

(* An episode that is there already is not brought again.                  *)
LEMMA ImportTextKeeps ==
  ASSUME PortInv, ImportText
  PROVE  PortInv'
<1>1. PICK e : e = Min(importer.episodes)
  OBVIOUS
<1>2. PICK away, old : away = store["away"] /\ old = importer
  OBVIOUS
<1>3. PICK after : after = [away EXCEPT !.episodes = @ \cup {e}]
  OBVIOUS
<1>4. PICK left : left = [old EXCEPT !.episodes = @ \ {e}]
  OBVIOUS
<1>5. importer.at = "import" /\ importer.episodes # {} /\ Bring(after, left)
  BY <1>1, <1>2, <1>3, <1>4 DEF ImportText
<1>6. /\ importer # Nowhere /\ IsContent(old.of) /\ IsContent(away) /\ RestsOnItsOwn(away)
      /\ DOMAIN old = {"at", "alone", "of", "episodes", "aliases", "facts"}
  BY <1>2, <1>5, Importing
<1>7. e \in old.episodes /\ old.episodes \subseteq old.of.episodes /\ e \in Nat
  BY <1>1, <1>2, <1>5, <1>6, LeastOfSome DEF PortInv, ImportHolds, IsContent
<1>8. /\ DOMAIN after = DOMAIN away /\ after.episodes = away.episodes \cup {e}
      /\ after.aliases = away.aliases /\ after.facts = away.facts
  BY <1>3, <1>6 DEF IsContent
<1>9. /\ DOMAIN left = DOMAIN old /\ left.at = old.at /\ left.alone = old.alone
      /\ left.of = old.of /\ left.aliases = old.aliases /\ left.facts = old.facts
      /\ left.episodes = old.episodes \ {e}
  BY <1>4, <1>6
<1>10. IsContent(after) /\ RestsOnItsOwn(after)
  BY <1>6, <1>7, <1>8 DEF IsContent, RestsOnItsOwn
<1>11. store'["away"] = after /\ importer' = left /\ landed' = landed
  BY <1>5 DEF Bring, PortInv, Stores
<1>12. ImportHolds'
  BY <1>2, <1>6, <1>7, <1>8, <1>9, <1>11
     DEF PortInv, ImportHolds, IsContent, Brought, Named, Resolve
<1>13. LandedHolds'
  <2>1. landed # NotLanded => e \in away.episodes
    BY <1>2, <1>6, <1>7 DEF PortInv, ImportHolds, LandedHolds
  <2> QED
    BY <1>2, <1>8, <1>11, <2>1 DEF PortInv, LandedHolds, Brought, Named, Resolve
<1> QED
  BY <1>5, <1>10, <1>12, <1>13, BroughtKeeps

(* The name that a store gives an alias.  Where no alias of an export is   *)
(* another's name, an alias that is brought disturbs no other, and         *)
(* bringing it again changes nothing.                                      *)
NamedIn(given, aliases, a) ==
  a \in DOMAIN given /\ given[a] = IF aliases[a] \in DOMAIN given THEN given[aliases[a]]
                                   ELSE aliases[a]

(* Aliases that are brought again land where they were, unless there is an *)
(* alias of an alias.                                                      *)
LEMMA NamesStay ==
  ASSUME NEW given, given = [a \in DOMAIN given |-> given[a]],
         NEW aliases, ~ Chained(aliases), NEW b \in DOMAIN aliases,
         NEW then,
         then = [a \in DOMAIN given \cup {b} |->
                   IF a = b THEN (IF aliases[b] \in DOMAIN given THEN given[aliases[b]]
                                  ELSE aliases[b])
                   ELSE given[a]]
  PROVE  /\ DOMAIN then = DOMAIN given \cup {b} /\ then = [a \in DOMAIN then |-> then[a]]
         /\ NamedIn(then, aliases, b)
         /\ \A a \in DOMAIN aliases : NamedIn(given, aliases, a) => NamedIn(then, aliases, a)
         /\ NamedIn(given, aliases, b) => then = given
<1>1. DOMAIN then = DOMAIN given \cup {b} /\ then = [a \in DOMAIN then |-> then[a]]
  OBVIOUS
<1>2. /\ then[b] = IF aliases[b] \in DOMAIN given THEN given[aliases[b]] ELSE aliases[b]
      /\ \A a \in DOMAIN given : a # b => then[a] = given[a]
  OBVIOUS
<1>3. NamedIn(then, aliases, b)
  BY <1>1, <1>2 DEF NamedIn
<1>4. ASSUME NEW a \in DOMAIN aliases, NamedIn(given, aliases, a), a # b
      PROVE  NamedIn(then, aliases, a)
  <2>1. aliases[a] # b
    BY <1>4 DEF Chained
  <2> QED
    BY <1>1, <1>2, <1>4, <2>1 DEF NamedIn
<1>5. ASSUME NamedIn(given, aliases, b) PROVE then = given
  <2>1. DOMAIN then = DOMAIN given /\ \A a \in DOMAIN given : then[a] = given[a]
    BY <1>1, <1>2, <1>5 DEF NamedIn
  <2> QED
    BY <1>1, <2>1
<1> QED
  BY <1>1, <1>3, <1>4, <1>5

(* An alias is named in a store as in its aliases.                         *)
LEMMA NamedIsNamedIn ==
  \A aliases, a : Named(aliases, a) <=> NamedIn(store["away"].aliases, aliases, a)
BY DEF Named, NamedIn, Resolve

(* An alias is brought under the name it had.                              *)
LEMMA ImportAliasKeeps ==
  ASSUME PortInv, ImportAlias
  PROVE  PortInv'
<1>1. PICK b : b = Min(importer.aliases)
  OBVIOUS
<1>2. PICK away, old : away = store["away"] /\ old = importer
  OBVIOUS
<1>3. PICK then : then = Aliased("away", b, old.of.aliases[b])
  OBVIOUS
<1>4. PICK after : after = [away EXCEPT !.aliases = then]
  OBVIOUS
<1>5. PICK left : left = [old EXCEPT !.aliases = @ \ {b}]
  OBVIOUS
<1>6. importer.at = "import" /\ importer.aliases # {} /\ Bring(after, left)
  BY <1>1, <1>2, <1>3, <1>4, <1>5 DEF ImportAlias
<1>7. /\ importer # Nowhere /\ IsContent(old.of) /\ IsContent(away) /\ RestsOnItsOwn(away)
      /\ DOMAIN old = {"at", "alone", "of", "episodes", "aliases", "facts"}
  BY <1>2, <1>6, Importing
<1>8. b \in old.aliases /\ old.aliases \subseteq DOMAIN old.of.aliases /\ b \in Nat
  BY <1>1, <1>2, <1>6, <1>7, LeastOfSome DEF PortInv, ImportHolds, IsContent
<1>9. PICK aliases, given : aliases = old.of.aliases /\ given = away.aliases
  OBVIOUS
<1>10. then = [a \in DOMAIN given \cup {b} |->
                 IF a = b THEN (IF aliases[b] \in DOMAIN given THEN given[aliases[b]]
                                ELSE aliases[b])
                 ELSE given[a]]
  BY <1>2, <1>3, <1>9 DEF Aliased, Resolve
<1>11. DOMAIN then = DOMAIN given \cup {b} /\ then = [a \in DOMAIN then |-> then[a]]
  BY <1>10
<1>12. ~ Chained(aliases) =>
         /\ NamedIn(then, aliases, b)
         /\ \A a \in DOMAIN aliases : NamedIn(given, aliases, a) => NamedIn(then, aliases, a)
         /\ NamedIn(given, aliases, b) => then = given
  <2>1. b \in DOMAIN aliases /\ given = [a \in DOMAIN given |-> given[a]]
    BY <1>7, <1>8, <1>9 DEF IsContent
  <2> QED
    BY <1>10, <2>1, NamesStay
<1>13. /\ DOMAIN after = DOMAIN away /\ after.episodes = away.episodes
       /\ after.aliases = then /\ after.facts = away.facts
  BY <1>4, <1>7 DEF IsContent
<1>14. /\ DOMAIN left = DOMAIN old /\ left.at = old.at /\ left.alone = old.alone
       /\ left.of = old.of /\ left.episodes = old.episodes /\ left.facts = old.facts
       /\ left.aliases = old.aliases \ {b}
  BY <1>5, <1>7
<1>15. IsContent(after) /\ RestsOnItsOwn(after)
  BY <1>7, <1>8, <1>9, <1>11, <1>13 DEF IsContent, RestsOnItsOwn
<1>16. store'["away"] = after /\ importer' = left /\ landed' = landed
  BY <1>6 DEF Bring, PortInv, Stores
<1>17. \A as, a : Named(as, a)' <=> NamedIn(then, as, a)
  BY <1>13, <1>16 DEF Named, NamedIn, Resolve
<1>18. \A as, a : Named(as, a) <=> NamedIn(given, as, a)
  BY <1>2, <1>9, NamedIsNamedIn
<1>19. \A f : Brought(f)' <=> Brought(f)
  BY <1>2, <1>13, <1>16 DEF Brought
<1>20. ImportHolds'
  <2>1. /\ old.at = "import" /\ old.episodes \subseteq old.of.episodes
        /\ old.aliases \subseteq DOMAIN aliases /\ old.facts \in Seq(ToSet(old.of.facts))
        /\ old.of.episodes \subseteq old.episodes \cup away.episodes
        /\ landed # NotLanded => old.of = landed.of
        /\ old.alone =>
             \A f \in ToSet(old.of.facts) : f \in ToSet(old.facts) \/ Brought(f)
        /\ old.alone /\ ~ Chained(aliases) =>
             \A a \in DOMAIN aliases : a \in old.aliases \/ NamedIn(given, aliases, a)
    BY <1>2, <1>7, <1>9, <1>18 DEF PortInv, ImportHolds
  <2>2. old.alone /\ ~ Chained(aliases) =>
          \A a \in DOMAIN aliases : a \in left.aliases \/ NamedIn(then, aliases, a)
    BY <1>12, <1>14, <2>1
  <2> QED
    BY <1>7, <1>9, <1>13, <1>14, <1>16, <1>17, <1>19, <2>1, <2>2 DEF ImportHolds, IsContent
<1>21. LandedHolds'
  <2>1. landed # NotLanded /\ ~ Chained(landed.of.aliases) => then = given
    BY <1>2, <1>7, <1>8, <1>9, <1>12, <1>18 DEF PortInv, ImportHolds, LandedHolds
  <2> QED
    BY <1>2, <1>9, <1>13, <1>16, <1>17, <1>18, <1>19, <2>1 DEF PortInv, LandedHolds
<1> QED
  BY <1>6, <1>15, <1>20, <1>21, BroughtKeeps

(* A fact is brought unless its statement is there.                        *)
LEMMA ImportFactKeeps ==
  ASSUME PortInv, ImportFact
  PROVE  PortInv'
<1>1. PICK away, old : away = store["away"] /\ old = importer
  OBVIOUS
<1>2. PICK f : f = Head(old.facts)
  OBVIOUS
<1>3. importer.at = "import" /\ importer.facts # <<>>
  BY DEF ImportFact
<1>4. /\ importer # Nowhere /\ IsContent(old.of) /\ IsContent(away) /\ RestsOnItsOwn(away)
      /\ DOMAIN old = {"at", "alone", "of", "episodes", "aliases", "facts"}
  BY <1>1, <1>3, Importing
<1>5. old.facts \in Seq(ToSet(old.of.facts)) /\ old.facts # <<>>
  BY <1>1, <1>3, <1>4 DEF PortInv, ImportHolds
<1>6. /\ f \in ToSet(old.of.facts) /\ Tail(old.facts) \in Seq(ToSet(old.of.facts))
      /\ ToSet(old.facts) \subseteq ToSet(Tail(old.facts)) \cup {f}
  BY <1>2, <1>5, Beheaded
<1>7. CASE Bring(away, Nowhere)
  <2>1. store'["away"] = away /\ importer' = Nowhere /\ landed' = landed
    BY <1>7 DEF Bring, PortInv, Stores
  <2>2. ImportHolds' /\ LandedHolds'
    BY <1>1, <2>1 DEF PortInv, ImportHolds, LandedHolds, Brought, Named, Resolve
  <2> QED
    BY <1>4, <1>7, <2>2, BroughtKeeps
<1>8. CASE ~ Bring(away, Nowhere)
  <2>1. PICK sources : sources = Provenance(f)
    OBVIOUS
  <2>2. PICK new : new = [f EXCEPT !.sources = sources]
    OBVIOUS
  <2>3. PICK facts : facts = IF \E g \in ToSet(away.facts) : SameFact(f, g) THEN away.facts
                             ELSE Append(away.facts, new)
    OBVIOUS
  <2>4. PICK after : after = [away EXCEPT !.facts = facts]
    OBVIOUS
  <2>5. PICK left : left = [old EXCEPT !.facts = Tail(@)]
    OBVIOUS
  <2>6. sources # {} /\ Bring(after, left)
    BY <1>1, <1>2, <1>8, <2>1, <2>2, <2>3, <2>4, <2>5 DEF ImportFact
  <2>7. DOMAIN f = FactFields
    BY <1>4, <1>6 DEF IsContent
  <2>8. /\ DOMAIN new = FactFields /\ new.sources = sources /\ SameFact(f, new)
        /\ sources \subseteq away.episodes
    BY <1>1, <2>1, <2>2, <2>7 DEF FactFields, SameFact, Provenance
  <2>9. /\ facts \in Seq(ToSet(facts)) /\ ToSet(away.facts) \subseteq ToSet(facts)
        /\ ToSet(facts) \subseteq ToSet(away.facts) \cup {new}
        /\ \E g \in ToSet(facts) : SameFact(f, g)
    <3>1. CASE \E g \in ToSet(away.facts) : SameFact(f, g)
      BY <1>4, <2>3, <3>1 DEF IsContent
    <3>2. CASE ~ \E g \in ToSet(away.facts) : SameFact(f, g)
      BY <1>4, <2>3, <2>8, <3>2, Appended DEF IsContent
    <3> QED
      BY <3>1, <3>2
  <2>10. /\ DOMAIN after = DOMAIN away /\ after.episodes = away.episodes
         /\ after.aliases = away.aliases /\ after.facts = facts
    BY <1>4, <2>4 DEF IsContent
  <2>11. /\ DOMAIN left = DOMAIN old /\ left.at = old.at /\ left.alone = old.alone
         /\ left.of = old.of /\ left.episodes = old.episodes /\ left.aliases = old.aliases
         /\ left.facts = Tail(old.facts)
    BY <1>4, <2>5
  <2>12. IsContent(after) /\ RestsOnItsOwn(after)
    BY <1>4, <2>6, <2>8, <2>9, <2>10 DEF IsContent, RestsOnItsOwn
  <2>13. store'["away"] = after /\ importer' = left /\ landed' = landed
    BY <2>6 DEF Bring, PortInv, Stores
  <2>14. /\ \A h : Brought(h)' <=> \E g \in ToSet(facts) : SameFact(h, g)
         /\ \A h : Brought(h) <=> \E g \in ToSet(away.facts) : SameFact(h, g)
         /\ \A as, a : Named(as, a)' <=> Named(as, a)
    BY <1>1, <2>10, <2>13 DEF Brought, Named, Resolve, SameFact
  <2>15. \A h : Brought(h) => Brought(h)'
    BY <2>9, <2>14
  <2>16. ImportHolds'
    <3>1. \A h \in ToSet(old.of.facts) :
            h \in ToSet(old.facts) \/ Brought(h) => h \in ToSet(left.facts) \/ Brought(h)'
      BY <1>6, <2>9, <2>11, <2>14, <2>15
    <3> QED
      BY <1>1, <1>4, <1>6, <2>10, <2>11, <2>13, <2>14, <3>1 DEF PortInv, ImportHolds, IsContent
  <2>17. LandedHolds'
    <3>1. landed # NotLanded => facts = away.facts
      BY <1>1, <1>4, <1>6, <2>3, <2>14 DEF PortInv, ImportHolds, LandedHolds
    <3> QED
      BY <1>1, <2>10, <2>13, <2>14, <2>15, <3>1 DEF PortInv, LandedHolds
  <2> QED
    BY <2>6, <2>12, <2>16, <2>17, BroughtKeeps
<1> QED
  BY <1>7, <1>8

(* Whoever was alone has landed the export; who was not, or died, has not. *)
LEMMA EndKeeps ==
  ASSUME PortInv, EndImport \/ ImportDies
  PROVE  PortInv'
<1>1. store' = store /\ exporter' = exporter /\ export' = export /\ importer' = Nowhere
  BY DEF EndImport, ImportDies
<1>2. ImportHolds' /\ ExportHolds'
  BY <1>1 DEF PortInv, ImportHolds, ExportHolds, IsContent
<1>3. LandedHolds'
  <2>1. CASE landed' = landed
    BY <1>1, <2>1 DEF PortInv, LandedHolds, Brought, Named, Resolve
  <2>2. CASE landed' # landed
    <3>1. /\ importer # Nowhere /\ importer.alone
          /\ importer.episodes = {} /\ importer.aliases = {} /\ importer.facts = <<>>
          /\ landed' = [of |-> importer.of, held |-> store["away"]]
      BY <2>2 DEF EndImport, ImportDies, Nowhere
    <3>2. landed'.of = importer.of /\ landed'.held = store["away"]
      BY <3>1
    <3>3. /\ importer.of.episodes \subseteq store["away"].episodes
          /\ \A f \in ToSet(importer.of.facts) : Brought(f)
          /\ ~ Chained(importer.of.aliases) =>
               \A a \in DOMAIN importer.of.aliases : Named(importer.of.aliases, a)
      BY <3>1 DEF PortInv, ImportHolds, ToSet
    <3> QED
      BY <1>1, <3>2, <3>3 DEF LandedHolds, Brought, Named, Resolve
  <2> QED
    BY <2>1, <2>2
<1> QED
  BY <1>1, <1>2, <1>3 DEF PortInv, IsContent, RestsOnItsOwn

(* Every step of the export, the import and the others keeps the invariant. *)
LEMMA NextPortInv == PortInv /\ [PortNext]_portVars => PortInv'
<1> SUFFICES ASSUME PortInv, [PortNext]_portVars PROVE PortInv'
  OBVIOUS
<1>1. CASE UNCHANGED portVars
  <2>1. /\ store' = store /\ exporter' = exporter /\ export' = export
        /\ importer' = importer /\ landed' = landed
    BY <1>1 DEF portVars
  <2>2. ImportHolds' /\ LandedHolds'
    BY <2>1 DEF PortInv, ImportHolds, LandedHolds, IsContent, Brought, Named, Resolve
  <2>3. ExportHolds'
    BY <2>1 DEF PortInv, ExportHolds, IsContent
  <2> QED
    BY <2>1, <2>2, <2>3 DEF PortInv, IsContent, RestsOnItsOwn
<1>2. CASE PortNext
  BY <1>2, FileTextKeeps, AddAliasKeeps, LearnFactKeeps, ExcludeFactKeeps, ExportKeeps,
     BeginImportKeeps, ImportTextKeeps, ImportAliasKeeps, ImportFactKeeps, EndKeeps
     DEF PortNext
<1> QED
  BY <1>1, <1>2

(* What exports, imports and the writes around them keep true. *)
THEOREM TransferInvariant == PortSpec => []PortInv
BY InitPortInv, NextPortInv, PTL DEF PortSpec

(* Importing what has landed again is a no-op, wherever imports of it      *)
(* stopped and whatever the export was torn by, for any number of episodes, *)
(* names and facts; and every fact rests on episodes of its own store       *)
(* (portability.rs:5).                                                      *)
THEOREM ReimportIsANoOp == PortSpec => []ReimportChangesNothing
<1>1. PortInv => ReimportChangesNothing
  BY DEF PortInv, RestsOnItsOwn, LandedHolds, Brought, ReimportChangesNothing
<1> QED
  BY <1>1, TransferInvariant, PTL

=============================================================================
