---------------------------- MODULE PeripheryProofs ----------------------------
(***************************************************************************)
(* Proofs about the HTTP server (ServeApi), for any keys, claims and       *)
(* number of changes and pages, about opening a store (Migrations), for    *)
(* any number of processes, about the evidence journal (EvidenceLog), for  *)
(* any reports, spaces, episodes and page, and about the links between     *)
(* facts (FactLinks), for any processes, facts and links, however far a    *)
(* walk may go, and about cutting a text into chunks (ChunkSpans), for any *)
(* text and any target.                                                    *)
(***************************************************************************)
EXTENDS ServeApi, Migrations, EvidenceLog, FactLinks, ChunkSpans, SequenceTheorems,
        FiniteSetTheorems, WellFoundedInduction, TLAPS

-----------------------------------------------------------------------------
(***************************************************************************)
(* The server: the inductive invariant                                     *)
(***************************************************************************)

LedgerFields == {"claims", "revision", "deleted"}
PageFields == {"at", "space", "filter", "list", "revision", "sourced"}

LedgersHold ==
  /\ DOMAIN ledger = ServedSpaces
  /\ \A s \in ServedSpaces : DOMAIN ledger[s] = LedgerFields /\ ledger[s].revision \in Nat

(* A list tells, of the claims that it shows, whether they are excluded    *)
(* now.                                                                    *)
Tells(list, space) ==
  \A c \in DOMAIN list :
    c \in Held(space) /\ list[c].excluded = ledger[space].claims[c].excluded

(* A revision that was read is not ahead of the space.                     *)
Reached(revision, space) ==
  space \in ServedSpaces /\ revision \in Nat /\ revision <= ledger[space].revision

(* A page of that revision was served, as one of the first n.              *)
ServedBefore(space, revision, n) ==
  \E i \in 1 .. n : pages[i].space = space /\ pages[i].revision = revision

(* The claims that a list shows are there until the space is deleted.      *)
StillHeld(list, space) == ledger[space].deleted \/ DOMAIN list \subseteq Held(space)

(* The page being read: where its revision was served before, no change    *)
(* that moves the revision can have come since, so its list tells the      *)
(* truth about that revision, as the served ones do.                       *)
ServingHolds ==
  serving # Free =>
    /\ serving.at \in {"list", "revision"} /\ DOMAIN serving = PageFields
    /\ serving.space \in ServedSpaces /\ StillHeld(serving.list, serving.space)
    /\ serving.at = "list" =>
         (ServedBefore(serving.space, ledger[serving.space].revision, Len(pages))
            => Tells(serving.list, serving.space))
    /\ serving.at = "revision" =>
         /\ Reached(serving.revision, serving.space)
         /\ ServedBefore(serving.space, serving.revision, Len(pages)) =>
              /\ serving.revision = ledger[serving.space].revision
                   => Tells(serving.list, serving.space)
              /\ \A j \in 1 .. Len(pages) :
                   /\ pages[j].space = serving.space /\ pages[j].revision = serving.revision
                   /\ Reread(j)
                   => Agree(pages[j], serving)

(* A page whose revision was served before it tells the truth about it.    *)
PageHolds(k) ==
  /\ Reached(pages[k].revision, pages[k].space)
  /\ ledger[pages[k].space].deleted \/ pages[k].sourced = DOMAIN pages[k].list
  /\ Reread(k) /\ pages[k].revision = ledger[pages[k].space].revision
       => Tells(pages[k].list, pages[k].space)

Consistent(j, k) ==
  /\ pages[j].space = pages[k].space /\ pages[j].revision = pages[k].revision
  /\ Reread(j) /\ Reread(k)
  => Agree(pages[j], pages[k])

ServeInv ==
  /\ LedgersHold /\ ServingHolds
  /\ DOMAIN pages = 1 .. Len(pages) /\ Len(pages) \in Nat
  /\ \A k \in 1 .. Len(pages) : PageHolds(k)
  /\ \A j, k \in 1 .. Len(pages) : Consistent(j, k)

-----------------------------------------------------------------------------
(***************************************************************************)
(* A change of a space moves its revision, or what is excluded stays so    *)
(***************************************************************************)

(* Excluded or not, the claims that were there are so still. *)
SameExclusions(before, after) ==
  \A c \in DOMAIN before.claims :
    c \in DOMAIN after.claims /\ after.claims[c].excluded = before.claims[c].excluded

(* Whatever operation it is, no claim goes but with its space, and what is *)
(* excluded changes only with the revision.                                *)
Moved(before, after) ==
  /\ DOMAIN after = LedgerFields
  /\ after.deleted \/ DOMAIN before.claims \subseteq DOMAIN after.claims
  /\ \/ after.revision = before.revision + 1
     \/ after.revision = before.revision /\ SameExclusions(before, after)

(* An ingestion, and a deletion. *)
LEMMA FieldsKept ==
  ASSUME NEW held, DOMAIN held = LedgerFields
  PROVE  /\ Moved(held, [held EXCEPT !.revision = @ + 1])
         /\ Moved(held, [held EXCEPT !.claims = <<>>, !.revision = @ + 1, !.deleted = TRUE])
BY DEF LedgerFields, Moved

(* A claim's status moves without the revision, its exclusion with it. *)
LEMMA ClaimFieldsKept ==
  ASSUME NEW held, DOMAIN held = LedgerFields, NEW c, NEW x
  PROVE  /\ Moved(held, [held EXCEPT !.claims[c].status = x])
         /\ Moved(held, [held EXCEPT !.claims[c].excluded = x, !.revision = @ + 1])
<1>1. PICK after : after = [held EXCEPT !.claims[c].status = x]
  OBVIOUS
<1>2. /\ DOMAIN after = LedgerFields /\ after.revision = held.revision
      /\ after.claims = [held.claims EXCEPT ![c].status = x]
  BY <1>1 DEF LedgerFields
<1>3. DOMAIN after.claims = DOMAIN held.claims
  BY <1>2
<1>4. ASSUME NEW d \in DOMAIN held.claims
      PROVE  after.claims[d].excluded = held.claims[d].excluded
  <2>1. CASE d = c
    <3>1. after.claims[d] = [held.claims[d] EXCEPT !.status = x]
      BY <1>2, <2>1
    <3> QED
      BY <3>1
  <2>2. CASE d # c
    BY <1>2, <2>2
  <2> QED
    BY <2>1, <2>2
<1>5. Moved(held, after)
  BY <1>2, <1>3, <1>4 DEF Moved, SameExclusions
<1>6. Moved(held, [held EXCEPT !.claims[c].excluded = x, !.revision = @ + 1])
  BY DEF LedgerFields, Moved
<1> QED
  BY <1>1, <1>5, <1>6

GrownBy(claims, c, claim) ==
  [d \in DOMAIN claims \cup {c} |-> IF d = c THEN claim ELSE claims[d]]

(* A claim that is learnt joins those held. *)
LEMMA LearntJoins ==
  ASSUME NEW held, DOMAIN held = LedgerFields, NEW c, c \notin DOMAIN held.claims, NEW claim
  PROVE  Moved(held, [held EXCEPT !.claims = GrownBy(@, c, claim)])
<1>1. PICK after : after = [held EXCEPT !.claims = GrownBy(@, c, claim)]
  OBVIOUS
<1>2. /\ DOMAIN after = LedgerFields /\ after.revision = held.revision
      /\ after.claims = GrownBy(held.claims, c, claim)
  BY <1>1 DEF LedgerFields
<1>3. /\ DOMAIN held.claims \subseteq DOMAIN after.claims
      /\ \A d \in DOMAIN held.claims : after.claims[d] = held.claims[d]
  BY <1>2 DEF GrownBy
<1>4. Moved(held, after)
  BY <1>2, <1>3 DEF Moved, SameExclusions
<1> QED
  BY <1>1, <1>4

Changes == (DOMAIN Routes \ {"facts"}) \cup {"learn", "decay"}

(* So does each outcome of each operation that changes a ledger.           *)
LEMMA OutcomesMove ==
  ASSUME LedgersHold, NEW s \in ServedSpaces, NEW op \in Changes, NEW after \in Outcomes(op, s)
  PROVE  Moved(ledger[s], after)
<1>1. PICK held : held = ledger[s]
  OBVIOUS
<1>2. DOMAIN held = LedgerFields
  BY <1>1 DEF LedgersHold
<1>3. Changes = {"episodes", "approve", "decline", "exclude", "include", "close", "spaces",
                 "learn", "decay"}
  BY DEF Changes, Routes
<1>4. CASE op = "episodes"
  <2>1. after = [held EXCEPT !.revision = @ + 1]
    BY <1>1, <1>4 DEF Outcomes
  <2> QED
    BY <1>1, <1>2, <2>1, FieldsKept
<1>5. CASE op \in {"approve", "decline", "close", "decay"}
  <2>1. \E c, x : after = WithStatus(s, c, x)
    <3>1. CASE op = "approve"
      BY <3>1 DEF Outcomes
    <3>2. CASE op = "decline"
      BY <3>2 DEF Outcomes
    <3>3. CASE op = "close"
      BY <3>3 DEF Outcomes
    <3>4. CASE op = "decay"
      BY <3>4 DEF Outcomes
    <3> QED
      BY <1>5, <3>1, <3>2, <3>3, <3>4
  <2>2. PICK c, x : after = WithStatus(s, c, x)
    BY <2>1
  <2>3. Moved(held, [held EXCEPT !.claims[c].status = x])
    BY <1>2, ClaimFieldsKept
  <2> QED
    BY <1>1, <2>2, <2>3 DEF WithStatus
<1>6. CASE op \in {"exclude", "include"}
  <2>1. \E c, x : after = WithExclusion(s, c, x)
    <3>1. CASE op = "exclude"
      BY <3>1 DEF Outcomes
    <3>2. CASE op = "include"
      BY <3>2 DEF Outcomes
    <3> QED
      BY <1>6, <3>1, <3>2
  <2>2. PICK c, x : after = WithExclusion(s, c, x)
    BY <2>1
  <2>3. Moved(held, [held EXCEPT !.claims[c].excluded = x, !.revision = @ + 1])
    BY <1>2, ClaimFieldsKept
  <2> QED
    BY <1>1, <2>2, <2>3 DEF WithExclusion
<1>7. CASE op = "learn"
  <2>1. PICK c, x : c \notin DOMAIN held.claims /\ after = WithClaim(s, c, x)
    BY <1>1, <1>7 DEF Outcomes, Held
  <2>2. PICK claim : claim = [status |-> x, excluded |-> FALSE]
    OBVIOUS
  <2>3. after = [held EXCEPT !.claims = GrownBy(@, c, claim)]
    BY <1>1, <2>1, <2>2 DEF WithClaim, GrownBy
  <2>4. Moved(held, [held EXCEPT !.claims = GrownBy(@, c, claim)])
    BY <1>2, <2>1, LearntJoins
  <2> QED
    BY <1>1, <2>3, <2>4
<1>8. CASE op = "spaces"
  <2>1. after = [held EXCEPT !.claims = <<>>, !.revision = @ + 1, !.deleted = TRUE]
    BY <1>1, <1>8 DEF Outcomes
  <2> QED
    BY <1>1, <1>2, <2>1, FieldsKept
<1> QED
  BY <1>3, <1>4, <1>5, <1>6, <1>7, <1>8

(* A change moves the ledger it is made to, and no other.                  *)
LEMMA ChangeMoves ==
  ASSUME LedgersHold, NEW s \in ServedSpaces, NEW op \in Changes, Change(op, s)
  PROVE  /\ LedgersHold'
         /\ ~ ledger[s].deleted
         /\ Moved(ledger[s], ledger'[s])
         /\ \A t \in ServedSpaces : t # s => ledger'[t] = ledger[t]
<1>1. PICK after \in Outcomes(op, s) : ledger' = [ledger EXCEPT ![s] = after]
  BY DEF Change
<1>2. Moved(ledger[s], after) /\ ~ ledger[s].deleted
  BY OutcomesMove DEF Change
<1>3. ledger'[s] = after /\ \A t \in ServedSpaces : t # s => ledger'[t] = ledger[t]
  BY <1>1 DEF LedgersHold
<1> QED
  BY <1>1, <1>2, <1>3 DEF LedgersHold, Moved, ServedSpaces

(* What is known of a list, or of a revision, of any space through any     *)
(* change: claims go only with the space, a revision is not taken back,    *)
(* and a list that tells the truth does so while the revision stands.      *)
LEMMA TruthThroughChange ==
  ASSUME LedgersHold, NEW s \in ServedSpaces, NEW op \in Changes, Change(op, s),
         NEW t \in ServedSpaces
  PROVE  /\ ledger'[t].revision \in Nat /\ ledger[t].revision <= ledger'[t].revision
         /\ ledger[t].deleted => ledger'[t].deleted
         /\ \A list : StillHeld(list, t) => StillHeld(list, t)'
         /\ ledger'[t].revision = ledger[t].revision
              => \A list : Tells(list, t) => Tells(list, t)'
<1>1. /\ LedgersHold' /\ ~ ledger[s].deleted /\ Moved(ledger[s], ledger'[s])
      /\ \A u \in ServedSpaces : u # s => ledger'[u] = ledger[u]
  BY ChangeMoves
<1>2. ledger[t].revision \in Nat /\ ledger'[t].revision \in Nat
  BY <1>1 DEF LedgersHold
<1>3. CASE t = s
  <2>1. \A list : StillHeld(list, t) => StillHeld(list, t)'
    BY <1>1, <1>3 DEF StillHeld, Moved, Held
  <2>2. ASSUME ledger'[t].revision = ledger[t].revision, NEW list, Tells(list, t)
        PROVE  Tells(list, t)'
    <3>1. SameExclusions(ledger[t], ledger'[t])
      BY <1>1, <1>2, <1>3, <2>2 DEF Moved
    <3> QED
      BY <2>2, <3>1 DEF Tells, Held, SameExclusions
  <2>3. ledger[t].revision <= ledger'[t].revision
    BY <1>1, <1>2, <1>3 DEF Moved
  <2> QED
    BY <1>1, <1>2, <1>3, <2>1, <2>2, <2>3
<1>4. CASE t # s
  BY <1>1, <1>2, <1>4 DEF StillHeld, Tells, Held
<1> QED
  BY <1>3, <1>4

(* So a change keeps what is known of the pages that were served, and of   *)
(* the page that is being read meanwhile.                                  *)
LEMMA ChangeKeeps ==
  ASSUME ServeInv, NEW s \in ServedSpaces, NEW op \in Changes, Change(op, s),
         pages' = pages, serving' = serving
  PROVE  ServeInv'
<1>1. LedgersHold /\ LedgersHold'
  BY ChangeMoves DEF ServeInv
<1>2. /\ \A k : Reread(k)' = Reread(k)
      /\ \A t, r, n : ServedBefore(t, r, n)' = ServedBefore(t, r, n)
  BY DEF Reread, ServedBefore
<1>3. ASSUME NEW t \in ServedSpaces, NEW r, Reached(r, t)
      PROVE  Reached(r, t)' /\ (r = ledger'[t].revision => ledger'[t].revision = ledger[t].revision)
  <2>1. /\ r \in Nat /\ r <= ledger[t].revision /\ ledger[t].revision \in Nat
        /\ ledger'[t].revision \in Nat /\ ledger[t].revision <= ledger'[t].revision
    BY <1>1, <1>3, TruthThroughChange DEF Reached, LedgersHold
  <2> QED
    BY <2>1 DEF Reached
<1>4. ASSUME NEW k \in 1 .. Len(pages) PROVE PageHolds(k)'
  <2>1. PageHolds(k) /\ Reached(pages[k].revision, pages[k].space)
        /\ pages[k].space \in ServedSpaces
    BY DEF ServeInv, PageHolds, Reached
  <2>2. Reached(pages[k].revision, pages[k].space)'
    BY <1>3, <2>1
  <2>3. ASSUME Reread(k), pages[k].revision = ledger'[pages[k].space].revision
        PROVE  Tells(pages[k].list, pages[k].space)'
    <3>1. ledger'[pages[k].space].revision = ledger[pages[k].space].revision
      BY <1>3, <2>1, <2>3
    <3>2. Tells(pages[k].list, pages[k].space)
      BY <2>1, <2>3, <3>1 DEF PageHolds
    <3> QED
      BY <1>1, <2>1, <3>1, <3>2, TruthThroughChange
  <2>4. ledger'[pages[k].space].deleted \/ pages[k].sourced = DOMAIN pages[k].list
    BY <1>1, <2>1, TruthThroughChange DEF PageHolds
  <2> QED
    BY <1>2, <2>2, <2>3, <2>4 DEF PageHolds
<1>5. ASSUME NEW j \in 1 .. Len(pages), NEW k \in 1 .. Len(pages) PROVE Consistent(j, k)'
  BY <1>2 DEF ServeInv, Consistent, Agree
<1>6. ServingHolds'
  <2>1. CASE serving = Free
    BY <2>1 DEF ServingHolds
  <2>2. CASE serving # Free
    <3>1. /\ serving.at \in {"list", "revision"} /\ DOMAIN serving = PageFields
          /\ serving.space \in ServedSpaces /\ StillHeld(serving.list, serving.space)
      BY <2>2 DEF ServeInv, ServingHolds
    <3>2. PICK t : t = serving.space /\ t \in ServedSpaces
      BY <3>1
    <3>3. StillHeld(serving.list, t)'
      BY <1>1, <3>1, <3>2, TruthThroughChange
    <3>4. ASSUME serving.at = "list", ServedBefore(t, ledger'[t].revision, Len(pages))
          PROVE  Tells(serving.list, t)'
      <4>1. PICK i \in 1 .. Len(pages) :
              pages[i].space = t /\ pages[i].revision = ledger'[t].revision
        BY <3>4 DEF ServedBefore
      <4>2. Reached(pages[i].revision, t)
        BY <4>1 DEF ServeInv, PageHolds
      <4>3. ledger'[t].revision = ledger[t].revision
        BY <1>3, <3>2, <4>1, <4>2
      <4>4. Tells(serving.list, t)
        BY <2>2, <3>2, <3>4, <4>3 DEF ServeInv, ServingHolds
      <4> QED
        BY <1>1, <3>2, <4>3, <4>4, TruthThroughChange
    <3>5. ASSUME serving.at = "revision"
          PROVE  /\ Reached(serving.revision, t) /\ Reached(serving.revision, t)'
                 /\ ServedBefore(t, serving.revision, Len(pages)) =>
                      /\ serving.revision = ledger'[t].revision => Tells(serving.list, t)'
                      /\ \A j \in 1 .. Len(pages) :
                           /\ pages[j].space = t /\ pages[j].revision = serving.revision
                           /\ Reread(j)
                           => Agree(pages[j], serving)
      <4>1. /\ Reached(serving.revision, t)
            /\ ServedBefore(t, serving.revision, Len(pages)) =>
                 /\ serving.revision = ledger[t].revision => Tells(serving.list, t)
                 /\ \A j \in 1 .. Len(pages) :
                      /\ pages[j].space = t /\ pages[j].revision = serving.revision
                      /\ Reread(j)
                      => Agree(pages[j], serving)
        BY <2>2, <3>2, <3>5 DEF ServeInv, ServingHolds
      <4>2. Reached(serving.revision, t)'
        BY <1>3, <3>2, <4>1
      <4>3. ASSUME ServedBefore(t, serving.revision, Len(pages)),
                   serving.revision = ledger'[t].revision
            PROVE  Tells(serving.list, t)'
        <5>1. ledger'[t].revision = ledger[t].revision
          BY <1>3, <3>2, <4>1, <4>3
        <5> QED
          BY <1>1, <3>2, <4>1, <4>3, <5>1, TruthThroughChange
      <4> QED
        BY <4>1, <4>2, <4>3
    <3>6. \A j : Agree(pages[j], serving)' = Agree(pages[j], serving)
      BY DEF Agree
    <3> QED
      BY <1>2, <3>1, <3>2, <3>3, <3>4, <3>5, <3>6 DEF ServingHolds
  <2> QED
    BY <2>1, <2>2
<1> QED
  BY <1>1, <1>4, <1>5, <1>6 DEF ServeInv

-----------------------------------------------------------------------------
(***************************************************************************)
(* The server, step by step                                                *)
(***************************************************************************)

(* Nothing is served at first.                                             *)
LEMMA InitServeInv == ServeInit => ServeInv
<1> SUFFICES ASSUME ServeInit PROVE ServeInv
  OBVIOUS
<1>1. pages = <<>> /\ Len(pages) = 0 /\ DOMAIN pages = 1 .. 0
  BY DEF ServeInit
<1>2. LedgersHold
  BY DEF ServeInit, LedgersHold, LedgerFields
<1> QED
  BY <1>1, <1>2 DEF ServeInit, ServeInv, ServingHolds

(* The first statement of a page: it lists what is there.                  *)
LEMMA ReadListKeeps ==
  ASSUME ServeInv, NEW key \in Keys, NEW filter, ReadList(key, filter)
  PROVE  ServeInv'
<1>1. PICK s, list : s = key.space /\ list = Listed(s, filter)
  OBVIOUS
<1>2. s \in ServedSpaces
  BY <1>1 DEF ServedSpaces
<1>3. PICK new : new = [at |-> "list", space |-> s, filter |-> filter, list |-> list,
                        revision |-> NotRead, sourced |-> NotRead]
  OBVIOUS
<1>4. serving' = new /\ ledger' = ledger /\ pages' = pages
  BY <1>1, <1>3 DEF ReadList
<1>5. DOMAIN new = PageFields /\ new.at = "list" /\ new.space = s /\ new.list = list
  BY <1>3 DEF PageFields
<1>6. Tells(list, s) /\ StillHeld(list, s)
  BY <1>1 DEF Tells, StillHeld, Listed, Held
<1>7. Tells(list, s)' /\ StillHeld(list, s)'
  BY <1>4, <1>6 DEF Tells, StillHeld, Held
<1>8. ServingHolds'
  BY <1>2, <1>4, <1>5, <1>7 DEF ServingHolds
<1>9. /\ \A k : PageHolds(k)' = PageHolds(k)
      /\ \A j, k : Consistent(j, k)' = Consistent(j, k)
  BY <1>4 DEF PageHolds, Consistent, Reread, Reached, Tells, Held, Agree
<1> QED
  BY <1>4, <1>8, <1>9 DEF ServeInv, LedgersHold

(* The second: the page takes the revision that the space now has.  If     *)
(* that was served before, the list tells what the space is, as the pages  *)
(* of this revision do.                                                    *)
LEMMA ReadRevisionKeeps ==
  ASSUME ServeInv, ReadRevision
  PROVE  ServeInv'
<1>1. PICK old, r : old = serving /\ r = ledger[old.space].revision
  OBVIOUS
<1>2. PICK new : new = [old EXCEPT !.at = "revision", !.revision = r]
  OBVIOUS
<1>3. serving' = new /\ ledger' = ledger /\ pages' = pages /\ old.at = "list"
  BY <1>1, <1>2 DEF ReadRevision
<1>4. PICK s : s = old.space
  OBVIOUS
<1>5. /\ DOMAIN old = PageFields /\ s \in ServedSpaces /\ StillHeld(old.list, s)
      /\ ServedBefore(s, r, Len(pages)) => Tells(old.list, s)
  BY <1>1, <1>3, <1>4 DEF ServeInv, ServingHolds, Free
<1>6. /\ DOMAIN new = PageFields /\ new.at = "revision" /\ new.space = s
      /\ new.list = old.list /\ new.revision = r
  BY <1>2, <1>4, <1>5 DEF PageFields
<1>7. Reached(r, s)
  BY <1>1, <1>4, <1>5 DEF ServeInv, LedgersHold, Reached
<1>8. ASSUME ServedBefore(s, r, Len(pages)), NEW j \in 1 .. Len(pages),
             pages[j].space = s, pages[j].revision = r, Reread(j)
      PROVE  Agree(pages[j], new)
  <2>1. Tells(pages[j].list, s) /\ Tells(old.list, s)
    BY <1>1, <1>4, <1>5, <1>8 DEF ServeInv, PageHolds
  <2> QED
    BY <1>6, <2>1 DEF Tells, Agree
<1>9. /\ \A k : PageHolds(k)' = PageHolds(k) /\ Reread(k)' = Reread(k)
      /\ \A j, k : Consistent(j, k)' = Consistent(j, k)
      /\ \A t, q, n : ServedBefore(t, q, n)' = ServedBefore(t, q, n)
      /\ \A list, t : StillHeld(list, t)' = StillHeld(list, t) /\ Tells(list, t)' = Tells(list, t)
      /\ \A t, q : Reached(q, t)' = Reached(q, t)
  BY <1>3 DEF PageHolds, Consistent, Reread, Reached, Tells, StillHeld, Held, Agree, ServedBefore
<1>10. \A j : Agree(pages[j], serving)' = Agree(pages[j], new)
  BY <1>3 DEF Agree
<1>11. ServingHolds'
  BY <1>1, <1>3, <1>4, <1>5, <1>6, <1>7, <1>8, <1>9, <1>10 DEF ServingHolds
<1> QED
  BY <1>3, <1>9, <1>11 DEF ServeInv, LedgersHold

(* The third: the page joins those served.                                 *)
LEMMA ReadSourcesKeeps ==
  ASSUME ServeInv, ReadSources
  PROVE  ServeInv'
<1>1. PICK old, s, n : old = serving /\ s = old.space /\ n = Len(pages) + 1
  OBVIOUS
<1>2. PICK page : page = [old EXCEPT !.at = "served", !.sourced = DOMAIN old.list \cap Held(s)]
  OBVIOUS
<1>3. pages' = Append(pages, page) /\ serving' = Free /\ ledger' = ledger /\ old.at = "revision"
  BY <1>1, <1>2 DEF ReadSources
<1>4. /\ DOMAIN old = PageFields /\ s \in ServedSpaces /\ StillHeld(old.list, s)
      /\ Reached(old.revision, s)
      /\ ServedBefore(s, old.revision, Len(pages)) =>
           /\ old.revision = ledger[s].revision => Tells(old.list, s)
           /\ \A j \in 1 .. Len(pages) :
                pages[j].space = s /\ pages[j].revision = old.revision /\ Reread(j)
                => Agree(pages[j], old)
  BY <1>1, <1>3 DEF ServeInv, ServingHolds, Free
<1>5. /\ page.space = s /\ page.list = old.list /\ page.revision = old.revision
      /\ page.sourced = DOMAIN old.list \cap Held(s)
  BY <1>1, <1>2, <1>4 DEF PageFields
<1>6. Len(pages) \in Nat /\ DOMAIN pages = 1 .. Len(pages)
  BY DEF ServeInv
<1>7. /\ DOMAIN pages' = 1 .. n /\ Len(pages') = n /\ n \in Nat /\ pages'[n] = page
      /\ \A k \in 1 .. Len(pages) : pages'[k] = pages[k]
      /\ \A k \in 1 .. n : k = n \/ k \in 1 .. Len(pages)
  BY <1>1, <1>3, <1>6
<1>8. \A k \in 1 .. Len(pages) : Reread(k)' = Reread(k)
  BY <1>6, <1>7 DEF Reread
<1>9. Reread(n)' <=> ServedBefore(s, old.revision, Len(pages))
  BY <1>1, <1>5, <1>6, <1>7 DEF Reread, ServedBefore
<1>10. /\ \A list, t : StillHeld(list, t)' = StillHeld(list, t) /\ Tells(list, t)' = Tells(list, t)
       /\ \A t, q : Reached(q, t)' = Reached(q, t)
  BY <1>3 DEF Reached, Tells, StillHeld, Held
<1>11. ASSUME NEW k \in 1 .. n PROVE PageHolds(k)'
  <2>1. CASE k \in 1 .. Len(pages)
    BY <1>3, <1>7, <1>8, <1>10, <2>1 DEF ServeInv, PageHolds
  <2>2. CASE k = n
    <3>1. ledger[s].deleted \/ page.sourced = DOMAIN page.list
      BY <1>4, <1>5 DEF StillHeld
    <3> QED
      BY <1>3, <1>4, <1>5, <1>7, <1>9, <1>10, <2>2, <3>1 DEF PageHolds
  <2> QED
    BY <1>7, <2>1, <2>2
<1>12. ASSUME NEW j \in 1 .. n, NEW k \in 1 .. n PROVE Consistent(j, k)'
  <2>1. CASE j \in 1 .. Len(pages) /\ k \in 1 .. Len(pages)
    BY <1>7, <1>8, <2>1 DEF ServeInv, Consistent, Agree
  <2>2. ASSUME NEW i \in 1 .. Len(pages), pages[i].space = s, pages[i].revision = old.revision,
               Reread(i), Reread(n)'
        PROVE  Agree(pages[i], page) /\ Agree(page, pages[i])
    BY <1>4, <1>5, <1>9, <2>2 DEF Agree
  <2>3. CASE j = n /\ k = n
    BY <2>3 DEF Consistent, Agree
  <2>4. CASE j \in 1 .. Len(pages) /\ k = n
    BY <1>5, <1>7, <1>8, <2>2, <2>4 DEF Consistent, Agree
  <2>5. CASE j = n /\ k \in 1 .. Len(pages)
    BY <1>5, <1>7, <1>8, <2>2, <2>5 DEF Consistent, Agree
  <2> QED
    BY <1>7, <2>1, <2>3, <2>4, <2>5
<1> QED
  BY <1>3, <1>7, <1>11, <1>12 DEF ServeInv, LedgersHold, ServingHolds

(* Every step of the server or beside it keeps the invariant.              *)
LEMMA NextServeInv == ServeInv /\ [ServeNext]_serveVars => ServeInv'
<1> SUFFICES ASSUME ServeInv, [ServeNext]_serveVars PROVE ServeInv'
  OBVIOUS
<1>1. ASSUME NEW key \in Keys, NEW op \in DOMAIN Routes, Handle(key, op) PROVE ServeInv'
  <2>1. key.space \in ServedSpaces /\ op \in Changes
    BY <1>1 DEF ServedSpaces, Changes, Handle
  <2>2. Change(op, key.space) /\ serving' = serving /\ pages' = pages
    BY <1>1 DEF Handle
  <2> QED
    BY <2>1, <2>2, ChangeKeeps
<1>2. CASE \E k \in Keys, filter \in Filters : ReadList(k, filter)
  BY <1>2, ReadListKeeps
<1>3. CASE ReadRevision
  BY <1>3, ReadRevisionKeeps
<1>4. CASE ReadSources
  BY <1>4, ReadSourcesKeeps
<1>5. ASSUME NEW op \in Changes, NEW s \in ServedSpaces, Elsewhere(op, s) PROVE ServeInv'
  BY <1>5, ChangeKeeps DEF Elsewhere
<1>6. CASE UNCHANGED serveVars
  <2>1. ledger' = ledger /\ serving' = serving /\ pages' = pages
    BY <1>6 DEF serveVars
  <2>2. ServingHolds'
    BY <2>1 DEF ServeInv, ServingHolds, Reached, Tells, StillHeld, Held, ServedBefore, Reread, Agree
  <2>3. /\ \A k : PageHolds(k)' = PageHolds(k)
        /\ \A j, k : Consistent(j, k)' = Consistent(j, k)
    BY <2>1 DEF PageHolds, Consistent, Reread, Reached, Tells, Held, Agree
  <2> QED
    BY <2>1, <2>2, <2>3 DEF ServeInv, LedgersHold
<1> QED
  BY <1>1, <1>2, <1>3, <1>4, <1>5, <1>6 DEF ServeNext, Changes

(* The invariant of the server: a page whose revision was served before it *)
(* tells the truth about that revision.                                    *)
THEOREM ServeInvariant == ServeSpec => []ServeInv
BY InitServeInv, NextServeInv, PTL DEF ServeSpec

(* The pages of one revision that a reader was served after the first      *)
(* (serve.rs, "the revision is read with the list") agree on what is       *)
(* excluded, and each shows its claims with their sources unless the space *)
(* is deleted: whatever the keys, the claims, the lists that are asked for *)
(* and the writes of other processes between a page's statements.          *)
THEOREM RereadPagesAgree == ServeSpec => []RereadShowsItsRevision
<1>1. ASSUME ServeInv PROVE RereadShowsItsRevision
  BY <1>1 DEF ServeInv, PageHolds, Consistent, RereadShowsItsRevision
<1> QED
  BY <1>1, ServeInvariant, PTL

-----------------------------------------------------------------------------
(***************************************************************************)
(* Opening a store: the inductive invariant                                *)
(***************************************************************************)

FileFields == {"version", "parts", "excludes", "queued"}

(* A file of version 2 or more that lacked fact links never gets them.     *)
LinksForgone == origin.version >= 2 /\ "fact_links" \notin origin.parts

(* What a statement does has been done to the file. *)
Has(part) ==
  CASE part = "backfill" -> file.queued
    [] part = "fact_links" /\ LinksForgone -> TRUE
    [] OTHER -> part \in file.parts

(* A process at a step: the file is at least of the version before it, what *)
(* the process knows of the version is not ahead of the file, and of the    *)
(* step's statements each is to do or done.                                 *)
OpenerHolds(me) ==
  /\ me.at \in {"closed", "version", "read", "step", "apply", "open"}
  /\ me.at # "closed" => "base" \in file.parts
  /\ me.at = "read" => me.step \in 2..6 /\ file.version >= me.step - 1
  /\ me.at = "step" =>
       /\ me.step \in 2..SchemaVersion /\ file.version >= me.step - 1
       /\ me.version \in 0..SchemaVersion /\ me.version <= file.version
  /\ me.at = "apply" =>
       /\ DOMAIN me = {"at", "step", "version", "todo"}
       /\ me.step \in 2..SchemaVersion /\ file.version >= me.step - 1
       /\ me.version \in 0..SchemaVersion /\ me.version < me.step
       /\ me.version <= file.version
       /\ me.todo \in Seq(ToSet(Statements[me.step]))
       /\ \A part \in ToSet(Statements[me.step]) \ ToSet(me.todo) : Has(part)
  /\ me.at = "open" => file.version = SchemaVersion

(* The file is a build's, with all that the steps up to its version make.  *)
FileHolds ==
  /\ DOMAIN file = FileFields /\ file.version \in 0..SchemaVersion
  /\ \A step \in 2..SchemaVersion : step <= file.version =>
       \A part \in ToSet(Statements[step]) : Has(part)
  /\ DOMAIN origin = FileFields /\ origin.version \in 0..SchemaVersion
  /\ origin.excludes => file.excludes /\ file.version = SchemaVersion

InStep ==
  FileHolds /\ DOMAIN opener = Openers /\ \A p \in Openers : OpenerHolds(opener[p])

(* What holds through steps taken again too: but for the reasons of        *)
(* exclusions, parts stay, and the file has those of every step up to its  *)
(* version, and of those that a process knows of.                          *)
Made(k) ==
  \A step \in 2..SchemaVersion : step <= k =>
    \A part \in ToSet(Statements[step]) \ {"excluded_reason"} : Has(part)

OpenerSaw(me) ==
  /\ me.at \in {"closed", "version", "read", "step", "apply", "open"}
  /\ me.at # "closed" => "base" \in file.parts
  /\ me.at = "read" => me.step \in 2..6 /\ Made(me.step - 1)
  /\ me.at = "step" =>
       /\ me.step \in 2..SchemaVersion /\ Made(me.step - 1)
       /\ me.version \in 0..SchemaVersion /\ Made(me.version)
  /\ me.at = "apply" =>
       /\ DOMAIN me = {"at", "step", "version", "todo"}
       /\ me.step \in 2..SchemaVersion /\ Made(me.step - 1)
       /\ me.version \in 0..SchemaVersion /\ Made(me.version)
       /\ me.todo \in Seq(ToSet(Statements[me.step]))
       /\ \A part \in ToSet(Statements[me.step]) \ (ToSet(me.todo) \cup {"excluded_reason"}) :
            Has(part)
  /\ me.at = "open" => Made(SchemaVersion)

FileGrew ==
  /\ DOMAIN file = FileFields /\ file.version \in 0..SchemaVersion /\ Made(file.version)
  /\ DOMAIN origin = FileFields /\ origin.version \in 0..SchemaVersion

PartsStay ==
  FileGrew /\ DOMAIN opener = Openers /\ \A p \in Openers : OpenerSaw(opener[p])

SchemaInv == late \in BOOLEAN /\ PartsStay /\ (~ late => InStep)

-----------------------------------------------------------------------------
(***************************************************************************)
(* What the statements are, and what they leave                            *)
(***************************************************************************)

(* The statements of each step. *)
LEMMA StatementParts ==
  /\ ToSet(Statements[2]) = {"facts", "fact_links", "queue", "backfill"}
  /\ ToSet(Statements[3]) = {"tags"} /\ ToSet(Statements[4]) = {"connector_kind"}
  /\ ToSet(Statements[5]) = {"proposed_status"} /\ ToSet(Statements[6]) = {}
  /\ ToSet(Statements[7]) = {"deleted_at"} /\ ToSet(Statements[8]) = {"excluded_reason"}
  /\ \A step \in 2..SchemaVersion : Statements[step] \in Seq(ToSet(Statements[step]))
<1>1. /\ Statements[2] = <<"facts", "fact_links", "queue", "backfill">>
      /\ Statements[3] = <<"tags">> /\ Statements[4] = <<"connector_kind">>
      /\ Statements[5] = <<"proposed_status">> /\ Statements[6] = <<>>
      /\ Statements[7] = <<"deleted_at">> /\ Statements[8] = <<"excluded_reason">>
  <2>1. /\ 2 \in 2..SchemaVersion /\ 3 \in 2..SchemaVersion /\ 4 \in 2..SchemaVersion
        /\ 5 \in 2..SchemaVersion /\ 6 \in 2..SchemaVersion /\ 7 \in 2..SchemaVersion
        /\ 8 \in 2..SchemaVersion
    BY DEF SchemaVersion
  <2>2. Statements[2] = <<"facts", "fact_links", "queue", "backfill">>
    BY <2>1 DEF Statements
  <2>3. Statements[3] = <<"tags">>
    BY <2>1 DEF Statements
  <2>4. Statements[4] = <<"connector_kind">>
    BY <2>1 DEF Statements
  <2>5. Statements[5] = <<"proposed_status">>
    BY <2>1 DEF Statements
  <2>6. Statements[6] = <<>>
    BY <2>1 DEF Statements
  <2>7. Statements[7] = <<"deleted_at">>
    BY <2>1 DEF Statements
  <2>8. Statements[8] = <<"excluded_reason">>
    BY <2>1 DEF Statements
  <2> QED
    BY <2>2, <2>3, <2>4, <2>5, <2>6, <2>7, <2>8
<1>2. \A a : ToSet(<<a>>) = {a} /\ <<a>> \in Seq({a})
  BY DEF ToSet
<1>3. ToSet(<<>>) = {} /\ <<>> \in Seq({})
  BY DEF ToSet
<1>4. \A a, b, c, d : /\ ToSet(<<a, b, c, d>>) = {a, b, c, d}
                      /\ <<a, b, c, d>> \in Seq({a, b, c, d})
  <2> SUFFICES ASSUME NEW a, NEW b, NEW c, NEW d
               PROVE  ToSet(<<a, b, c, d>>) = {a, b, c, d} /\ <<a, b, c, d>> \in Seq({a, b, c, d})
    OBVIOUS
  <2> QED
    BY DEF ToSet
<1>5. \A step \in 2..SchemaVersion : step \in {2, 3, 4, 5, 6, 7, 8}
  BY DEF SchemaVersion
<1>6. /\ ToSet(Statements[2]) = {"facts", "fact_links", "queue", "backfill"}
      /\ Statements[2] \in Seq(ToSet(Statements[2]))
  BY <1>1, <1>4
<1>7. /\ ToSet(Statements[3]) = {"tags"} /\ Statements[3] \in Seq(ToSet(Statements[3]))
      /\ ToSet(Statements[4]) = {"connector_kind"} /\ Statements[4] \in Seq(ToSet(Statements[4]))
  BY <1>1, <1>2
<1>8. /\ ToSet(Statements[5]) = {"proposed_status"} /\ Statements[5] \in Seq(ToSet(Statements[5]))
      /\ ToSet(Statements[7]) = {"deleted_at"} /\ Statements[7] \in Seq(ToSet(Statements[7]))
  BY <1>1, <1>2
<1>9. /\ ToSet(Statements[8]) = {"excluded_reason"} /\ Statements[8] \in Seq(ToSet(Statements[8]))
      /\ ToSet(Statements[6]) = {} /\ Statements[6] \in Seq(ToSet(Statements[6]))
  BY <1>1, <1>2, <1>3
<1> QED
  BY <1>5, <1>6, <1>7, <1>8, <1>9

(* Two statements belong to one step each. *)
LEMMA StepOfPart ==
  ASSUME NEW step \in 2..SchemaVersion, NEW part \in ToSet(Statements[step])
  PROVE  (part = "proposed_status" => step = 5) /\ (part = "excluded_reason" => step = 8)
<1>1. PICK k : k = step
  OBVIOUS
<1>2. k \in {2, 3, 4, 5, 6, 7, 8} /\ part \in ToSet(Statements[k])
  BY <1>1 DEF SchemaVersion
<1> QED
  BY <1>1, <1>2, StatementParts

(* A statement is done, the others are left to do. *)
LEMMA HeadAndTail ==
  ASSUME NEW S, NEW todo \in Seq(S), todo # <<>>
  PROVE  /\ Head(todo) \in S /\ Tail(todo) \in Seq(S)
         /\ ToSet(todo) = {Head(todo)} \cup ToSet(Tail(todo))
<1>1. /\ Head(todo) \in S /\ Tail(todo) \in Seq(S) /\ Head(todo) = todo[1]
      /\ Len(todo) \in Nat \ {0} /\ DOMAIN todo = 1..Len(todo)
      /\ Len(Tail(todo)) = Len(todo) - 1
      /\ \A i \in 1..(Len(todo) - 1) : Tail(todo)[i] = todo[i + 1]
  BY HeadTailProperties, EmptySeq, LenProperties
<1>2. DOMAIN Tail(todo) = 1..(Len(todo) - 1)
  BY <1>1, LenProperties
<1>3. \A x \in ToSet(todo) : x = Head(todo) \/ x \in ToSet(Tail(todo))
  <2> SUFFICES ASSUME NEW i \in 1..Len(todo), i # 1 PROVE todo[i] \in ToSet(Tail(todo))
    BY <1>1 DEF ToSet
  <2>1. i - 1 \in 1..(Len(todo) - 1) /\ todo[i] = Tail(todo)[i - 1]
    BY <1>1
  <2> QED
    BY <1>2, <2>1 DEF ToSet
<1>4. \A i \in 1..(Len(todo) - 1) : Tail(todo)[i] \in ToSet(todo)
  <2> TAKE i \in 1..(Len(todo) - 1)
  <2>1. i + 1 \in 1..Len(todo) /\ Tail(todo)[i] = todo[i + 1]
    BY <1>1
  <2> QED
    BY <1>1, <2>1 DEF ToSet
<1>5. Head(todo) \in ToSet(todo)
  BY <1>1 DEF ToSet
<1>6. ToSet(Tail(todo)) \subseteq ToSet(todo)
  BY <1>2, <1>4 DEF ToSet
<1> QED
  BY <1>1, <1>3, <1>5, <1>6

(* The file goes on: what was done stays done, but for the reasons of      *)
(* exclusions, which the fifth step drops from a file that has not come so *)
(* far.                                                                    *)
Onward ==
  /\ file'.version \in 0..SchemaVersion /\ file.version <= file'.version
  /\ "base" \in file.parts => "base" \in file'.parts
  /\ \A part : Has(part) => Has(part)' \/ (part = "excluded_reason" /\ file.version < 5)

(* An opener is not disturbed by a file that only gains.                   *)
LEMMA OnwardKeeps ==
  ASSUME FileHolds, Onward, NEW me, OpenerHolds(me)
  PROVE  OpenerHolds(me)'
<1>1. file.version \in 0..SchemaVersion
  BY DEF FileHolds
<1>2. ASSUME me.at = "apply", NEW part \in ToSet(Statements[me.step]) \ ToSet(me.todo)
      PROVE  Has(part)'
  <2>1. Has(part) /\ me.step \in 2..SchemaVersion /\ file.version >= me.step - 1
    BY <1>2 DEF OpenerHolds
  <2>2. part = "excluded_reason" => me.step = 8
    BY <1>2, <2>1, StepOfPart
  <2> QED
    BY <1>1, <2>1, <2>2 DEF Onward
<1>3. me.step \in 2..SchemaVersion /\ file.version >= me.step - 1 => file'.version >= me.step - 1
  BY <1>1 DEF Onward, SchemaVersion
<1>4. me.step \in 2..6 /\ file.version >= me.step - 1 => file'.version >= me.step - 1
  BY <1>1 DEF Onward, SchemaVersion
<1>5. me.version \in 0..SchemaVersion /\ me.version <= file.version => me.version <= file'.version
  BY <1>1 DEF Onward, SchemaVersion
<1>6. file.version = SchemaVersion => file'.version = SchemaVersion
  BY <1>1 DEF Onward, SchemaVersion
<1> QED
  BY <1>2, <1>3, <1>4, <1>5, <1>6 DEF OpenerHolds, Onward

(* A process goes from one point to another, and the file on. *)
LEMMA GoKeeps ==
  ASSUME InStep, NEW p \in Openers, NEW at, Go(p, at), Onward, FileHolds', OpenerHolds(at)'
  PROVE  InStep'
<1>1. opener' = [opener EXCEPT ![p] = at]
  BY DEF Go
<1>2. ASSUME NEW q \in Openers PROVE OpenerHolds(opener[q])'
  <2>1. CASE q = p
    BY <1>1, <2>1 DEF InStep
  <2>2. CASE q # p
    <3>1. PICK me : me = opener[q]
      OBVIOUS
    <3>2. opener'[q] = me
      BY <1>1, <2>2, <3>1 DEF InStep
    <3>3. OpenerHolds(me)'
      BY <3>1, OnwardKeeps DEF InStep
    <3> QED
      BY <3>2, <3>3
  <2> QED
    BY <2>1, <2>2
<1> QED
  BY <1>1, <1>2 DEF InStep

(* Where the file stays, so does what was said of it. *)
LEMMA FileStays ==
  ASSUME InStep, file' = file, origin' = origin
  PROVE  FileHolds' /\ Onward /\ \A me : OpenerHolds(me) => OpenerHolds(me)'
<1>1. \A part : Has(part)' = Has(part)
  BY DEF Has, LinksForgone
<1>2. FileHolds'
  BY <1>1 DEF InStep, FileHolds
<1>3. Onward
  BY <1>1 DEF Onward, InStep, FileHolds, SchemaVersion
<1> QED
  BY <1>2, <1>3, OnwardKeeps DEF InStep

-----------------------------------------------------------------------------
(***************************************************************************)
(* Opening a store, step by step                                           *)
(***************************************************************************)

(* A file of any version has what its version promises.                    *)
LEMMA InitSchemaInv == SchemaInit => SchemaInv
<1> SUFFICES ASSUME SchemaInit PROVE SchemaInv
  OBVIOUS
<1>1. PICK v \in 0..SchemaVersion, with \in {{}, {"fact_links"}} :
        /\ file = [version |-> v, parts |-> PartsOf[v] \cup with, excludes |-> v = 8,
                   queued |-> v # 1]
        /\ v < 2 => "fact_links" \notin PartsOf[v] \cup with
  BY DEF SchemaInit, FilesFound
<1>2. PICK parts : parts = PartsOf[v] \cup with
  OBVIOUS
<1>3. /\ file.version = v /\ file.parts = parts /\ file.excludes = (v = 8)
      /\ v >= 2 => file.queued
      /\ DOMAIN file = FileFields /\ origin = file
  <2>1. file.queued = (v # 1)
    BY <1>1
  <2>2. v >= 2 => v # 1
    OBVIOUS
  <2>3. v >= 2 => file.queued
    BY <2>1, <2>2
  <2> QED
    BY <1>1, <1>2, <2>3 DEF SchemaInit, FileFields
<1>4. /\ v >= 2 => "facts" \in parts /\ "queue" \in parts
      /\ v >= 3 => "tags" \in parts
      /\ v >= 4 => "connector_kind" \in parts
      /\ v >= 5 => "proposed_status" \in parts
      /\ v >= 7 => "deleted_at" \in parts
      /\ v >= 8 => "excluded_reason" \in parts
  BY <1>2 DEF PartsOf, SchemaVersion
<1>5. ASSUME NEW step \in 2..SchemaVersion, step <= v, NEW part \in ToSet(Statements[step])
      PROVE  Has(part)
  <2>1. step \in {2, 3, 4, 5, 6, 7, 8} /\ v \in 2..8
    BY <1>5 DEF SchemaVersion
  <2>2. CASE step = 2
    <3>1. part \in {"facts", "fact_links", "queue", "backfill"}
      BY <1>5, <2>2, StatementParts
    <3>2. part = "fact_links" => part \in parts \/ LinksForgone
      BY <1>3, <2>1 DEF LinksForgone
    <3>3. part \in {"facts", "queue"} => part \in parts
      BY <1>4, <2>1
    <3>4. part = "backfill" => file.queued
      BY <1>3, <2>1
    <3> QED
      BY <1>3, <3>1, <3>2, <3>3, <3>4 DEF Has
  <2>3. CASE step = 3
    BY <1>3, <1>4, <1>5, <2>1, <2>3, StatementParts DEF Has
  <2>4. CASE step = 4
    BY <1>3, <1>4, <1>5, <2>1, <2>4, StatementParts DEF Has
  <2>5. CASE step = 5
    BY <1>3, <1>4, <1>5, <2>1, <2>5, StatementParts DEF Has
  <2>6. CASE step = 6
    BY <1>5, <2>6, StatementParts
  <2>7. CASE step = 7
    BY <1>3, <1>4, <1>5, <2>1, <2>7, StatementParts DEF Has
  <2>8. CASE step = 8
    BY <1>3, <1>4, <1>5, <2>1, <2>8, StatementParts DEF Has
  <2> QED
    BY <2>1, <2>2, <2>3, <2>4, <2>5, <2>6, <2>7, <2>8
<1>6. FileHolds
  BY <1>3, <1>5 DEF FileHolds, SchemaVersion
<1>7. \A p \in Openers : opener[p].at = "closed"
  BY DEF SchemaInit
<1>8. \A p \in Openers : OpenerHolds(opener[p])
  BY <1>7 DEF OpenerHolds
<1>9. PartsStay
  <2>1. FileGrew
    BY <1>6 DEF FileHolds, FileGrew, Made
  <2>2. \A p \in Openers : OpenerSaw(opener[p])
    BY <1>7 DEF OpenerSaw
  <2> QED
    BY <2>1, <2>2 DEF SchemaInit, PartsStay
<1> QED
  BY <1>6, <1>8, <1>9 DEF SchemaInit, SchemaInv, InStep

(* Parts are added. *)
LEMMA PartsAdded ==
  ASSUME InStep, origin' = origin, NEW parts, file.parts \subseteq parts,
         file' = [file EXCEPT !.parts = parts]
  PROVE  FileHolds' /\ Onward /\ file'.parts = parts /\ file'.version = file.version
<1>1. /\ DOMAIN file' = FileFields /\ file'.version = file.version /\ file'.parts = parts
      /\ file'.queued = file.queued /\ file'.excludes = file.excludes
  BY DEF InStep, FileHolds, FileFields
<1>2. \A part : Has(part) => Has(part)'
  BY <1>1 DEF Has, LinksForgone
<1>3. FileHolds'
  BY <1>1, <1>2 DEF InStep, FileHolds
<1>4. Onward
  BY <1>1, <1>2 DEF Onward, InStep, FileHolds, SchemaVersion
<1> QED
  BY <1>1, <1>3, <1>4

(* The base schema creates what is missing.                                *)
LEMMA BaseSchemaKeeps ==
  ASSUME InStep, NEW p \in Openers, BaseSchema(p)
  PROVE  InStep'
<1>1. PICK at : at = [at |-> "version"]
  OBVIOUS
<1>2. PICK parts : parts = IF "base" \in file.parts THEN file.parts ELSE file.parts \cup BaseParts
  OBVIOUS
<1>3. file' = [file EXCEPT !.parts = parts] /\ Go(p, at) /\ origin' = origin
  BY <1>1, <1>2 DEF BaseSchema
<1>4. file.parts \subseteq parts /\ "base" \in parts
  BY <1>2 DEF BaseParts
<1>5. FileHolds' /\ Onward /\ file'.parts = parts
  BY <1>3, <1>4, PartsAdded
<1>6. OpenerHolds(at)'
  BY <1>1, <1>4, <1>5 DEF OpenerHolds
<1> QED
  BY <1>3, <1>5, <1>6, GoKeeps

(* The version goes up by one, where what the step makes is there. *)
LEMMA VersionGoesUp ==
  ASSUME InStep, origin' = origin, NEW v \in 1..SchemaVersion, file.version = v - 1,
         file' = [file EXCEPT !.version = v],
         v >= 2 => \A part \in ToSet(Statements[v]) : Has(part)
  PROVE  FileHolds' /\ Onward /\ file'.version = v /\ file'.parts = file.parts
<1>1. /\ DOMAIN file' = FileFields /\ file'.version = v /\ file'.parts = file.parts
      /\ file'.queued = file.queued /\ file'.excludes = file.excludes
  BY DEF InStep, FileHolds, FileFields
<1>2. \A part : Has(part)' = Has(part)
  BY <1>1 DEF Has, LinksForgone
<1>3. v \in 1..8 /\ SchemaVersion = 8
  BY DEF SchemaVersion
<1>4. ~ origin.excludes
  BY <1>3 DEF InStep, FileHolds
<1>5. \A step \in 2..SchemaVersion : step <= v =>
        \A part \in ToSet(Statements[step]) : Has(part)
  <2> SUFFICES ASSUME NEW step \in 2..SchemaVersion, step <= v
               PROVE  \A part \in ToSet(Statements[step]) : Has(part)
    OBVIOUS
  <2>1. step = v \/ step <= file.version
    BY <1>3
  <2> QED
    BY <1>3, <2>1 DEF InStep, FileHolds
<1>6. FileHolds'
  BY <1>1, <1>2, <1>3, <1>4, <1>5 DEF InStep, FileHolds
<1>7. Onward
  BY <1>1, <1>2, <1>3 DEF Onward, InStep, FileHolds
<1> QED
  BY <1>1, <1>6, <1>7

(* A new file is stamped with the first version.                           *)
LEMMA FirstVersionKeeps ==
  ASSUME InStep, NEW p \in Openers, FirstVersion(p)
  PROVE  InStep'
<1>1. PICK at : at = [at |-> "read", step |-> 2]
  OBVIOUS
<1>2. /\ file' = [file EXCEPT !.version = IF file.version = 0 THEN 1 ELSE file.version]
      /\ Go(p, at) /\ origin' = origin /\ opener[p].at = "version"
  BY <1>1 DEF FirstVersion
<1>3. "base" \in file.parts /\ file.version \in 0..8 /\ SchemaVersion = 8
  BY <1>2 DEF InStep, OpenerHolds, FileHolds, SchemaVersion
<1>4. CASE file.version = 0
  <2>1. FileHolds' /\ Onward /\ file'.version = 1 /\ file'.parts = file.parts
    BY <1>2, <1>3, <1>4, VersionGoesUp
  <2>2. OpenerHolds(at)'
    BY <1>1, <1>3, <2>1 DEF OpenerHolds
  <2> QED
    BY <1>2, <2>1, <2>2, GoKeeps
<1>5. CASE file.version # 0
  <2>1. file' = [file EXCEPT !.parts = file.parts]
    BY <1>2, <1>5 DEF InStep, FileHolds, FileFields
  <2>2. FileHolds' /\ Onward /\ file'.version = file.version /\ file'.parts = file.parts
    BY <1>2, <2>1, PartsAdded
  <2>3. OpenerHolds(at)'
    BY <1>1, <1>3, <1>5, <2>2 DEF OpenerHolds
  <2> QED
    BY <1>2, <2>2, <2>3, GoKeeps
<1> QED
  BY <1>4, <1>5

(* An opener knows the version that it reads.                              *)
LEMMA ReadVersionKeeps ==
  ASSUME InStep, NEW p \in Openers, ReadVersion(p)
  PROVE  InStep'
<1>1. PICK me, version : me = opener[p] /\ version = file.version
  OBVIOUS
<1>2. PICK at : at = [at |-> "step", step |-> me.step, version |-> version]
  OBVIOUS
<1>3. me.at = "read" /\ Go(p, at) /\ file' = file /\ origin' = origin
  BY <1>1, <1>2 DEF ReadVersion
<1>4. /\ "base" \in file.parts /\ version \in 0..8 /\ SchemaVersion = 8
      /\ me.step \in 2..6 /\ version >= me.step - 1
  BY <1>1, <1>3 DEF InStep, OpenerHolds, FileHolds, SchemaVersion
<1>5. OpenerHolds(at)
  BY <1>1, <1>2, <1>4 DEF OpenerHolds
<1>6. FileHolds' /\ Onward /\ OpenerHolds(at)'
  BY <1>3, <1>5, FileStays
<1> QED
  BY <1>3, <1>6, GoKeeps

(* After a step comes a reading, the next step, or the open store. *)
LEMMA NextStepIs ==
  ASSUME NEW step \in 2..SchemaVersion, NEW version, NEW at, at = NextStep(step, version)
  PROVE  \/ step = 8 /\ at.at = "open"
         \/ step \in 6..7 /\ at.at = "step" /\ at.step = step + 1 /\ at.version = version
         \/ step \in 2..5 /\ at.at = "read" /\ at.step = step + 1
BY DEF NextStep, SchemaVersion

(* A step begins with all its statements to do.                            *)
LEMMA BeginStepKeeps ==
  ASSUME InStep, NEW p \in Openers, BeginStep(p)
  PROVE  InStep'
<1>1. PICK me : me = opener[p]
  OBVIOUS
<1>2. PICK todo : todo = IF me.step \in Altering /\ ToSet(Statements[me.step]) \subseteq file.parts
                         THEN <<>> ELSE Statements[me.step]
  OBVIOUS
<1>3. PICK at : at = IF me.version < me.step
                     THEN [at |-> "apply", step |-> me.step, version |-> me.version, todo |-> todo]
                     ELSE NextStep(me.step, me.version)
  OBVIOUS
<1>4. me.at = "step" /\ Go(p, at) /\ file' = file /\ origin' = origin
  BY <1>1, <1>2, <1>3 DEF BeginStep
<1>5. /\ "base" \in file.parts /\ file.version \in 0..8 /\ SchemaVersion = 8
      /\ me.step \in 2..8 /\ file.version >= me.step - 1
      /\ me.version \in 0..8 /\ me.version <= file.version
  BY <1>1, <1>4 DEF InStep, OpenerHolds, FileHolds, SchemaVersion
<1>6. CASE me.version < me.step
  <2>1. PICK step : step = me.step
    OBVIOUS
  <2>2. /\ DOMAIN at = {"at", "step", "version", "todo"} /\ at.at = "apply" /\ at.step = step
        /\ at.version = me.version /\ at.todo = todo
    BY <1>3, <1>6, <2>1
  <2>3. todo \in Seq(ToSet(Statements[step]))
    <3>1. Statements[step] \in Seq(ToSet(Statements[step]))
      BY <1>5, <2>1, StatementParts
    <3>2. <<>> \in Seq(ToSet(Statements[step]))
      BY EmptySeq
    <3> QED
      BY <1>2, <2>1, <3>1, <3>2
  <2>4. ASSUME NEW part \in ToSet(Statements[step]) \ ToSet(todo) PROVE Has(part)
    <3>1. step \in {7, 8} /\ part \in file.parts
      BY <1>2, <2>1, <2>4 DEF Altering
    <3>2. part \in {"deleted_at", "excluded_reason"}
      BY <2>4, <3>1, StatementParts
    <3> QED
      BY <3>1, <3>2 DEF Has
  <2>5. OpenerHolds(at)
    BY <1>5, <1>6, <2>1, <2>2, <2>3, <2>4 DEF OpenerHolds
  <2> QED
    BY <1>4, <2>5, FileStays, GoKeeps
<1>7. CASE ~ (me.version < me.step)
  <2>1. at = NextStep(me.step, me.version) /\ file.version >= me.step
    BY <1>3, <1>5, <1>7
  <2>2. OpenerHolds(at)
    BY <1>5, <2>1, NextStepIs DEF OpenerHolds
  <2> QED
    BY <1>4, <2>2, FileStays, GoKeeps
<1> QED
  BY <1>6, <1>7

(* A statement adds its part; the fifth step's drops the reasons of        *)
(* exclusions, where no file has come so far as to have any.               *)
LEMMA ApplyKeeps ==
  ASSUME InStep, NEW p \in Openers, Apply(p), ~ late'
  PROVE  InStep'
<1>1. PICK me : me = opener[p]
  OBVIOUS
<1>2. PICK part, rest, step : part = Head(me.todo) /\ rest = Tail(me.todo) /\ step = me.step
  OBVIOUS
<1>3. /\ me.at = "apply" /\ me.todo # <<>> /\ origin' = origin
      /\ \/ Go(p, [at |-> "closed"]) /\ file' = file
         \/ /\ Go(p, [me EXCEPT !.todo = rest]) /\ file' = Applied(part) /\ file.version < step
  <2>1. /\ me.at = "apply" /\ me.todo # <<>> /\ origin' = origin
        /\ file.version \in 0..8 /\ step \in 2..8
    BY <1>1, <1>2 DEF Apply, InStep, FileHolds, OpenerHolds, SchemaVersion
  <2>2. CASE step \in Altering /\ part \in file.parts
    BY <1>1, <1>2, <2>1, <2>2 DEF Apply
  <2>3. CASE ~ (step \in Altering /\ part \in file.parts)
    <3>1. ~ (file.version >= step)
      BY <1>1, <1>2, <2>3 DEF Apply
    <3>2. Go(p, [me EXCEPT !.todo = rest]) /\ file' = Applied(part)
      BY <1>1, <1>2, <2>3 DEF Apply
    <3> QED
      BY <2>1, <3>1, <3>2
  <2> QED
    BY <2>2, <2>3
<1>4. /\ "base" \in file.parts /\ file.version \in 0..8 /\ SchemaVersion = 8
      /\ step \in 2..8 /\ file.version >= step - 1
      /\ me.version \in 0..8 /\ me.version < step /\ me.version <= file.version
      /\ DOMAIN me = {"at", "step", "version", "todo"}
      /\ me.todo \in Seq(ToSet(Statements[step]))
      /\ \A x \in ToSet(Statements[step]) \ ToSet(me.todo) : Has(x)
  BY <1>1, <1>2, <1>3 DEF InStep, OpenerHolds, FileHolds, SchemaVersion
<1>5. CASE Go(p, [at |-> "closed"]) /\ file' = file
  <2>1. PICK at : at = [at |-> "closed"]
    OBVIOUS
  <2>2. OpenerHolds(at)
    BY <2>1 DEF OpenerHolds
  <2> QED
    BY <1>3, <1>5, <2>1, <2>2, FileStays, GoKeeps
<1>6. CASE Go(p, [me EXCEPT !.todo = rest]) /\ file' = Applied(part) /\ file.version < step
  <2>1. /\ part \in ToSet(Statements[step]) /\ rest \in Seq(ToSet(Statements[step]))
        /\ ToSet(me.todo) = {part} \cup ToSet(rest)
    BY <1>2, <1>3, <1>4, HeadAndTail
  <2>2. PICK at : at = [me EXCEPT !.todo = rest]
    OBVIOUS
  <2>3. /\ DOMAIN at = {"at", "step", "version", "todo"} /\ at.at = "apply" /\ at.step = step
        /\ at.version = me.version /\ at.todo = rest
    BY <1>2, <1>3, <1>4, <2>2
  <2>4. part = "proposed_status" => step = 5
    BY <1>4, <2>1, StepOfPart
  <2>5. ~ origin.excludes
    BY <1>4, <1>6 DEF InStep, FileHolds
  <2>6. /\ DOMAIN file' = FileFields /\ file'.version = file.version
        /\ "base" \in file'.parts
        /\ \A x : Has(x) => Has(x)' \/ (x = "excluded_reason" /\ step = 5)
        /\ Has(part)'
    <3>1. CASE part = "backfill"
      <4>1. /\ DOMAIN file' = FileFields /\ file'.version = file.version
            /\ file'.parts = file.parts /\ file'.queued
        BY <1>6, <3>1 DEF Applied, InStep, FileHolds, FileFields
      <4> QED
        BY <1>3, <1>4, <3>1, <4>1 DEF Has, LinksForgone
    <3>2. CASE part = "proposed_status"
      <4>1. /\ DOMAIN file' = FileFields /\ file'.version = file.version
            /\ file'.parts = (file.parts \cup {part}) \ {"excluded_reason"}
            /\ file'.queued = file.queued
        BY <1>6, <3>2 DEF Applied, InStep, FileHolds, FileFields
      <4> QED
        BY <1>3, <1>4, <2>4, <3>2, <4>1 DEF Has, LinksForgone
    <3>3. CASE part \notin {"backfill", "proposed_status"}
      <4>1. /\ DOMAIN file' = FileFields /\ file'.version = file.version
            /\ file'.parts = file.parts \cup {part} /\ file'.queued = file.queued
        BY <1>6, <3>3 DEF Applied, InStep, FileHolds, FileFields
      <4> QED
        BY <1>3, <1>4, <3>3, <4>1 DEF Has, LinksForgone
    <3> QED
      BY <3>1, <3>2, <3>3
  <2>7. Onward
    BY <1>4, <1>6, <2>6 DEF Onward
  <2>8. FileHolds'
    <3>1. ASSUME NEW k \in 2..SchemaVersion, k <= file.version, NEW x \in ToSet(Statements[k])
          PROVE  Has(x)'
      <4>1. Has(x)
        BY <3>1 DEF InStep, FileHolds
      <4>2. x = "excluded_reason" => k = 8
        BY <3>1, StepOfPart
      <4> QED
        BY <1>4, <1>6, <2>6, <3>1, <4>1, <4>2
    <3> QED
      BY <1>3, <2>5, <2>6, <3>1 DEF InStep, FileHolds
  <2>9. OpenerHolds(at)'
    <3>1. ASSUME NEW x \in ToSet(Statements[step]) \ ToSet(rest) PROVE Has(x)'
      <4>1. x = part \/ Has(x)
        BY <1>4, <2>1, <3>1
      <4>2. x = "excluded_reason" => step = 8
        BY <1>4, <3>1, StepOfPart
      <4> QED
        BY <2>6, <4>1, <4>2
    <3> QED
      BY <1>4, <2>1, <2>3, <2>6, <3>1 DEF OpenerHolds
  <2> QED
    BY <1>6, <2>2, <2>7, <2>8, <2>9, GoKeeps
<1> QED
  BY <1>3, <1>5, <1>6

(* The stamp follows the step's statements.                                *)
LEMMA StampKeeps ==
  ASSUME InStep, NEW p \in Openers, Stamp(p), ~ late'
  PROVE  InStep'
<1>1. PICK me, step : me = opener[p] /\ step = me.step
  OBVIOUS
<1>2. PICK at : at = NextStep(step, me.version)
  OBVIOUS
<1>3. /\ me.at = "apply" /\ me.todo = <<>> /\ origin' = origin
      /\ file' = [file EXCEPT !.version = step] /\ Go(p, at) /\ ~ (file.version >= step)
  BY <1>1, <1>2 DEF Stamp
<1>4. /\ "base" \in file.parts /\ file.version \in 0..8 /\ SchemaVersion = 8
      /\ step \in 2..8 /\ file.version >= step - 1
      /\ me.version \in 0..8 /\ me.version < step
      /\ \A x \in ToSet(Statements[step]) \ ToSet(me.todo) : Has(x)
  BY <1>1, <1>3 DEF InStep, OpenerHolds, FileHolds, SchemaVersion
<1>5. file.version = step - 1 /\ step \in 1..SchemaVersion
  BY <1>3, <1>4
<1>6. \A x \in ToSet(Statements[step]) : Has(x)
  <2>1. ToSet(me.todo) = {}
    BY <1>3 DEF ToSet
  <2> QED
    BY <1>4, <2>1
<1>7. FileHolds' /\ Onward /\ file'.version = step /\ file'.parts = file.parts
  BY <1>3, <1>5, <1>6, VersionGoesUp
<1>8. OpenerHolds(at)'
  BY <1>2, <1>4, <1>7, NextStepIs DEF OpenerHolds
<1> QED
  BY <1>3, <1>7, <1>8, GoKeeps

(* An exclusion is stored where its column is.                             *)
LEMMA StoreExclusionKeeps ==
  ASSUME InStep, NEW p \in Openers, StoreExclusion(p)
  PROVE  InStep'
<1>1. /\ file' = [file EXCEPT !.excludes = TRUE] /\ origin' = [origin EXCEPT !.excludes = TRUE]
      /\ opener' = opener /\ opener[p].at = "open"
  BY DEF StoreExclusion
<1>2. file.version = SchemaVersion
  BY <1>1 DEF InStep, OpenerHolds
<1>3. /\ DOMAIN file' = FileFields /\ file'.version = file.version /\ file'.parts = file.parts
      /\ file'.queued = file.queued /\ file'.excludes
      /\ DOMAIN origin' = FileFields /\ origin'.version = origin.version
      /\ origin'.parts = origin.parts
  BY <1>1 DEF InStep, FileHolds, FileFields
<1>4. \A part : Has(part)' = Has(part)
  BY <1>3 DEF Has, LinksForgone
<1>5. FileHolds'
  BY <1>2, <1>3, <1>4 DEF InStep, FileHolds
<1>6. Onward
  BY <1>2, <1>3, <1>4 DEF Onward, InStep, FileHolds, SchemaVersion
<1> QED
  BY <1>1, <1>5, <1>6, OnwardKeeps DEF InStep

(* An opener may end anywhere.                                             *)
LEMMA EndsKeeps ==
  ASSUME InStep, NEW p \in Openers, Ends(p)
  PROVE  InStep'
<1>1. PICK at : at = [at |-> "closed"]
  OBVIOUS
<1>2. OpenerHolds(at)
  BY <1>1 DEF OpenerHolds
<1>3. Go(p, at) /\ file' = file /\ origin' = origin
  BY <1>1 DEF Ends
<1> QED
  BY <1>2, <1>3, FileStays, GoKeeps

-----------------------------------------------------------------------------
(***************************************************************************)
(* Parts stay, whoever takes a step again                                  *)
(***************************************************************************)

(* The file gains: what was done stays done, but for reasons of exclusions. *)
Gains ==
  /\ "base" \in file.parts => "base" \in file'.parts
  /\ \A part : Has(part) => Has(part)' \/ part = "excluded_reason"

LEMMA GainsKeep ==
  ASSUME Gains
  PROVE  /\ \A k : Made(k) => Made(k)'
         /\ \A me : OpenerSaw(me) => OpenerSaw(me)'
BY DEF Gains, Made, OpenerSaw

(* A process goes from one point to another, and the file gains. *)
LEMMA GoStays ==
  ASSUME PartsStay, NEW p \in Openers, NEW at, Go(p, at), Gains, FileGrew', OpenerSaw(at)'
  PROVE  PartsStay'
<1>1. opener' = [opener EXCEPT ![p] = at]
  BY DEF Go
<1>2. ASSUME NEW q \in Openers PROVE OpenerSaw(opener[q])'
  <2>1. CASE q = p
    BY <1>1, <2>1 DEF PartsStay
  <2>2. CASE q # p
    <3>1. PICK me : me = opener[q]
      OBVIOUS
    <3>2. opener'[q] = me
      BY <1>1, <2>2, <3>1 DEF PartsStay
    <3>3. OpenerSaw(me)'
      BY <3>1, GainsKeep DEF PartsStay
    <3> QED
      BY <3>2, <3>3
  <2> QED
    BY <2>1, <2>2
<1> QED
  BY <1>1, <1>2 DEF PartsStay

(* The file stays, or its version becomes one whose parts are there, or it *)
(* gains parts and queued episodes.                                        *)
LEMMA FileGains ==
  ASSUME FileGrew, origin' = origin, DOMAIN file' = FileFields,
         file'.version \in 0..SchemaVersion, Made(file'.version),
         file.parts \ {"excluded_reason"} \subseteq file'.parts, file.queued => file'.queued
  PROVE  Gains /\ FileGrew'
<1>1. \A part : Has(part) => Has(part)' \/ part = "excluded_reason"
  BY DEF Has, LinksForgone
<1>2. Gains
  BY <1>1 DEF Gains
<1>3. PICK k : k = file'.version
  OBVIOUS
<1>4. Made(k)'
  BY <1>2, <1>3, GainsKeep
<1>5. Made(file.version)'
  BY <1>3, <1>4
<1> QED
  BY <1>2, <1>5 DEF FileGrew

(* The parts of version one are those of no step. *)
LEMMA FewSteps == Made(0) /\ Made(1)
BY DEF Made, SchemaVersion

LEMMA OneMoreStep ==
  ASSUME NEW step \in 2..SchemaVersion, Made(step - 1),
         \A part \in ToSet(Statements[step]) \ {"excluded_reason"} : Has(part)
  PROVE  Made(step)
<1> SUFFICES ASSUME NEW k \in 2..SchemaVersion, k <= step
             PROVE  \A part \in ToSet(Statements[k]) \ {"excluded_reason"} : Has(part)
  BY DEF Made
<1>1. k = step \/ k <= step - 1
  BY DEF SchemaVersion
<1> QED
  BY <1>1 DEF Made

LEMMA BaseSchemaStays ==
  ASSUME PartsStay, NEW p \in Openers, BaseSchema(p)
  PROVE  PartsStay'
<1>1. PICK at : at = [at |-> "version"]
  OBVIOUS
<1>2. PICK parts : parts = IF "base" \in file.parts THEN file.parts ELSE file.parts \cup BaseParts
  OBVIOUS
<1>3. file' = [file EXCEPT !.parts = parts] /\ Go(p, at) /\ origin' = origin
  BY <1>1, <1>2 DEF BaseSchema
<1>4. file.parts \subseteq parts /\ "base" \in parts
  BY <1>2 DEF BaseParts
<1>5. /\ DOMAIN file' = FileFields /\ file'.version = file.version /\ file'.parts = parts
      /\ file'.queued = file.queued
  BY <1>3 DEF PartsStay, FileGrew, FileFields
<1>6. Gains /\ FileGrew'
  BY <1>3, <1>4, <1>5, FileGains DEF PartsStay, FileGrew
<1>7. OpenerSaw(at)'
  BY <1>1, <1>4, <1>5 DEF OpenerSaw
<1> QED
  BY <1>3, <1>6, <1>7, GoStays

LEMMA FirstVersionStays ==
  ASSUME PartsStay, NEW p \in Openers, FirstVersion(p)
  PROVE  PartsStay'
<1>1. PICK at : at = [at |-> "read", step |-> 2]
  OBVIOUS
<1>2. PICK v : v = IF file.version = 0 THEN 1 ELSE file.version
  OBVIOUS
<1>3. /\ file' = [file EXCEPT !.version = v] /\ Go(p, at) /\ origin' = origin
      /\ opener[p].at = "version"
  BY <1>1, <1>2 DEF FirstVersion
<1>4. v \in 0..SchemaVersion /\ Made(v)
  BY <1>2, FewSteps DEF PartsStay, FileGrew, SchemaVersion
<1>5. /\ DOMAIN file' = FileFields /\ file'.version = v /\ file'.parts = file.parts
      /\ file'.queued = file.queued
  BY <1>3 DEF PartsStay, FileGrew, FileFields
<1>6. Gains /\ FileGrew'
  BY <1>3, <1>4, <1>5, FileGains DEF PartsStay
<1>7. OpenerSaw(at)
  BY <1>1, <1>3, FewSteps DEF PartsStay, OpenerSaw
<1>8. OpenerSaw(at)'
  BY <1>6, <1>7, GainsKeep
<1> QED
  BY <1>3, <1>6, <1>8, GoStays

(* The file stays as it is. *)
LEMMA GrewStays ==
  ASSUME FileGrew, file' = file, origin' = origin
  PROVE  Gains /\ FileGrew'
BY FileGains DEF FileGrew

LEMMA ReadVersionStays ==
  ASSUME PartsStay, NEW p \in Openers, ReadVersion(p)
  PROVE  PartsStay'
<1>1. PICK me, version : me = opener[p] /\ version = file.version
  OBVIOUS
<1>2. PICK at : at = [at |-> "step", step |-> me.step, version |-> version]
  OBVIOUS
<1>3. me.at = "read" /\ Go(p, at) /\ file' = file /\ origin' = origin
  BY <1>1, <1>2 DEF ReadVersion
<1>4. /\ "base" \in file.parts /\ version \in 0..SchemaVersion /\ Made(version)
      /\ me.step \in 2..6 /\ Made(me.step - 1)
  BY <1>1, <1>3 DEF PartsStay, OpenerSaw, FileGrew
<1>5. OpenerSaw(at)
  BY <1>2, <1>4 DEF OpenerSaw, SchemaVersion
<1>6. Gains /\ FileGrew'
  BY <1>3, GrewStays DEF PartsStay
<1> QED
  BY <1>3, <1>5, <1>6, GainsKeep, GoStays

(* What comes after a step that is done, or that is not due. *)
LEMMA NextStepSaw ==
  ASSUME NEW step \in 2..SchemaVersion, Made(step), NEW version \in 0..SchemaVersion,
         Made(version), "base" \in file.parts, NEW at, at = NextStep(step, version)
  PROVE  OpenerSaw(at)
<1>1. SchemaVersion = 8
  BY DEF SchemaVersion
<1>2. CASE step = 8
  BY <1>1, <1>2, NextStepIs DEF OpenerSaw
<1>3. CASE step \in 6..7
  BY <1>1, <1>3, NextStepIs DEF OpenerSaw
<1>4. CASE step \in 2..5
  BY <1>1, <1>4, NextStepIs DEF OpenerSaw
<1> QED
  BY <1>1, <1>2, <1>3, <1>4

LEMMA BeginStepStays ==
  ASSUME PartsStay, NEW p \in Openers, BeginStep(p)
  PROVE  PartsStay'
<1>1. PICK me : me = opener[p]
  OBVIOUS
<1>2. PICK todo : todo = IF me.step \in Altering /\ ToSet(Statements[me.step]) \subseteq file.parts
                         THEN <<>> ELSE Statements[me.step]
  OBVIOUS
<1>3. PICK at : at = IF me.version < me.step
                     THEN [at |-> "apply", step |-> me.step, version |-> me.version, todo |-> todo]
                     ELSE NextStep(me.step, me.version)
  OBVIOUS
<1>4. me.at = "step" /\ Go(p, at) /\ file' = file /\ origin' = origin
  BY <1>1, <1>2, <1>3 DEF BeginStep
<1>5. Gains /\ FileGrew'
  BY <1>4, GrewStays DEF PartsStay
<1>6. PICK step : step = me.step
  OBVIOUS
<1>7. /\ "base" \in file.parts /\ step \in 2..SchemaVersion /\ Made(step - 1)
      /\ me.version \in 0..SchemaVersion /\ Made(me.version)
  BY <1>1, <1>4, <1>6 DEF PartsStay, OpenerSaw
<1>8. CASE me.version < me.step
  <2>1. /\ DOMAIN at = {"at", "step", "version", "todo"} /\ at.at = "apply" /\ at.step = step
        /\ at.version = me.version /\ at.todo = todo
    BY <1>3, <1>6, <1>8
  <2>2. todo \in Seq(ToSet(Statements[step]))
    <3>1. Statements[step] \in Seq(ToSet(Statements[step]))
      BY <1>7, StatementParts
    <3>2. <<>> \in Seq(ToSet(Statements[step]))
      BY EmptySeq
    <3> QED
      BY <1>2, <1>6, <3>1, <3>2
  <2>3. ASSUME NEW part \in ToSet(Statements[step]) \ ToSet(todo) PROVE Has(part)
    <3>1. step \in {7, 8} /\ part \in file.parts
      BY <1>2, <1>6, <2>3 DEF Altering
    <3>2. part \in {"deleted_at", "excluded_reason"}
      BY <2>3, <3>1, StatementParts
    <3> QED
      BY <3>1, <3>2 DEF Has
  <2>4. OpenerSaw(at)
    BY <1>7, <2>1, <2>2, <2>3 DEF OpenerSaw
  <2> QED
    BY <1>4, <1>5, <2>4, GainsKeep, GoStays
<1>9. CASE ~ (me.version < me.step)
  <2>1. at = NextStep(step, me.version) /\ me.version >= step
    BY <1>3, <1>6, <1>7, <1>9 DEF SchemaVersion
  <2>2. Made(step)
    BY <1>7, <2>1 DEF Made, SchemaVersion
  <2>3. OpenerSaw(at)
    BY <1>7, <2>1, <2>2, NextStepSaw
  <2> QED
    BY <1>4, <1>5, <2>3, GainsKeep, GoStays
<1> QED
  BY <1>8, <1>9

LEMMA ApplyStays ==
  ASSUME PartsStay, NEW p \in Openers, Apply(p)
  PROVE  PartsStay'
<1>1. PICK me : me = opener[p]
  OBVIOUS
<1>2. PICK part, rest, step : part = Head(me.todo) /\ rest = Tail(me.todo) /\ step = me.step
  OBVIOUS
<1>3. /\ me.at = "apply" /\ me.todo # <<>> /\ origin' = origin
      /\ \/ Go(p, [at |-> "closed"]) /\ file' = file
         \/ Go(p, [me EXCEPT !.todo = rest]) /\ file' = Applied(part)
  BY <1>1, <1>2 DEF Apply
<1>4. /\ "base" \in file.parts /\ step \in 2..SchemaVersion /\ Made(step - 1)
      /\ me.version \in 0..SchemaVersion /\ Made(me.version)
      /\ DOMAIN me = {"at", "step", "version", "todo"}
      /\ me.todo \in Seq(ToSet(Statements[step]))
      /\ \A x \in ToSet(Statements[step]) \ (ToSet(me.todo) \cup {"excluded_reason"}) : Has(x)
  BY <1>1, <1>2, <1>3 DEF PartsStay, OpenerSaw
<1>5. CASE Go(p, [at |-> "closed"]) /\ file' = file
  <2>1. PICK at : at = [at |-> "closed"]
    OBVIOUS
  <2>2. OpenerSaw(at)
    BY <2>1 DEF OpenerSaw
  <2>3. Gains /\ FileGrew'
    BY <1>3, <1>5, GrewStays DEF PartsStay
  <2> QED
    BY <1>5, <2>1, <2>2, <2>3, GainsKeep, GoStays
<1>6. CASE Go(p, [me EXCEPT !.todo = rest]) /\ file' = Applied(part)
  <2>1. /\ part \in ToSet(Statements[step]) /\ rest \in Seq(ToSet(Statements[step]))
        /\ ToSet(me.todo) = {part} \cup ToSet(rest)
    BY <1>2, <1>3, <1>4, HeadAndTail
  <2>2. PICK at : at = [me EXCEPT !.todo = rest]
    OBVIOUS
  <2>3. /\ DOMAIN at = {"at", "step", "version", "todo"} /\ at.at = "apply" /\ at.step = step
        /\ at.version = me.version /\ at.todo = rest
    BY <1>2, <1>3, <1>4, <2>2
  <2>4. /\ DOMAIN file' = FileFields /\ file'.version = file.version
        /\ file.parts \ {"excluded_reason"} \subseteq file'.parts
        /\ file.queued => file'.queued
        /\ part = "backfill" => file'.queued
        /\ part \notin {"backfill"} => part \in file'.parts
    <3>1. CASE part = "backfill"
      BY <1>6, <3>1 DEF Applied, PartsStay, FileGrew, FileFields
    <3>2. CASE part = "proposed_status"
      BY <1>6, <3>2 DEF Applied, PartsStay, FileGrew, FileFields
    <3>3. CASE part \notin {"backfill", "proposed_status"}
      BY <1>6, <3>3 DEF Applied, PartsStay, FileGrew, FileFields
    <3> QED
      BY <3>1, <3>2, <3>3
  <2>5. Gains /\ FileGrew'
    BY <1>3, <2>4, FileGains DEF PartsStay, FileGrew
  <2>6. Has(part)'
    BY <2>4 DEF Has
  <2>7. ASSUME NEW x \in ToSet(Statements[step]) \ (ToSet(rest) \cup {"excluded_reason"})
        PROVE  Has(x)'
    <3>1. x = part \/ Has(x)
      BY <1>4, <2>1, <2>7
    <3> QED
      BY <2>5, <2>6, <2>7, <3>1 DEF Gains
  <2>8. OpenerSaw(at)'
    <3>1. Made(at.step - 1)' /\ Made(at.version)' /\ "base" \in file'.parts
      BY <1>4, <2>3, <2>5, GainsKeep DEF Gains
    <3> QED
      BY <1>4, <2>1, <2>3, <2>7, <3>1 DEF OpenerSaw
  <2> QED
    BY <1>6, <2>2, <2>5, <2>8, GoStays
<1> QED
  BY <1>3, <1>5, <1>6

LEMMA StampStays ==
  ASSUME PartsStay, NEW p \in Openers, Stamp(p)
  PROVE  PartsStay'
<1>1. PICK me, step : me = opener[p] /\ step = me.step
  OBVIOUS
<1>2. PICK at : at = NextStep(step, me.version)
  OBVIOUS
<1>3. /\ me.at = "apply" /\ me.todo = <<>> /\ origin' = origin
      /\ file' = [file EXCEPT !.version = step] /\ Go(p, at)
  BY <1>1, <1>2 DEF Stamp
<1>4. /\ "base" \in file.parts /\ step \in 2..SchemaVersion /\ Made(step - 1)
      /\ me.version \in 0..SchemaVersion /\ Made(me.version)
      /\ \A x \in ToSet(Statements[step]) \ (ToSet(me.todo) \cup {"excluded_reason"}) : Has(x)
  BY <1>1, <1>3 DEF PartsStay, OpenerSaw
<1>5. Made(step)
  <2>1. ToSet(me.todo) = {}
    BY <1>3 DEF ToSet
  <2> QED
    BY <1>4, <2>1, OneMoreStep
<1>6. /\ DOMAIN file' = FileFields /\ file'.version = step /\ file'.parts = file.parts
      /\ file'.queued = file.queued /\ step \in 0..SchemaVersion
  BY <1>3, <1>4 DEF PartsStay, FileGrew, FileFields, SchemaVersion
<1>7. Gains /\ FileGrew'
  BY <1>3, <1>5, <1>6, FileGains DEF PartsStay
<1>8. OpenerSaw(at)
  BY <1>2, <1>4, <1>5, NextStepSaw
<1> QED
  BY <1>3, <1>7, <1>8, GainsKeep, GoStays

LEMMA StoreExclusionStays ==
  ASSUME PartsStay, NEW p \in Openers, StoreExclusion(p)
  PROVE  PartsStay'
<1>1. /\ file' = [file EXCEPT !.excludes = TRUE] /\ origin' = [origin EXCEPT !.excludes = TRUE]
      /\ opener' = opener
  BY DEF StoreExclusion
<1>2. /\ DOMAIN file' = FileFields /\ file'.version = file.version /\ file'.parts = file.parts
      /\ file'.queued = file.queued
      /\ DOMAIN origin' = FileFields /\ origin'.version = origin.version
      /\ origin'.parts = origin.parts
  BY <1>1 DEF PartsStay, FileGrew, FileFields
<1>3. \A part : Has(part)' = Has(part)
  BY <1>2 DEF Has, LinksForgone
<1>4. FileGrew'
  BY <1>2, <1>3 DEF PartsStay, FileGrew, Made
<1>5. Gains
  BY <1>2, <1>3 DEF Gains
<1> QED
  BY <1>1, <1>4, <1>5, GainsKeep DEF PartsStay

LEMMA EndsStays ==
  ASSUME PartsStay, NEW p \in Openers, Ends(p)
  PROVE  PartsStay'
<1>1. PICK at : at = [at |-> "closed"]
  OBVIOUS
<1>2. OpenerSaw(at)
  BY <1>1 DEF OpenerSaw
<1>3. Go(p, at) /\ file' = file /\ origin' = origin
  BY <1>1 DEF Ends
<1>4. Gains /\ FileGrew'
  BY <1>3, GrewStays DEF PartsStay
<1> QED
  BY <1>2, <1>3, <1>4, GainsKeep, GoStays

(* Every step of an opener keeps the invariant.                            *)
LEMMA NextSchemaInv == SchemaInv /\ [SchemaNext]_schemaVars => SchemaInv'
<1> SUFFICES ASSUME SchemaInv, [SchemaNext]_schemaVars PROVE SchemaInv'
  OBVIOUS
<1>1. late' \in BOOLEAN /\ (late => late')
  BY DEF SchemaInv, SchemaNext, schemaVars, BaseSchema, FirstVersion, ReadVersion, BeginStep,
         Apply, Stamp, StoreExclusion, Ends
<1>2. ASSUME ~ late' PROVE InStep'
  <2>1. InStep
    BY <1>1, <1>2 DEF SchemaInv
  <2>2. ASSUME NEW p \in Openers,
               \/ BaseSchema(p) \/ FirstVersion(p) \/ ReadVersion(p) \/ BeginStep(p)
               \/ Apply(p) \/ Stamp(p) \/ StoreExclusion(p) \/ Ends(p)
        PROVE  InStep'
    BY <1>2, <2>1, <2>2, BaseSchemaKeeps, FirstVersionKeeps, ReadVersionKeeps, BeginStepKeeps,
       ApplyKeeps, StampKeeps, StoreExclusionKeeps, EndsKeeps
  <2>3. CASE UNCHANGED schemaVars
    <3>1. file' = file /\ origin' = origin /\ opener' = opener
      BY <2>3 DEF schemaVars
    <3>2. FileHolds' /\ \A me : OpenerHolds(me) => OpenerHolds(me)'
      BY <2>1, <3>1, FileStays
    <3> QED
      BY <2>1, <3>1, <3>2 DEF InStep
  <2> QED
    BY <2>2, <2>3 DEF SchemaNext
<1>3. PartsStay'
  <2>1. PartsStay
    BY DEF SchemaInv
  <2>2. ASSUME NEW p \in Openers,
               \/ BaseSchema(p) \/ FirstVersion(p) \/ ReadVersion(p) \/ BeginStep(p)
               \/ Apply(p) \/ Stamp(p) \/ StoreExclusion(p) \/ Ends(p)
        PROVE  PartsStay'
    BY <2>1, <2>2, BaseSchemaStays, FirstVersionStays, ReadVersionStays, BeginStepStays,
       ApplyStays, StampStays, StoreExclusionStays, EndsStays
  <2>3. CASE UNCHANGED schemaVars
    <3>1. file' = file /\ origin' = origin /\ opener' = opener
      BY <2>3 DEF schemaVars
    <3>2. FileGrew' /\ \A me : OpenerSaw(me) => OpenerSaw(me)'
      BY <2>1, <3>1, GrewStays, GainsKeep DEF PartsStay
    <3> QED
      BY <2>1, <3>1, <3>2 DEF PartsStay
  <2> QED
    BY <2>2, <2>3 DEF SchemaNext
<1> QED
  BY <1>1, <1>2, <1>3 DEF SchemaInv

(* The file has the parts of every step that it or a process has behind    *)
(* it, but for the reasons of exclusions; and until a process takes a step *)
(* that another has stamped, also those, and no process is behind it.      *)
THEOREM SchemaInvariant == SchemaSpec => []SchemaInv
BY InitSchemaInv, NextSchemaInv, PTL DEF SchemaSpec

(* Whatever build wrote the file, and wherever openings of it stopped,     *)
(* however many processes open it at a time: an opened store has every     *)
(* table and column that this build uses, but for fact links in a file of  *)
(* version 2 or more that was found without them, and for the reasons of   *)
(* exclusions once a step was taken a second time; until then the          *)
(* exclusions stay too (db.rs, open).                                      *)
THEOREM OpenedStoresAreWhole == SchemaSpec => []MigrationsKeepEveryColumn
<1> DEFINE Named == {"facts", "queue", "tags", "connector_kind", "proposed_status", "deleted_at"}
<1>1. PartsUsed \subseteq Named \cup {"base", "fact_links", "excluded_reason"}
  <2>1. ASSUME NEW v \in 0..SchemaVersion
        PROVE  PartsOf[v] \subseteq Named \cup {"base", "excluded_reason"}
    BY DEF PartsOf, SchemaVersion
  <2>2. \A x \in BuildParts : \E v \in 0..SchemaVersion : x \in PartsOf[v]
    BY DEF BuildParts
  <2> HIDE DEF Named
  <2>3. "connector_kind" \in Named
    BY DEF Named
  <2> QED
    BY <2>1, <2>2, <2>3 DEF PartsUsed
<1>2. ASSUME SchemaInv PROVE MigrationsKeepEveryColumn
  <2>1. ASSUME NEW p \in Openers, opener[p].at = "open"
        PROVE  /\ PartsUsed \ file.parts \subseteq NeverMade \cup DroppedLate
               /\ file.queued
               /\ ~ late => file.version = SchemaVersion
    <3>1. "base" \in file.parts /\ Made(8)
      BY <1>2, <2>1 DEF SchemaInv, PartsStay, OpenerSaw, SchemaVersion
    <3>2. \A k \in {2, 3, 4, 5, 7, 8} : \A x \in ToSet(Statements[k]) \ {"excluded_reason"} : Has(x)
      BY <3>1 DEF Made, SchemaVersion
    <3>3. /\ Has("facts") /\ Has("fact_links") /\ Has("queue") /\ Has("backfill")
          /\ Has("tags") /\ Has("connector_kind") /\ Has("proposed_status")
          /\ Has("deleted_at")
      BY <3>2, StatementParts
    <3>4. Named \subseteq file.parts /\ file.queued
      BY <3>3 DEF Has
    <3>5. "fact_links" \in file.parts \/ "fact_links" \in NeverMade
      <4>1. "fact_links" \in file.parts \/ LinksForgone
        BY <3>3 DEF Has
      <4>2. origin.version \in 0..8
        BY <1>2 DEF SchemaInv, PartsStay, FileGrew, SchemaVersion
      <4> QED
        BY <4>1, <4>2 DEF LinksForgone, NeverMade
    <3>6. ~ late => "excluded_reason" \in file.parts /\ file.version = SchemaVersion
      <4> SUFFICES ASSUME ~ late
                   PROVE  "excluded_reason" \in file.parts /\ file.version = SchemaVersion
        OBVIOUS
      <4>1. FileHolds /\ file.version = SchemaVersion
        BY <1>2, <2>1 DEF SchemaInv, InStep, OpenerHolds
      <4>2. Has("excluded_reason")
        BY <4>1, StatementParts DEF FileHolds, SchemaVersion
      <4> QED
        BY <4>1, <4>2 DEF Has
    <3>7. "excluded_reason" \in file.parts \/ "excluded_reason" \in DroppedLate
      BY <3>6 DEF DroppedLate
    <3> HIDE DEF Named
    <3> QED
      BY <1>1, <3>1, <3>4, <3>5, <3>6, <3>7
  <2>2. ~ late /\ origin.excludes => file.excludes
    BY <1>2 DEF SchemaInv, InStep, FileHolds
  <2> QED
    BY <2>1, <2>2 DEF MigrationsKeepEveryColumn
<1> QED
  BY <1>2, SchemaInvariant, PTL

-----------------------------------------------------------------------------
(***************************************************************************)
(* The journal: the inductive invariant                                    *)
(***************************************************************************)

(* The rows have ids that were given, each its own, and a report of one    *)
(* source in one space is one row.                                         *)
JournalHolds ==
  /\ lastEvent \in Nat
  /\ \A row \in journal : row.id \in 1..lastEvent
  /\ \A a, b \in journal : a.id = b.id => a = b
  /\ \A a, b \in journal :
       a.source # NoSource /\ a.source = b.source /\ a.space = b.space => a = b

(* A receipt is of a row, until its space is deleted. *)
ReceiptsHold ==
  \A a \in receipts : a[1].space \notin wiped =>
    \E row \in journal : /\ row.id = a[2] /\ row.space = a[1].space
                         /\ row.content = a[1].content /\ row.source = a[1].source

FollowerHolds ==
  /\ DOMAIN follower = {"space", "kind", "after", "seen"}
  /\ follower.after \in 0..lastEvent
  /\ follower.seen \in Seq(ToSet(follower.seen))
  /\ \A page \in ToSet(follower.seen) : \A x \in page : x \in Nat /\ x <= follower.after
  /\ Ascending(follower.seen)
  /\ \A row \in journal : Followed(row) /\ row.id <= follower.after =>
       row.id \in Shown(follower.seen)

(* The walker has been shown what stands and is not below its boundary.    *)
WalkerHolds ==
  /\ DOMAIN walker = {"space", "before", "seen", "standing", "at"}
  /\ walker.before \in Nat
  /\ walker.seen \in Seq(ToSet(walker.seen))
  /\ Descending(walker.seen)
  /\ DOMAIN filed \subseteq 1..MaxEpisodeId
  /\ walker.standing \subseteq Filed(walker.space)
  /\ walker.at \in {"ready", "walking", "done"}
  /\ walker.at = "ready" => walker.before = MaxEpisodeId + 1
  /\ walker.at # "done" =>
       \A page \in ToSet(walker.seen) : \A x \in page : x \in Nat /\ x >= walker.before
  /\ walker.at = "walking" =>
       \A x \in walker.standing : x >= walker.before => x \in Shown(walker.seen)
  /\ walker.at = "done" => walker.standing \subseteq Shown(walker.seen)

LogInv == JournalHolds /\ ReceiptsHold /\ FollowerHolds /\ WalkerHolds

-----------------------------------------------------------------------------
(***************************************************************************)
(* Pages of ids                                                            *)
(***************************************************************************)

(* Some ids have a least one.                                              *)
LEMMA LeastOfIds ==
  ASSUME NEW S, S \subseteq Nat, S # {}
  PROVE  Min(S) \in S /\ \A y \in S : Min(S) <= y
<1>1. PICK R : IsWellFoundedOn(R, Nat) /\ \A m, n \in Nat : m < n => <<m, n>> \in R
  <2> DEFINE R == {mn \in Nat \X Nat : mn[1] < mn[2]}
  <2>1. IsWellFoundedOn(R, Nat)
    BY NatLessThanWellFounded, Zenon DEF OpToRel
  <2>2. \A m, n \in Nat : m < n => <<m, n>> \in R
    OBVIOUS
  <2> QED
    BY <2>1, <2>2
<1>2. IsWellFoundedOn(R, S)
  BY <1>1, IsWellFoundedOnSubset
<1>3. PICK x \in S : \A y \in S : ~ (<<y, x>> \in R)
  BY <1>2, WFMin
<1>4. ASSUME NEW y \in S PROVE x <= y
  <2>1. x \in Nat /\ y \in Nat /\ ~ (y < x)
    BY <1>1, <1>3
  <2> QED
    BY <2>1
<1> QED
  BY <1>4 DEF Min

(* Some ids with a bound have a greatest one.                              *)
LEMMA GreatestOfIds ==
  ASSUME NEW S, S \subseteq Nat, S # {}, NEW n \in Nat, \A y \in S : y <= n
  PROVE  Max(S) \in S /\ \A y \in S : y <= Max(S)
<1>1. PICK T : T = {n - y : y \in S}
  OBVIOUS
<1>2. T \subseteq Nat /\ T # {}
  <2>1. \A y \in S : n - y \in Nat
    OBVIOUS
  <2>2. \A t \in T : \E y \in S : t = n - y
    BY <1>1
  <2>3. \A y \in S : n - y \in T
    BY <1>1
  <2> QED
    BY <2>1, <2>2, <2>3
<1>3. PICK m \in T : \A y \in T : m <= y
  BY <1>2, LeastOfIds
<1>4. PICK x \in S : m = n - x
  BY <1>1, <1>3
<1>5. \A y \in S : n - y \in T
  BY <1>1
<1>6. \A y \in S : y <= x
  BY <1>3, <1>4, <1>5
<1> QED
  BY <1>6 DEF Max

(* The lowest n of some ids have with each id all that are lower.          *)
LEMMA LowestIds ==
  ASSUME NEW n \in Nat \ {0}, NEW S, S \subseteq Nat, IsFiniteSet(S)
  PROVE  /\ Lowest(n, S) \subseteq S /\ IsFiniteSet(Lowest(n, S))
         /\ \A m \in Lowest(n, S), x \in S : x <= m => x \in Lowest(n, S)
         /\ S # {} => Lowest(n, S) # {}
<1>1. Lowest(n, S) \subseteq S
  BY DEF Lowest
<1>2. ASSUME NEW m \in Lowest(n, S), NEW x \in S, x <= m PROVE x \in Lowest(n, S)
  <2>1. PICK A, B : A = {y \in S : y < x} /\ B = {y \in S : y < m}
    OBVIOUS
  <2>2. A \subseteq B /\ B \subseteq S
    <3>1. x \in Nat /\ m \in Nat /\ \A y \in S : y \in Nat
      BY <1>1
    <3>2. /\ \A y \in A : y \in S /\ y < x
          /\ \A y \in S : y < m => y \in B
          /\ B \subseteq S
      BY <2>1
    <3>3. \A y \in S : y < x => y < m
      BY <1>2, <3>1
    <3> QED
      BY <3>2, <3>3
  <2>3. /\ Cardinality(A) \in Nat /\ Cardinality(B) \in Nat
        /\ Cardinality(A) <= Cardinality(B)
    BY <2>2, FS_Subset, FS_CardinalityType
  <2>4. Cardinality(B) < n
    BY <2>1 DEF Lowest
  <2>5. Cardinality(A) < n
    BY <2>3, <2>4
  <2> QED
    BY <2>1, <2>5 DEF Lowest
<1>3. ASSUME S # {} PROVE Lowest(n, S) # {}
  <2>1. PICK x \in S : \A y \in S : x <= y
    BY <1>3, LeastOfIds
  <2>2. {y \in S : y < x} = {}
    <3>1. \A y \in S : ~ (y < x)
      BY <2>1
    <3> QED
      BY <3>1
  <2>3. Cardinality({y \in S : y < x}) < n
    BY <2>2, FS_EmptySet
  <2> QED
    BY <2>3 DEF Lowest
<1> QED
  BY <1>1, <1>2, <1>3, FS_Subset

(* The highest n of some ids are the upper end of them.                    *)
LEMMA HighestIds ==
  ASSUME NEW n \in Nat \ {0}, NEW S, S \subseteq Nat, IsFiniteSet(S),
         NEW top \in Nat, \A y \in S : y <= top
  PROVE  /\ Highest(n, S) \subseteq S /\ IsFiniteSet(Highest(n, S))
         /\ \A m \in Highest(n, S), x \in S : x >= m => x \in Highest(n, S)
         /\ S # {} => Highest(n, S) # {}
<1>1. Highest(n, S) \subseteq S
  BY DEF Highest
<1>2. ASSUME NEW m \in Highest(n, S), NEW x \in S, x >= m PROVE x \in Highest(n, S)
  <2>1. PICK A, B : A = {y \in S : y > x} /\ B = {y \in S : y > m}
    OBVIOUS
  <2>2. A \subseteq B /\ B \subseteq S
    <3>1. x \in Nat /\ m \in Nat /\ \A y \in S : y \in Nat
      BY <1>1
    <3>2. /\ \A y \in A : y \in S /\ y > x
          /\ \A y \in S : y > m => y \in B
          /\ B \subseteq S
      BY <2>1
    <3>3. \A y \in S : y > x => y > m
      BY <1>2, <3>1
    <3> QED
      BY <3>2, <3>3
  <2>3. /\ Cardinality(A) \in Nat /\ Cardinality(B) \in Nat
        /\ Cardinality(A) <= Cardinality(B)
    BY <2>2, FS_Subset, FS_CardinalityType
  <2>4. Cardinality(B) < n
    BY <2>1 DEF Highest
  <2>5. Cardinality(A) < n
    BY <2>3, <2>4
  <2> QED
    BY <2>1, <2>5 DEF Highest
<1>3. ASSUME S # {} PROVE Highest(n, S) # {}
  <2>1. PICK x \in S : \A y \in S : y <= x
    BY <1>3, GreatestOfIds
  <2>2. {y \in S : y > x} = {}
    <3>1. \A y \in S : ~ (y > x)
      BY <2>1
    <3> QED
      BY <3>1
  <2>3. Cardinality({y \in S : y > x}) < n
    BY <2>2, FS_EmptySet
  <2> QED
    BY <2>3 DEF Highest
<1> QED
  BY <1>1, <1>2, <1>3, FS_Subset

(* If no more than n of the highest n + 1 are there, they are all there    *)
(* are.                                                                    *)
LEMMA NoMoreIds ==
  ASSUME NEW n \in Nat \ {0}, NEW S, S \subseteq Nat, IsFiniteSet(S),
         NEW top \in Nat, \A y \in S : y <= top,
         ~ (Cardinality(Highest(n + 1, S)) > n)
  PROVE  Highest(n, Highest(n + 1, S)) = S
<1>1. PICK page : page = Highest(n + 1, S)
  OBVIOUS
<1>2. page \subseteq S /\ IsFiniteSet(page) /\ Cardinality(page) \in Nat /\ Cardinality(page) <= n
  <2>1. n + 1 \in Nat \ {0}
    OBVIOUS
  <2>2. page \subseteq S /\ IsFiniteSet(page)
    BY <1>1, <2>1, HighestIds
  <2> QED
    BY <1>1, <2>2, FS_CardinalityType
<1>3. page = S
  <2> SUFFICES ASSUME page # S PROVE FALSE
    OBVIOUS
  <2>1. S \ page # {} /\ S \ page \subseteq Nat /\ \A y \in S \ page : y <= top
    BY <1>2
  <2>2. PICK x \in S \ page : \A y \in S \ page : y <= x
    BY <2>1, GreatestOfIds
  <2>3. PICK A : A = {y \in S : y > x}
    OBVIOUS
  <2>4. A \subseteq page
    <3>1. \A y \in A : y \in S /\ y > x
      BY <2>3
    <3>2. \A y \in S : y > x => y \in page
      BY <2>2
    <3> QED
      BY <3>1, <3>2
  <2>5. Cardinality(A) \in Nat /\ Cardinality(A) <= Cardinality(page)
    BY <1>2, <2>4, FS_Subset, FS_CardinalityType
  <2>6. ~ (Cardinality(A) < n + 1)
    BY <1>1, <2>2, <2>3 DEF Highest
  <2> QED
    BY <1>2, <2>5, <2>6
<1>4. ASSUME NEW x \in page PROVE x \in Highest(n, page)
  <2>1. PICK A : A = {y \in page : y > x}
    OBVIOUS
  <2>2. A \subseteq page /\ A # page
    BY <1>2, <2>1
  <2>3. Cardinality(A) \in Nat /\ Cardinality(A) <= Cardinality(page)
        /\ Cardinality(A) # Cardinality(page)
    BY <1>2, <2>2, FS_Subset, FS_CardinalityType
  <2>4. Cardinality(A) < n
    BY <1>2, <2>3
  <2> QED
    BY <2>1, <2>4 DEF Highest
<1>5. Highest(n, page) \subseteq page
  BY DEF Highest
<1> QED
  BY <1>1, <1>3, <1>4, <1>5

-----------------------------------------------------------------------------
(***************************************************************************)
(* The journal, step by step                                               *)
(***************************************************************************)

(* The journal is empty at first.                                          *)
LEMMA InitLogInv == LogInit => LogInv
<1> SUFFICES ASSUME LogInit PROVE LogInv
  OBVIOUS
<1>1. ToSet(<<>>) = {} /\ <<>> \in Seq({}) /\ DOMAIN <<>> = {}
  BY DEF ToSet
<1>2. Ascending(<<>>) /\ Descending(<<>>)
  BY <1>1 DEF Ascending, Descending
<1>3. /\ DOMAIN follower = {"space", "kind", "after", "seen"}
      /\ follower.after = 0 /\ follower.seen = <<>>
  BY DEF LogInit
<1>4. /\ DOMAIN walker = {"space", "before", "seen", "standing", "at"}
      /\ walker.before = MaxEpisodeId + 1 /\ walker.seen = <<>> /\ walker.standing = {}
      /\ walker.at = "ready"
  BY DEF LogInit
<1>5. JournalHolds /\ ReceiptsHold
  BY DEF LogInit, JournalHolds, ReceiptsHold
<1>6. FollowerHolds
  BY <1>1, <1>2, <1>3 DEF LogInit, FollowerHolds
<1>7. DOMAIN filed \subseteq 1..MaxEpisodeId /\ MaxEpisodeId + 1 \in Nat
  BY LogAssumption DEF LogInit
<1>8. WalkerHolds
  BY <1>1, <1>2, <1>4, <1>7 DEF WalkerHolds
<1> QED
  BY <1>5, <1>6, <1>8 DEF LogInv

(* What is said of the walker is said of it and of the episodes, and what  *)
(* is said of the follower of it and of the rows.                          *)
LEMMA WalkerStays == WalkerHolds /\ walker' = walker /\ filed' = filed => WalkerHolds'
BY DEF WalkerHolds, Filed

(* The follower is not disturbed by what it does not read.                 *)
LEMMA FollowerStays ==
  FollowerHolds /\ follower' = follower /\ journal' = journal /\ lastEvent' = lastEvent
    => FollowerHolds'
BY DEF FollowerHolds, Followed

(* A report's check writes nothing.                                        *)
LEMMA CheckReportKeeps ==
  ASSUME LogInv, NEW r, CheckReport(r)
  PROVE  LogInv'
BY WalkerStays, FollowerStays DEF LogInv, CheckReport, JournalHolds, ReceiptsHold

(* A row is added, of a report whose source has none in its space.         *)
LEMMA InsertKeeps ==
  ASSUME LogInv, NEW kind, NEW r, Insert(kind, r), {row \in journal : SameReport(row, r)} = {},
         UNCHANGED <<filed, follower, walker, wiped>>
  PROVE  LogInv'
<1>1. PICK new : new = Row(kind, r)
  OBVIOUS
<1>2. /\ new.id = lastEvent + 1 /\ new.source = r.source /\ new.space = r.space
      /\ new.content = r.content
  BY <1>1 DEF Row
<1>3. /\ journal' = journal \cup {new} /\ lastEvent' = lastEvent + 1
      /\ receipts' = receipts \cup {<<r, lastEvent + 1>>}
      /\ filed' = filed /\ follower' = follower /\ walker' = walker /\ wiped' = wiped
      /\ lastEvent \in Nat
  BY <1>1 DEF Insert, LogInv, JournalHolds
<1>4. JournalHolds'
  <2>1. \A row \in journal : row.id \in 1..lastEvent
    BY DEF LogInv, JournalHolds
  <2>2. \A row \in journal : row.id \in 1..(lastEvent + 1) /\ row.id # new.id
    BY <1>2, <1>3, <2>1
  <2>3. new.id \in 1..(lastEvent + 1) /\ lastEvent + 1 \in Nat
    BY <1>2, <1>3
  <2>4. \A row \in journal : ~ (/\ row.source # NoSource /\ row.source = new.source
                                /\ row.space = new.space)
    BY <1>2 DEF SameReport
  <2>5. \A a, b \in journal' : a.id = b.id => a = b
    BY <1>3, <2>2 DEF LogInv, JournalHolds
  <2>6. \A a, b \in journal' :
          a.source # NoSource /\ a.source = b.source /\ a.space = b.space => a = b
    BY <1>3, <2>4 DEF LogInv, JournalHolds
  <2> QED
    BY <1>3, <2>2, <2>3, <2>5, <2>6 DEF JournalHolds
<1>5. ReceiptsHold'
  <2>1. PICK receipt : receipt = <<r, lastEvent + 1>>
    OBVIOUS
  <2>2. receipt[1] = r /\ receipt[2] = lastEvent + 1 /\ receipts' = receipts \cup {receipt}
    BY <1>3, <2>1
  <2> QED
    BY <1>2, <1>3, <2>2 DEF LogInv, ReceiptsHold
<1>6. FollowerHolds'
  <2>1. follower.after \in 0..lastEvent /\ follower.after \in 0..(lastEvent + 1)
    BY <1>3 DEF LogInv, FollowerHolds
  <2>2. ~ (new.id <= follower.after)
    BY <1>2, <1>3, <2>1
  <2> QED
    BY <1>3, <2>1, <2>2 DEF LogInv, FollowerHolds, Followed
<1> QED
  BY <1>3, <1>4, <1>5, <1>6, WalkerStays DEF LogInv

(* A report and its source are appended as one row.                        *)
LEMMA AppendReportKeeps ==
  ASSUME LogInv, NEW r, AppendReport(r)
  PROVE  LogInv'
<1>1. PICK same : same = {row \in journal : SameReport(row, r)}
  OBVIOUS
<1>2. UNCHANGED <<filed, follower, walker, wiped>>
  BY DEF AppendReport
<1>3. CASE same = {} /\ Insert("agent", r)
  BY <1>1, <1>2, <1>3, InsertKeeps
<1>4. CASE ~ (same = {} /\ Insert("agent", r))
  <2>1. /\ receipts' = receipts \cup
             {<<r, row.id>> : row \in {w \in same : w.content = r.content}}
        /\ journal' = journal /\ lastEvent' = lastEvent
    BY <1>1, <1>4 DEF AppendReport
  <2>2. ASSUME NEW a \in receipts' \ receipts
        PROVE  \E row \in journal : /\ row.id = a[2] /\ row.space = a[1].space
                                    /\ row.content = a[1].content /\ row.source = a[1].source
    <3>1. PICK row \in same : row.content = r.content /\ a = <<r, row.id>>
      BY <2>1, <2>2
    <3>2. a[1] = r /\ a[2] = row.id
      BY <3>1
    <3>3. row \in journal /\ row.source = r.source /\ row.space = r.space
      BY <1>1, <3>1 DEF SameReport
    <3> QED
      BY <3>1, <3>2, <3>3
  <2>3. ReceiptsHold'
    BY <1>2, <2>1, <2>2 DEF LogInv, ReceiptsHold
  <2>4. JournalHolds'
    BY <2>1 DEF LogInv, JournalHolds
  <2> QED
    BY <1>2, <2>1, <2>3, <2>4, WalkerStays, FollowerStays DEF LogInv
<1> QED
  BY <1>3, <1>4

(* A recall is appended above every row.                                   *)
LEMMA RecordRecallKeeps ==
  ASSUME LogInv, NEW space, RecordRecall(space)
  PROVE  LogInv'
<1>1. PICK r : r = [space |-> space, source |-> NoSource, content |-> "recall",
                    episode |-> NoEpisodeId]
  OBVIOUS
<1>2. Insert("recall", r) /\ UNCHANGED <<filed, follower, walker, wiped>>
  BY <1>1 DEF RecordRecall
<1>3. {row \in journal : SameReport(row, r)} = {}
  BY <1>1 DEF SameReport
<1> QED
  BY <1>2, <1>3, InsertKeeps

(* A list of anything is a sequence over its own elements; one more makes  *)
(* one element more.                                                       *)
LEMMA OneMore ==
  ASSUME NEW f, f \in Seq(ToSet(f)), NEW x
  PROVE  /\ Append(f, x) \in Seq(ToSet(Append(f, x)))
         /\ ToSet(Append(f, x)) = ToSet(f) \cup {x}
<1> DEFINE S == ToSet(f) \cup {x}
           g == Append(f, x)
<1>1. f \in Seq(S)
  BY SeqMonotonic
<1>2. /\ g \in Seq(S) /\ Len(g) = Len(f) + 1 /\ g[Len(f) + 1] = x
      /\ \A i \in 1..Len(f) : g[i] = f[i]
  BY <1>1, AppendProperties
<1>3. Len(f) \in Nat /\ DOMAIN f = 1..Len(f) /\ DOMAIN g = 1..(Len(f) + 1)
  BY <1>1, <1>2, LenProperties
<1>4. ToSet(g) = S
  BY <1>2, <1>3 DEF ToSet
<1> QED
  BY <1>2, <1>4

(* A page is added after those that were shown.                            *)
LEMMA PageAdded ==
  ASSUME NEW seen, seen \in Seq(ToSet(seen)), NEW page
  PROVE  /\ Append(seen, page) \in Seq(ToSet(Append(seen, page)))
         /\ ToSet(Append(seen, page)) = ToSet(seen) \cup {page}
         /\ \A x : x \in Shown(seen) \/ x \in page => x \in Shown(Append(seen, page))
         /\ (Ascending(seen) /\ \A before \in ToSet(seen) : \A x \in before, y \in page : x < y)
              => Ascending(Append(seen, page))
         /\ (Descending(seen) /\ \A before \in ToSet(seen) : \A x \in before, y \in page : x > y)
              => Descending(Append(seen, page))
<1>1. PICK more : more = Append(seen, page)
  OBVIOUS
<1>2. more \in Seq(ToSet(more)) /\ ToSet(more) = ToSet(seen) \cup {page}
  BY <1>1, OneMore
<1>3. /\ Len(seen) \in Nat /\ DOMAIN seen = 1..Len(seen) /\ DOMAIN more = 1..(Len(seen) + 1)
      /\ more[Len(seen) + 1] = page /\ \A k \in 1..Len(seen) : more[k] = seen[k]
  BY <1>1, AppendProperties, LenProperties
<1>4. \A k \in DOMAIN seen : seen[k] \in ToSet(seen)
  BY DEF ToSet
<1>5. ASSUME NEW j \in DOMAIN more, NEW k \in DOMAIN more, j < k
      PROVE  \/ j \in DOMAIN seen /\ k \in DOMAIN seen /\ more[j] = seen[j] /\ more[k] = seen[k]
             \/ more[j] \in ToSet(seen) /\ more[k] = page
  <2>1. j \in 1..Len(seen) /\ (k \in 1..Len(seen) \/ k = Len(seen) + 1)
    BY <1>3, <1>5
  <2> QED
    BY <1>3, <1>4, <2>1
<1>6. \A x : x \in Shown(seen) \/ x \in page => x \in Shown(more)
  BY <1>2 DEF Shown
<1>7. ASSUME Ascending(seen), \A before \in ToSet(seen) : \A x \in before, y \in page : x < y
      PROVE  Ascending(more)
  BY <1>5, <1>7 DEF Ascending
<1>8. ASSUME Descending(seen), \A before \in ToSet(seen) : \A x \in before, y \in page : x > y
      PROVE  Descending(more)
  BY <1>5, <1>8 DEF Descending
<1> QED
  BY <1>1, <1>2, <1>6, <1>7, <1>8

(* The cursor moves to the last id of the page that is shown: what is up   *)
(* to it and was after the cursor is on the page.                          *)
LEMMA FollowKeeps ==
  ASSUME LogInv, Follow
  PROVE  LogInv'
<1>1. PICK old, rest : /\ old = follower
                       /\ rest = {row.id : row \in {w \in journal :
                                    Followed(w) /\ w.id > follower.after}}
  OBVIOUS
<1>2. PICK page, cut : page = Lowest(LogPage + 1, rest) /\ cut = Lowest(LogPage, page)
  OBVIOUS
<1>3. PICK next : next = NextCursor(page, old.after)
  OBVIOUS
<1>4. PICK new : new = [old EXCEPT !.after = next, !.seen = Append(@, cut)]
  OBVIOUS
<1>5. /\ page # {} /\ follower' = new /\ journal' = journal /\ lastEvent' = lastEvent
      /\ filed' = filed /\ receipts' = receipts /\ walker' = walker /\ wiped' = wiped
  BY <1>1, <1>2, <1>3, <1>4 DEF Follow
<1>6. /\ DOMAIN old = {"space", "kind", "after", "seen"} /\ old.after \in 0..lastEvent
      /\ old.seen \in Seq(ToSet(old.seen)) /\ Ascending(old.seen) /\ lastEvent \in Nat
      /\ \A shown \in ToSet(old.seen) : \A x \in shown : x \in Nat /\ x <= old.after
      /\ \A row \in journal : Followed(row) /\ row.id <= old.after => row.id \in Shown(old.seen)
      /\ \A row \in journal : row.id \in 1..lastEvent
  BY <1>1 DEF LogInv, FollowerHolds, JournalHolds
<1>7. /\ DOMAIN new = DOMAIN old /\ new.space = old.space /\ new.kind = old.kind
      /\ new.after = next /\ new.seen = Append(old.seen, cut)
  BY <1>4, <1>6
<1>8. /\ rest \subseteq 1..lastEvent /\ \A x \in rest : x > old.after
      /\ \A row \in journal : Followed(row) /\ row.id > old.after => row.id \in rest
  BY <1>1, <1>6
<1>9. rest \subseteq Nat /\ IsFiniteSet(rest)
  <2>1. IsFiniteSet(1..lastEvent)
    BY <1>6, FS_Interval
  <2>2. IsFiniteSet(rest)
    BY <1>8, <2>1, FS_Subset
  <2>3. \A x \in 1..lastEvent : x \in Nat
    BY <1>6
  <2> QED
    BY <1>8, <2>2, <2>3
<1>10. LogPage \in Nat \ {0} /\ LogPage + 1 \in Nat \ {0}
  BY LogAssumption
<1>11. /\ page \subseteq rest /\ IsFiniteSet(page)
       /\ \A m \in page, x \in rest : x <= m => x \in page
  BY <1>2, <1>9, <1>10, LowestIds
<1>12. /\ cut \subseteq page /\ cut # {}
       /\ \A m \in cut, x \in page : x <= m => x \in cut
  <2>1. page \subseteq Nat
    BY <1>9, <1>11
  <2> QED
    BY <1>2, <1>5, <1>10, <1>11, <2>1, LowestIds
<1>13. next \in cut /\ \A x \in cut : x <= next
  <2>1. next = Max(cut)
    BY <1>2, <1>3, <1>12 DEF NextCursor
  <2>2. cut \subseteq Nat /\ \A x \in cut : x <= lastEvent
    BY <1>8, <1>9, <1>11, <1>12
  <2> QED
    BY <1>6, <1>12, <2>1, <2>2, GreatestOfIds
<1>14. /\ \A x \in rest : x <= next => x \in cut
       /\ next \in 1..lastEvent /\ next > old.after /\ cut \subseteq rest
  BY <1>8, <1>11, <1>12, <1>13
<1>15. /\ new.seen \in Seq(ToSet(new.seen)) /\ ToSet(new.seen) = ToSet(old.seen) \cup {cut}
       /\ \A x : x \in Shown(old.seen) \/ x \in cut => x \in Shown(new.seen)
       /\ Ascending(new.seen)
  <2>1. \A shown \in ToSet(old.seen) : \A x \in shown, y \in cut : x < y
    <3> SUFFICES ASSUME NEW shown \in ToSet(old.seen), NEW x \in shown, NEW y \in cut
                 PROVE  x < y
      OBVIOUS
    <3>1. x \in Nat /\ x <= old.after /\ y > old.after /\ y \in Nat /\ old.after \in Nat
      BY <1>6, <1>8, <1>9, <1>14
    <3> QED
      BY <3>1
  <2> QED
    BY <1>6, <1>7, <2>1, PageAdded
<1>16. \A shown \in ToSet(new.seen) : \A x \in shown : x \in Nat /\ x <= new.after
  <2> SUFFICES ASSUME NEW shown \in ToSet(new.seen), NEW x \in shown
               PROVE  x \in Nat /\ x <= next
    BY <1>7
  <2>1. CASE shown = cut
    BY <1>9, <1>13, <1>14, <2>1
  <2>2. CASE shown # cut
    <3>1. x \in Nat /\ x <= old.after /\ next \in Nat /\ old.after \in Nat
      BY <1>6, <1>14, <1>15, <2>2
    <3> QED
      BY <1>14, <3>1
  <2> QED
    BY <2>1, <2>2
<1>17. \A row \in journal : Followed(row) /\ row.id <= next => row.id \in Shown(new.seen)
  <2> SUFFICES ASSUME NEW row \in journal, Followed(row), row.id <= next
               PROVE  row.id \in Shown(new.seen)
    OBVIOUS
  <2>1. row.id \in Nat /\ old.after \in Nat
    BY <1>6
  <2>2. CASE row.id <= old.after
    BY <1>6, <1>15, <2>2
  <2>3. CASE row.id > old.after
    BY <1>8, <1>14, <1>15, <2>3
  <2> QED
    BY <2>1, <2>2, <2>3
<1>18. FollowerHolds'
  <2>1. next \in 0..lastEvent
    BY <1>14
  <2>2. \A row : Followed(row)' = Followed(row)
    BY <1>1, <1>5, <1>7 DEF Followed
  <2> QED
    BY <1>5, <1>6, <1>7, <1>15, <1>16, <1>17, <2>1, <2>2 DEF FollowerHolds
<1>19. JournalHolds' /\ ReceiptsHold'
  BY <1>5 DEF LogInv, JournalHolds, ReceiptsHold
<1> QED
  BY <1>5, <1>18, <1>19, WalkerStays DEF LogInv

(* A walk begins above every episode.                                      *)
LEMMA BeginWalkKeeps ==
  ASSUME LogInv, BeginWalk
  PROVE  LogInv'
<1>1. PICK old, standing : old = walker /\ standing = Filed(walker.space)
  OBVIOUS
<1>2. PICK new : new = [old EXCEPT !.at = "walking", !.standing = standing]
  OBVIOUS
<1>3. /\ old.at = "ready" /\ walker' = new /\ follower' = follower /\ journal' = journal
      /\ lastEvent' = lastEvent /\ filed' = filed /\ receipts' = receipts /\ wiped' = wiped
  BY <1>1, <1>2 DEF BeginWalk
<1>4. /\ DOMAIN new = DOMAIN old /\ new.space = old.space /\ new.before = old.before
      /\ new.seen = old.seen /\ new.standing = standing /\ new.at = "walking"
  BY <1>1, <1>2 DEF LogInv, WalkerHolds
<1>5. ASSUME NEW x \in standing PROVE ~ (x >= old.before)
  <2>1. x \in 1..MaxEpisodeId /\ old.before = MaxEpisodeId + 1 /\ MaxEpisodeId \in Nat
    BY <1>1, <1>3, <1>5, LogAssumption DEF LogInv, WalkerHolds, Filed
  <2> QED
    BY <2>1
<1>6. WalkerHolds'
  BY <1>1, <1>3, <1>4, <1>5 DEF LogInv, WalkerHolds, Filed
<1>7. JournalHolds' /\ ReceiptsHold'
  BY <1>3 DEF LogInv, JournalHolds, ReceiptsHold
<1> QED
  BY <1>3, <1>6, <1>7, FollowerStays DEF LogInv

(* The boundary moves to the last id of the page, and the walk is over     *)
(* where the page is all that is left below the boundary.                  *)
LEMMA WalkPageKeeps ==
  ASSUME LogInv, WalkPage
  PROVE  LogInv'
<1>1. PICK old, below : old = walker /\ below = {x \in Filed(walker.space) : x < walker.before}
  OBVIOUS
<1>2. PICK page, cut : page = Highest(LogPage + 1, below) /\ cut = Highest(LogPage, page)
  OBVIOUS
<1>3. PICK before, at : /\ before = IF Cardinality(page) > LogPage THEN Min(cut) ELSE old.before
                        /\ at = IF Cardinality(page) > LogPage THEN "walking" ELSE "done"
  OBVIOUS
<1>4. PICK new : new = [old EXCEPT !.seen = Append(@, cut), !.before = before, !.at = at]
  OBVIOUS
<1>5. /\ old.at = "walking" /\ walker' = new /\ follower' = follower /\ journal' = journal
      /\ lastEvent' = lastEvent /\ filed' = filed /\ receipts' = receipts /\ wiped' = wiped
  BY <1>1, <1>2, <1>3, <1>4 DEF WalkPage
<1>6. /\ DOMAIN old = {"space", "before", "seen", "standing", "at"} /\ old.before \in Nat
      /\ old.seen \in Seq(ToSet(old.seen)) /\ Descending(old.seen)
      /\ DOMAIN filed \subseteq 1..MaxEpisodeId /\ old.standing \subseteq Filed(old.space)
      /\ \A shown \in ToSet(old.seen) : \A x \in shown : x \in Nat /\ x >= old.before
      /\ \A x \in old.standing : x >= old.before => x \in Shown(old.seen)
  BY <1>1, <1>5 DEF LogInv, WalkerHolds
<1>7. /\ DOMAIN new = DOMAIN old /\ new.space = old.space /\ new.before = before
      /\ new.seen = Append(old.seen, cut) /\ new.standing = old.standing /\ new.at = at
  BY <1>4, <1>6
<1>8. /\ below \subseteq Filed(old.space) /\ \A x \in below : x < old.before
      /\ \A x \in Filed(old.space) : x < old.before => x \in below
  BY <1>1
<1>9. below \subseteq 1..MaxEpisodeId /\ MaxEpisodeId \in Nat
  BY <1>6, <1>8, LogAssumption DEF Filed
<1>10. below \subseteq Nat /\ IsFiniteSet(below) /\ \A x \in below : x <= MaxEpisodeId
  <2>1. IsFiniteSet(1..MaxEpisodeId)
    BY <1>9, FS_Interval
  <2>2. IsFiniteSet(below)
    BY <1>9, <2>1, FS_Subset
  <2>3. \A x \in 1..MaxEpisodeId : x \in Nat /\ x <= MaxEpisodeId
    BY <1>9
  <2> QED
    BY <1>9, <2>2, <2>3
<1>11. LogPage \in Nat \ {0} /\ LogPage + 1 \in Nat \ {0}
  BY LogAssumption
<1>12. /\ page \subseteq below /\ IsFiniteSet(page)
       /\ \A m \in page, x \in below : x >= m => x \in page
  BY <1>2, <1>9, <1>10, <1>11, HighestIds
<1>13. /\ cut \subseteq page /\ (page # {} => cut # {})
       /\ \A m \in cut, x \in page : x >= m => x \in cut
  <2>1. page \subseteq Nat /\ \A x \in page : x <= MaxEpisodeId
    BY <1>10, <1>12
  <2> QED
    BY <1>2, <1>9, <1>11, <1>12, <2>1, HighestIds
<1>14. /\ new.seen \in Seq(ToSet(new.seen)) /\ ToSet(new.seen) = ToSet(old.seen) \cup {cut}
       /\ \A x : x \in Shown(old.seen) \/ x \in cut => x \in Shown(new.seen)
       /\ Descending(new.seen)
  <2>1. \A shown \in ToSet(old.seen) : \A x \in shown, y \in cut : x > y
    <3> SUFFICES ASSUME NEW shown \in ToSet(old.seen), NEW x \in shown, NEW y \in cut
                 PROVE  x > y
      OBVIOUS
    <3>1. x \in Nat /\ x >= old.before /\ y < old.before /\ y \in Nat /\ old.before \in Nat
      BY <1>6, <1>8, <1>10, <1>12, <1>13
    <3> QED
      BY <3>1
  <2> QED
    BY <1>6, <1>7, <2>1, PageAdded
<1>15. \A x \in old.standing : x \in Nat /\ x \in Filed(old.space)
  BY <1>6, <1>9 DEF Filed
<1>16. WalkerHolds'
  <2>1. CASE Cardinality(page) > LogPage
    <3>1. page # {}
      BY <1>11, <2>1, FS_EmptySet
    <3>2. before \in cut /\ \A x \in cut : before <= x
      <4>1. cut \subseteq Nat /\ cut # {}
        BY <1>10, <1>12, <1>13, <3>1
      <4> QED
        BY <1>3, <2>1, <4>1, LeastOfIds
    <3>3. at = "walking" /\ before \in Nat /\ before < old.before
      BY <1>3, <1>8, <1>10, <1>12, <1>13, <2>1, <3>2
    <3>4. ASSUME NEW x \in old.standing, x >= before PROVE x \in Shown(new.seen)
      <4>1. CASE x >= old.before
        BY <1>6, <1>14, <4>1
      <4>2. CASE ~ (x >= old.before)
        <5>1. x \in below
          BY <1>6, <1>8, <1>15, <4>2
        <5>2. x \in cut
          BY <1>12, <1>13, <3>2, <3>4, <5>1
        <5> QED
          BY <1>14, <5>2
      <4> QED
        BY <4>1, <4>2
    <3>5. ASSUME NEW shown \in ToSet(new.seen), NEW x \in shown PROVE x \in Nat /\ x >= before
      <4>1. CASE shown = cut
        BY <1>10, <1>12, <1>13, <3>2, <3>5, <4>1
      <4>2. CASE shown # cut
        <5>1. x \in Nat /\ x >= old.before
          BY <1>6, <1>14, <3>5, <4>2
        <5> QED
          BY <1>6, <3>3, <5>1
      <4> QED
        BY <4>1, <4>2
    <3> QED
      BY <1>5, <1>6, <1>7, <1>14, <3>3, <3>4, <3>5 DEF WalkerHolds, Filed
  <2>2. CASE ~ (Cardinality(page) > LogPage)
    <3>1. cut = below
      BY <1>2, <1>9, <1>10, <1>11, <2>2, NoMoreIds
    <3>2. at = "done" /\ before = old.before
      BY <1>3, <2>2
    <3>3. ASSUME NEW x \in old.standing PROVE x \in Shown(new.seen)
      <4>1. x >= old.before \/ x < old.before
        BY <1>6, <1>15
      <4> QED
        BY <1>6, <1>8, <1>14, <1>15, <3>1, <4>1
    <3> QED
      BY <1>5, <1>6, <1>7, <1>14, <3>2, <3>3 DEF WalkerHolds, Filed
  <2> QED
    BY <2>1, <2>2
<1>17. JournalHolds' /\ ReceiptsHold'
  BY <1>5 DEF LogInv, JournalHolds, ReceiptsHold
<1> QED
  BY <1>5, <1>16, <1>17, FollowerStays DEF LogInv

(* A new episode's id is none that is used. *)
LEMMA FileEpisodeKeeps ==
  ASSUME LogInv, NEW space, FileEpisode(space)
  PROVE  LogInv'
<1>1. PICK new : new = 1 + Max({0} \cup DOMAIN filed)
  OBVIOUS
<1>2. /\ new <= MaxEpisodeId
      /\ filed' = [y \in DOMAIN filed \cup {new} |-> IF y = new THEN space ELSE filed[y]]
      /\ walker' = walker /\ follower' = follower /\ journal' = journal
      /\ lastEvent' = lastEvent /\ receipts' = receipts /\ wiped' = wiped
  BY <1>1 DEF FileEpisode
<1>3. DOMAIN filed \subseteq 1..MaxEpisodeId /\ MaxEpisodeId \in Nat
  BY LogAssumption DEF LogInv, WalkerHolds
<1>4. new \in 1..MaxEpisodeId /\ new \notin DOMAIN filed
  <2>1. PICK S : S = {0} \cup DOMAIN filed
    OBVIOUS
  <2>2. S \subseteq Nat /\ S # {} /\ \A y \in S : y <= MaxEpisodeId
    BY <1>3, <2>1
  <2>3. Max(S) \in S /\ \A y \in S : y <= Max(S)
    BY <1>3, <2>2, GreatestOfIds
  <2>4. Max(S) \in Nat /\ new = 1 + Max(S)
    BY <1>1, <2>1, <2>2, <2>3
  <2>5. new \notin S
    BY <2>3, <2>4
  <2> QED
    BY <1>2, <1>3, <2>1, <2>4, <2>5
<1>5. /\ DOMAIN filed' \subseteq 1..MaxEpisodeId
      /\ \A x \in DOMAIN filed : x \in DOMAIN filed' /\ filed'[x] = filed[x]
  BY <1>2, <1>3, <1>4
<1>6. WalkerHolds'
  BY <1>2, <1>5 DEF LogInv, WalkerHolds, Filed
<1>7. JournalHolds' /\ ReceiptsHold'
  BY <1>2 DEF LogInv, JournalHolds, ReceiptsHold
<1> QED
  BY <1>2, <1>6, <1>7, FollowerStays DEF LogInv

(* A space that goes takes its rows along.                                 *)
LEMMA WipeSpaceKeeps ==
  ASSUME LogInv, NEW space, WipeSpace(space)
  PROVE  LogInv'
<1>1. PICK old, standing :
        old = walker /\ standing = IF space = walker.space THEN {} ELSE walker.standing
  OBVIOUS
<1>2. PICK new : new = [old EXCEPT !.standing = standing]
  OBVIOUS
<1>3. /\ wiped' = wiped \cup {space}
      /\ journal' = {row \in journal : row.space # space}
      /\ filed' = [x \in DOMAIN filed \ Filed(space) |-> filed[x]]
      /\ walker' = new /\ follower' = follower
      /\ lastEvent' = lastEvent /\ receipts' = receipts
  BY <1>1, <1>2 DEF WipeSpace
<1>4. /\ DOMAIN new = DOMAIN old /\ new.space = old.space /\ new.before = old.before
      /\ new.seen = old.seen /\ new.standing = standing /\ new.at = old.at
  BY <1>1, <1>2 DEF LogInv, WalkerHolds
<1>5. JournalHolds' /\ FollowerHolds'
  BY <1>3 DEF LogInv, JournalHolds, FollowerHolds, Followed
<1>6. ReceiptsHold'
  BY <1>3 DEF LogInv, ReceiptsHold
<1>7. standing \subseteq old.standing /\ standing \subseteq Filed(old.space)'
  BY <1>1, <1>3 DEF LogInv, WalkerHolds, Filed
<1>8. DOMAIN filed' \subseteq DOMAIN filed
  BY <1>3
<1>9. WalkerHolds'
  BY <1>1, <1>3, <1>4, <1>7, <1>8 DEF LogInv, WalkerHolds, Filed
<1> QED
  BY <1>5, <1>6, <1>9 DEF LogInv

(* Every step of the journal's writers and readers keeps the invariant.    *)
LEMMA NextLogInv == LogInv /\ [LogNext]_logVars => LogInv'
<1> SUFFICES ASSUME LogInv, [LogNext]_logVars PROVE LogInv'
  OBVIOUS
<1>1. CASE LogNext
  BY <1>1, CheckReportKeeps, AppendReportKeeps, RecordRecallKeeps, FollowKeeps, BeginWalkKeeps,
     WalkPageKeeps, FileEpisodeKeeps, WipeSpaceKeeps DEF LogNext
<1>2. CASE UNCHANGED logVars
  <2>1. /\ walker' = walker /\ follower' = follower /\ journal' = journal
        /\ lastEvent' = lastEvent /\ filed' = filed /\ receipts' = receipts /\ wiped' = wiped
    BY <1>2 DEF logVars
  <2>2. JournalHolds' /\ ReceiptsHold'
    BY <2>1 DEF LogInv, JournalHolds, ReceiptsHold
  <2> QED
    BY <2>1, <2>2, WalkerStays, FollowerStays DEF LogInv
<1> QED
  BY <1>1, <1>2

(* Rows, receipts, the follower's pages and the walker's stay what they    *)
(* are said to be.                                                         *)
THEOREM LogInvariant == LogSpec => []LogInv
BY InitLogInv, NextLogInv, PTL DEF LogSpec

(* A report is recorded once however often it is sent, the reader that     *)
(* follows the journal is shown every event up to its cursor, in order and *)
(* once, and the reader that walks the episodes each that stands (evidence *)
(* .rs: append_evidence, evidence_events, source_page): for any size of a  *)
(* page, while events and episodes arrive and spaces are deleted.          *)
THEOREM ReadersMissNothing == LogSpec => []JournalIsReadAsWritten
<1>1. ASSUME LogInv PROVE JournalIsReadAsWritten
  <2>1. ASSUME NEW a \in receipts, NEW b \in receipts, a[1].source # NoSource,
               a[1].source = b[1].source, a[1].space = b[1].space, a[1].space \notin wiped
        PROVE  a[2] = b[2] /\ a[1].content = b[1].content
    <3>1. PICK x \in journal : /\ x.id = a[2] /\ x.space = a[1].space
                               /\ x.content = a[1].content /\ x.source = a[1].source
      BY <1>1, <2>1 DEF LogInv, ReceiptsHold
    <3>2. PICK y \in journal : /\ y.id = b[2] /\ y.space = b[1].space
                               /\ y.content = b[1].content /\ y.source = b[1].source
      BY <1>1, <2>1 DEF LogInv, ReceiptsHold
    <3>3. x = y
      BY <1>1, <2>1, <3>1, <3>2 DEF LogInv, JournalHolds
    <3> QED
      BY <3>1, <3>2, <3>3
  <2>2. \A a \in receipts : a[1].space \notin wiped =>
          \E row \in journal :
            row.id = a[2] /\ row.space = a[1].space /\ row.content = a[1].content
    BY <1>1 DEF LogInv, ReceiptsHold
  <2> QED
    BY <1>1, <2>1, <2>2 DEF JournalIsReadAsWritten, LogInv, FollowerHolds, WalkerHolds
<1> QED
  BY <1>1, LogInvariant, PTL

-----------------------------------------------------------------------------
(***************************************************************************)
(* Links between facts                                                     *)
(***************************************************************************)

(* A link that link_facts has checked.                                     *)
Checked == {call \in Calls : Sound(call)}

Walking == [at : {"walk"}, call : Checked, seen : SUBSET LinkedFacts,
            frontier : SUBSET LinkedFacts]

Inserting == [at : {"insert"}, call : Checked, seen : SUBSET LinkedFacts,
              frontier : SUBSET LinkedFacts]

LinksTypeOK ==
  /\ links \subseteq Checked
  /\ linking \in [Linkers -> {NotLinking} \cup Walking \cup Inserting]
  /\ crossed \in BOOLEAN

(* One link of a kind; and dependencies, and only these, are walked.       *)
LinksAreKept ==
  /\ \A a, b \in links : Same(a, b) => a = b
  /\ \A p \in Linkers : linking[p].at # "idle" =>
       (linking[p].at = "walk" <=> linking[p].call.kind \in DependencyKinds)

(* What depends directly on what by the links of L, and that nothing       *)
(* depends on itself.                                                      *)
DependsIn(L, f) == {link.to : link \in {k \in L : k.from = f /\ k.kind \in DependencyKinds}}

Acyclic(L) ==
  ~ \E S \in SUBSET LinkedFacts : S # {} /\ \A f \in S : DependsIn(L, f) \cap S # {}

(* What a walk has shown: all that the target depends on through the facts *)
(* it has read is seen, and the link's own fact is not among it.           *)
Explored(L, walk) ==
  /\ walk.call.to \in walk.seen
  /\ walk.call.from \notin walk.seen
  /\ \A f \in walk.seen \ walk.frontier : DependsIn(L, f) \subseteq walk.seen

LinksInv ==
  /\ LinksTypeOK
  /\ LinksAreKept
  /\ ~ crossed =>
       /\ Acyclic(links)
       /\ \A p \in Linkers : linking[p].at = "walk" => Explored(links, linking[p])

-----------------------------------------------------------------------------
(***************************************************************************)
(* Dependencies                                                            *)
(***************************************************************************)

(* A link that is no dependency changes no dependency; one that is adds    *)
(* its target to what its fact depends on.                                 *)
LEMMA AddDependency ==
  ASSUME NEW L, NEW call, NEW f
  PROVE  /\ call.kind \notin DependencyKinds => DependsIn(L \cup {call}, f) = DependsIn(L, f)
         /\ f # call.from => DependsIn(L \cup {call}, f) = DependsIn(L, f)
         /\ DependsIn(L \cup {call}, f) \subseteq DependsIn(L, f) \cup {call.to}
BY DEF DependsIn

(* The heart of link_facts: where everything that the target depends on    *)
(* was seen, and the link's own fact was not, the link closes no circle.   *)
(* A circle with the link in it would have a part among the facts seen,    *)
(* and that part would be a circle without it.                             *)
LEMMA NoCircleCloses ==
  ASSUME NEW L, NEW call, NEW seen, call.to \in seen, call.from \notin seen,
         \A f \in seen : DependsIn(L, f) \subseteq seen, Acyclic(L)
  PROVE  Acyclic(L \cup {call})
<1> SUFFICES ASSUME NEW S \in SUBSET LinkedFacts, S # {},
                    \A f \in S : DependsIn(L \cup {call}, f) \cap S # {}
             PROVE  FALSE
  BY DEF Acyclic
<1>1. CASE S \cap seen # {}
  <2>1. \A f \in S \cap seen : DependsIn(L, f) \cap (S \cap seen) # {}
    <3> TAKE f \in S \cap seen
    <3>1. DependsIn(L \cup {call}, f) = DependsIn(L, f)
      BY AddDependency
    <3> QED
      BY <3>1
  <2>2. S \cap seen \in SUBSET LinkedFacts
    OBVIOUS
  <2> QED
    BY <1>1, <2>1, <2>2 DEF Acyclic
<1>2. CASE S \cap seen = {}
  <2>1. \A f \in S : DependsIn(L, f) \cap S # {}
    <3> TAKE f \in S
    <3>1. DependsIn(L \cup {call}, f) \subseteq DependsIn(L, f) \cup {call.to}
      BY AddDependency
    <3>2. PICK g \in DependsIn(L \cup {call}, f) \cap S : TRUE
      OBVIOUS
    <3>3. g # call.to
      BY <1>2, <3>2
    <3> QED
      BY <3>1, <3>2, <3>3
  <2> QED
    BY <2>1 DEF Acyclic
<1> QED
  BY <1>1, <1>2

-----------------------------------------------------------------------------
(***************************************************************************)
(* The steps of link_facts                                                 *)
(***************************************************************************)

(* What the type says of a call that is being checked.                     *)
LEMMA CheckingType ==
  ASSUME LinksTypeOK, NEW p \in Linkers, linking[p].at # "idle"
  PROVE  /\ linking[p] \in Walking \cup Inserting
         /\ linking[p].call \in Calls /\ Sound(linking[p].call)
         /\ linking[p].seen \subseteq LinkedFacts /\ linking[p].frontier \subseteq LinkedFacts
         /\ linking[p].at \in {"walk", "insert"}
BY DEF LinksTypeOK, Walking, Inserting, Checked, NotLinking

(* A stored link joins facts of the space.                                 *)
LEMMA DependsOnLinked ==
  ASSUME LinksTypeOK, NEW f
  PROVE  /\ DependsDirectly(f) = DependsIn(links, f)
         /\ DependsIn(links, f) \subseteq LinkedFacts
BY DEF LinksTypeOK, Checked, Sound, DependsDirectly, DependsIn

(* The calls that are not p's, when only p's changes.                      *)
LEMMA OthersStay ==
  ASSUME LinksTypeOK, NEW p \in Linkers, NEW walk,
         linking' = [linking EXCEPT ![p] = walk]
  PROVE  linking'[p] = walk /\ \A q \in Linkers \ {p} : linking'[q] = linking[q]
BY DEF LinksTypeOK

(* A call that is over, by a refusal, a failure or its insertion, leaves   *)
(* nothing behind; and what else was walked is shown as before, as long as *)
(* the links stay.                                                         *)
LEMMA EndsQuietly ==
  ASSUME LinksInv, NEW p \in Linkers,
         linking' = [linking EXCEPT ![p] = NotLinking], UNCHANGED <<links, crossed>>
  PROVE  LinksInv'
<1>1. LinksTypeOK /\ LinksAreKept
  BY DEF LinksInv
<1>2. /\ linking'[p] = NotLinking /\ NotLinking.at = "idle"
      /\ \A q \in Linkers \ {p} : linking'[q] = linking[q]
  BY <1>1, OthersStay DEF NotLinking
<1>3. LinksTypeOK'
  BY <1>1 DEF LinksTypeOK
<1>4. LinksAreKept'
  BY <1>1, <1>2 DEF LinksAreKept
<1>5. ASSUME ~ crossed
      PROVE  /\ Acyclic(links)
             /\ \A q \in Linkers : linking'[q].at = "walk" => Explored(links, linking'[q])
  BY <1>2, <1>5 DEF LinksInv
<1> QED
  BY <1>3, <1>4, <1>5 DEF LinksInv

(* A call whose facts, quote and link are in order begins its walk at the  *)
(* target, of which nothing is shown yet.                                  *)
LEMMA BeginLinkStep ==
  ASSUME LinksInv, NEW p \in Linkers, NEW call \in LinkCalls, BeginLink(p, call)
  PROVE  LinksInv'
<1> DEFINE walk == [at |-> IF call.kind \in DependencyKinds THEN "walk" ELSE "insert",
                    call |-> call, seen |-> {call.to}, frontier |-> {call.to}]
<1>1. /\ linking' = [linking EXCEPT ![p] = walk] /\ links' = links /\ crossed' = crossed
      /\ Sound(call) /\ call \in Calls
  BY LinkCallsAssumption DEF BeginLink
<1>2. LinksTypeOK /\ LinksAreKept
  BY DEF LinksInv
<1>3. /\ walk \in Walking \cup Inserting /\ walk.call = call
      /\ walk.at = "walk" <=> call.kind \in DependencyKinds
      /\ walk.seen = {call.to} /\ walk.frontier = {call.to}
  BY <1>1 DEF Walking, Inserting, Checked, Sound
<1>4. call.to # call.from
  BY <1>1 DEF Sound
<1> HIDE DEF walk
<1>5. linking'[p] = walk /\ \A q \in Linkers \ {p} : linking'[q] = linking[q]
  BY <1>1, <1>2, OthersStay
<1>6. LinksTypeOK'
  BY <1>1, <1>2, <1>3 DEF LinksTypeOK
<1>7. LinksAreKept'
  BY <1>1, <1>2, <1>3, <1>5 DEF LinksAreKept
<1>8. Explored(links, walk)
  BY <1>3, <1>4 DEF Explored
<1>9. ASSUME ~ crossed
      PROVE  /\ Acyclic(links)
             /\ \A q \in Linkers : linking'[q].at = "walk" => Explored(links, linking'[q])
  <2>1. Acyclic(links)
    BY <1>9 DEF LinksInv
  <2> SUFFICES ASSUME NEW q \in Linkers, linking'[q].at = "walk"
               PROVE  Explored(links, linking'[q])
    BY <2>1
  <2>2. CASE q = p
    BY <1>5, <1>8, <2>2
  <2>3. CASE q # p
    BY <1>5, <1>9, <2>3 DEF LinksInv
  <2> QED
    BY <2>2, <2>3
<1> QED
  BY <1>1, <1>6, <1>7, <1>9 DEF LinksInv

(* One fact of the walk.                                                   *)
LEMMA WalkStep ==
  ASSUME LinksInv, NEW p \in Linkers, NEW f \in LinkedFacts, Walk(p, f)
  PROVE  LinksInv'
<1> DEFINE walk == linking[p]
           next == Further(walk, f)
           step == [walk EXCEPT !.seen = @ \cup next, !.frontier = (@ \ {f}) \cup next]
<1>1. /\ walk.at = "walk" /\ f \in walk.frontier /\ links' = links /\ crossed' = crossed
      /\ \/ linking' = [linking EXCEPT ![p] = NotLinking]
         \/ walk.call.from \notin DependsDirectly(f) /\ linking' = [linking EXCEPT ![p] = step]
  BY DEF Walk
<1>2. LinksTypeOK /\ LinksAreKept
  BY DEF LinksInv
<1>3. walk \in Walking
  BY <1>1, <1>2, CheckingType DEF Inserting
<1>4. CASE linking' = [linking EXCEPT ![p] = NotLinking]
  BY <1>1, <1>4, EndsQuietly
<1>5. CASE walk.call.from \notin DependsDirectly(f) /\ linking' = [linking EXCEPT ![p] = step]
  <2>1. /\ DependsDirectly(f) = DependsIn(links, f) /\ DependsIn(links, f) \subseteq LinkedFacts
        /\ next = DependsDirectly(f) \ walk.seen
    BY <1>2, DependsOnLinked DEF Further
  <2>2. /\ step \in Walking /\ step.at = "walk" /\ step.call = walk.call
        /\ step.seen = walk.seen \cup next
        /\ step.frontier = (walk.frontier \ {f}) \cup next
    BY <1>3, <2>1 DEF Walking
  <2>3. Explored(links, walk) => Explored(links, step)
    BY <1>5, <2>1, <2>2 DEF Explored
  <2> HIDE DEF step
  <2>4. linking'[p] = step /\ \A q \in Linkers \ {p} : linking'[q] = linking[q]
    BY <1>2, <1>5, OthersStay
  <2>5. LinksTypeOK'
    BY <1>1, <1>2, <1>5, <2>2 DEF LinksTypeOK
  <2>6. LinksAreKept'
    BY <1>1, <1>2, <2>2, <2>4 DEF LinksAreKept
  <2>7. ASSUME ~ crossed
        PROVE  /\ Acyclic(links)
             /\ \A q \in Linkers : linking'[q].at = "walk" => Explored(links, linking'[q])
    <3>1. Acyclic(links)
      BY <2>7 DEF LinksInv
    <3> SUFFICES ASSUME NEW q \in Linkers, linking'[q].at = "walk"
                 PROVE  Explored(links, linking'[q])
      BY <3>1
    <3>2. CASE q = p
      BY <1>1, <2>3, <2>4, <2>7, <3>2 DEF LinksInv
    <3>3. CASE q # p
      BY <2>4, <2>7, <3>3 DEF LinksInv
    <3> QED
      BY <3>2, <3>3
  <2> QED
    BY <1>1, <2>5, <2>6, <2>7 DEF LinksInv
<1> QED
  BY <1>1, <1>4, <1>5

(* The link is stored: as a circle's last only where the walk had missed a *)
(* dependency, which another call must then have stored meanwhile.         *)
LEMMA InsertLinkStep ==
  ASSUME LinksInv, NEW p \in Linkers, InsertLink(p)
  PROVE  LinksInv'
<1> DEFINE walk == linking[p]
           call == walk.call
<1>1. LinksTypeOK /\ LinksAreKept
  BY DEF LinksInv
<1>2. /\ walk.at = "insert" \/ (walk.at = "walk" /\ walk.frontier = {})
      /\ linking' = [linking EXCEPT ![p] = NotLinking]
  BY DEF InsertLink
<1>3. call \in Checked /\ (walk.at = "walk" <=> call.kind \in DependencyKinds)
  BY <1>1, <1>2, CheckingType DEF LinksAreKept, Checked
<1>4. linking'[p] = NotLinking /\ \A q \in Linkers \ {p} : linking'[q] = linking[q]
  BY <1>1, <1>2, OthersStay
<1>5. \/ links' = links
      \/ links' = links \cup {call} /\ ~ \E link \in links : Same(link, call)
  BY DEF InsertLink
<1>6. crossed' = (crossed \/ (call.kind \in DependencyKinds
                              /\ \E q \in Linkers \ {p} : linking[q].at = "walk"))
  BY DEF InsertLink
<1> HIDE DEF walk
<1>7. LinksTypeOK'
  BY <1>1, <1>2, <1>3, <1>5, <1>6 DEF LinksTypeOK
<1>8. LinksAreKept'
  <2>1. \A a, b \in links' : Same(a, b) => a = b
    BY <1>1, <1>5 DEF LinksAreKept, Same
  <2> QED
    BY <1>1, <1>4, <2>1 DEF LinksAreKept, NotLinking
<1>9. ASSUME ~ crossed'
      PROVE  /\ Acyclic(links')
             /\ \A q \in Linkers : linking'[q].at = "walk" => Explored(links', linking'[q])
  <2>1. /\ Acyclic(links)
        /\ \A q \in Linkers : linking[q].at = "walk" => Explored(links, linking[q])
        /\ \/ call.kind \notin DependencyKinds
           \/ \A q \in Linkers \ {p} : linking[q].at # "walk"
    BY <1>6, <1>9 DEF LinksInv
  <2>2. CASE call.kind \notin DependencyKinds
    <3>1. \A f : DependsIn(links', f) = DependsIn(links, f)
      BY <1>5, <2>2, AddDependency
    <3> QED
      BY <1>4, <2>1, <3>1 DEF Acyclic, Explored, NotLinking
  <2>3. CASE call.kind \in DependencyKinds
    <3>1. Explored(links, walk) /\ walk.frontier = {}
      BY <1>2, <1>3, <2>1, <2>3 DEF walk
    <3>2. Acyclic(links')
      <4>1. Acyclic(links \cup {call})
        BY <2>1, <3>1, NoCircleCloses DEF Explored
      <4> QED
        BY <1>5, <2>1, <4>1
    <3>3. \A q \in Linkers : linking'[q].at # "walk"
      BY <1>4, <2>1, <2>3 DEF NotLinking
    <3> QED
      BY <3>2, <3>3
  <2> QED
    BY <2>2, <2>3
<1> QED
  BY <1>7, <1>8, <1>9 DEF LinksInv

(* Nothing is linked at first.                                             *)
LEMMA InitLinksInv == LinksInit => LinksInv
<1> SUFFICES ASSUME LinksInit PROVE LinksInv
  OBVIOUS
<1>1. links = {} /\ crossed = FALSE /\ \A p \in Linkers : linking[p].at = "idle"
  BY DEF LinksInit, NotLinking
<1>2. LinksTypeOK
  BY DEF LinksInit, LinksTypeOK
<1>3. \A f : DependsIn(links, f) = {}
  BY <1>1 DEF DependsIn
<1>4. Acyclic(links)
  BY <1>3 DEF Acyclic
<1> QED
  BY <1>1, <1>2, <1>4 DEF LinksInv, LinksAreKept

(* Every step keeps the invariant.                                         *)
LEMMA NextLinksInv == LinksInv /\ [LinksNext]_linkVars => LinksInv'
<1> SUFFICES ASSUME LinksInv, [LinksNext]_linkVars PROVE LinksInv'
  OBVIOUS
<1>1. CASE \E p \in Linkers, call \in LinkCalls : BeginLink(p, call)
  BY <1>1, BeginLinkStep
<1>2. CASE \E p \in Linkers, f \in LinkedFacts : Walk(p, f)
  BY <1>2, WalkStep
<1>3. CASE \E p \in Linkers : InsertLink(p)
  BY <1>3, InsertLinkStep
<1>4. CASE \E p \in Linkers : LinkFails(p)
  BY <1>4, EndsQuietly DEF LinkFails
<1>5. CASE UNCHANGED linkVars
  BY <1>5 DEF linkVars, LinksInv, LinksTypeOK, LinksAreKept
<1> QED
  BY <1>1, <1>2, <1>3, <1>4, <1>5 DEF LinksNext

-----------------------------------------------------------------------------

(* However many processes link facts, and wherever their statements fall:  *)
(* links join facts of the space, none is stored twice, and no facts       *)
(* depend on each other in a circle unless one dependency was stored while *)
(* another was being checked.                                              *)
THEOREM LinksAreAcyclic == LinksSpec => []LinksStayAcyclic
<1>1. LinksInv => LinksStayAcyclic
  <2>1. LinksInv => Acyclic(links) \/ crossed
    BY DEF LinksInv
  <2>2. Acyclic(links) => ~ \E S \in SUBSET LinkedFacts : Circular(S)
    BY DEF Acyclic, Circular, DependsDirectly, DependsIn
  <2> QED
    BY <2>1, <2>2 DEF LinksInv, LinksTypeOK, LinksAreKept, Checked, LinksStayAcyclic
<1> QED
  BY <1>1, InitLinksInv, NextLinksInv, PTL DEF LinksSpec

(* Where one process links facts, as behind one server, nothing ever       *)
(* depends on itself.                                                      *)
COROLLARY AloneNothingIsCircular ==
  ASSUME \A p, q \in Linkers : p = q
  PROVE  LinksSpec => []Acyclic(links)
<1>1. LinksInit => ~ crossed
  BY DEF LinksInit
<1>2. ASSUME ~ crossed, [LinksNext]_linkVars
      PROVE  ~ crossed'
  <2>1. \A p \in Linkers : Linkers \ {p} = {}
    OBVIOUS
  <2>2. ASSUME NEW p \in Linkers, InsertLink(p)
        PROVE  ~ crossed'
    <3>1. ~ \E q \in Linkers \ {p} : linking[q].at = "walk"
      BY <2>1
    <3> QED
      BY <1>2, <2>2, <3>1 DEF InsertLink
  <2>3. \/ crossed' = crossed
        \/ \E p \in Linkers : InsertLink(p)
    BY <1>2 DEF LinksNext, linkVars, BeginLink, Walk, LinkFails
  <2> QED
    BY <1>2, <2>2, <2>3
<1>3. LinksInv /\ ~ crossed => Acyclic(links)
  BY DEF LinksInv
<1> QED
  BY <1>1, <1>2, <1>3, InitLinksInv, NextLinksInv, PTL DEF LinksSpec

-----------------------------------------------------------------------------
(***************************************************************************)
(* Chunks: spans that follow each other                                    *)
(***************************************************************************)

(* What holds of zero, and of the next number, holds of every number. *)
LEMMA ByCounting ==
  ASSUME NEW S, S \subseteq Nat, 0 \in S, \A n \in S : n + 1 \in S
  PROVE  S = Nat
<1>1. SUFFICES ASSUME Nat \ S # {} PROVE FALSE
  OBVIOUS
<1>2. PICK x \in Nat \ S : \A y \in Nat \ S : x <= y
  BY <1>1, LeastOfIds
<1>3. x # 0 /\ x - 1 \in Nat /\ ~ (x <= x - 1)
  BY <1>2
<1>4. x - 1 \in S
  BY <1>2, <1>3
<1> QED
  BY <1>2, <1>3, <1>4

(* The spans of seq follow each other from 0 to `to`, and start at         *)
(* characters.                                                             *)
Spans == [start : Nat, end : Nat]

Joined(seq, chars, to) ==
  /\ seq \in Seq(Spans)
  /\ \A k \in DOMAIN seq :
       /\ seq[k].start = IF k = 1 THEN 0 ELSE seq[k - 1].end
       /\ seq[k].start < seq[k].end
       /\ seq[k].start \in chars
  /\ to = IF seq = <<>> THEN 0 ELSE seq[Len(seq)].end

(* A span that begins where the others end joins them.                     *)
LEMMA JoinsOn ==
  ASSUME NEW seq, NEW chars, NEW from \in Nat, NEW to \in Nat,
         Joined(seq, chars, from), from \in chars, from < to
  PROVE  Joined(Append(seq, Span(from, to)), chars, to)
<1> DEFINE s == Span(from, to)
           longer == Append(seq, s)
           n == Len(seq)
<1>1. s \in Spans /\ s.start = from /\ s.end = to
  BY DEF Spans, Span
<1>2. seq \in Seq(Spans) /\ n \in Nat /\ DOMAIN seq = 1 .. n
  BY DEF Joined
<1> HIDE DEF s
<1>3. /\ longer \in Seq(Spans) /\ Len(longer) = n + 1 /\ DOMAIN longer = 1 .. n + 1
      /\ \A k \in 1 .. n : longer[k] = seq[k]
      /\ longer[n + 1] = s /\ longer # <<>>
  BY <1>1, <1>2, AppendProperties
<1> HIDE DEF longer
<1>4. ASSUME NEW k \in DOMAIN longer
      PROVE  /\ longer[k].start = IF k = 1 THEN 0 ELSE longer[k - 1].end
             /\ longer[k].start < longer[k].end
             /\ longer[k].start \in chars
  <2>1. CASE k \in 1 .. n
    <3>1. longer[k] = seq[k] /\ k \in DOMAIN seq
      BY <1>2, <1>3, <2>1
    <3>2. k # 1 => k - 1 \in 1 .. n /\ longer[k - 1] = seq[k - 1]
      BY <1>2, <1>3, <2>1
    <3> QED
      BY <3>1, <3>2 DEF Joined
  <2>2. CASE k = n + 1
    <3>1. longer[k] = s
      BY <1>3, <2>2
    <3>2. CASE n = 0
      <4>1. seq = <<>> /\ k = 1
        BY <1>2, <2>2, <3>2
      <4> QED
        BY <1>1, <3>1, <4>1 DEF Joined
    <3>3. CASE n # 0
      <4>1. seq # <<>> /\ k # 1 /\ k - 1 = n /\ longer[k - 1] = seq[n]
        BY <1>2, <1>3, <2>2, <3>3
      <4> QED
        BY <1>1, <3>1, <4>1 DEF Joined
    <3> QED
      BY <3>2, <3>3
  <2> QED
    BY <1>2, <1>3, <2>1, <2>2
<1>5. longer[Len(longer)].end = to
  BY <1>1, <1>3
<1>6. Joined(longer, chars, to)
  BY <1>3, <1>4, <1>5 DEF Joined
<1> QED
  BY <1>6 DEF longer, s

(* More characters do no harm.                                             *)
LEMMA JoinedStays ==
  ASSUME NEW seq, NEW chars, NEW more, NEW to, Joined(seq, chars, to), chars \subseteq more
  PROVE  Joined(seq, more, to)
BY DEF Joined

(* What is joined reaches no further than it ends.                         *)
LEMMA SpansWithin ==
  ASSUME NEW seq, NEW chars, NEW to \in Nat, Joined(seq, chars, to)
  PROVE  \A k \in DOMAIN seq : seq[k].end <= to
<1>1. PICK n \in Nat : n = Len(seq) /\ DOMAIN seq = 1 .. n /\ \A k \in 1 .. n : seq[k] \in Spans
  BY DEF Joined
<1> DEFINE S == {j \in Nat : j < n => seq[n - j].end <= to}
<1>2. 0 \in S
  BY <1>1 DEF Joined
<1>3. ASSUME NEW j \in S PROVE j + 1 \in S
  <2>1. SUFFICES ASSUME j + 1 < n PROVE seq[n - (j + 1)].end <= to
    BY <1>3
  <2>2. n - j \in 2 .. n /\ (n - j) - 1 = n - (j + 1)
    BY <1>1, <1>3, <2>1
  <2>3. /\ seq[n - j].start = seq[n - (j + 1)].end /\ seq[n - j].start < seq[n - j].end
        /\ seq[n - j].start \in Nat /\ seq[n - j].end \in Nat
    <3>1. PICK k \in 2 .. n : k = n - j /\ k - 1 = n - (j + 1)
      BY <2>2
    <3>2. k \in 1 .. n /\ k \in DOMAIN seq /\ k # 1
      BY <1>1, <3>1
    <3>3. seq[k].start = seq[k - 1].end /\ seq[k].start < seq[k].end
      BY <3>2 DEF Joined
    <3>4. seq[k].start \in Nat /\ seq[k].end \in Nat
      BY <1>1, <3>2 DEF Spans
    <3> QED
      BY <3>1, <3>3, <3>4
  <2>4. seq[n - j].end <= to
    BY <1>1, <1>3, <2>1
  <2> QED
    BY <2>3, <2>4
<1>4. S = Nat
  BY <1>2, <1>3, ByCounting, Zenon
<1>5. ASSUME NEW k \in DOMAIN seq PROVE seq[k].end <= to
  <2>1. n - k \in Nat /\ n - k < n /\ n - (n - k) = k
    BY <1>1
  <2>2. n - k \in S
    BY <1>4, <2>1
  <2> QED
    BY <2>1, <2>2
<1> QED
  BY <1>5

(* After a span comes the next one, or the end.                            *)
LEMMA NextStarts ==
  ASSUME NEW seq, NEW chars, NEW to \in Nat, Joined(seq, chars, to), NEW k \in DOMAIN seq
  PROVE  /\ k + 1 <= Len(seq) => seq[k].end = seq[k + 1].start
         /\ ~ (k + 1 <= Len(seq)) => seq[k].end = to
<1>1. Len(seq) \in Nat /\ DOMAIN seq = 1 .. Len(seq)
  BY DEF Joined
<1>2. ASSUME k + 1 <= Len(seq) PROVE seq[k].end = seq[k + 1].start
  <2>1. k + 1 \in DOMAIN seq /\ k + 1 # 1 /\ (k + 1) - 1 = k
    BY <1>1, <1>2
  <2> QED
    BY <2>1 DEF Joined
<1>3. ASSUME ~ (k + 1 <= Len(seq)) PROVE seq[k].end = to
  <2>1. k = Len(seq) /\ seq # <<>>
    BY <1>1, <1>3
  <2> QED
    BY <2>1 DEF Joined
<1> QED
  BY <1>2, <1>3

(* The greater of two numbers.                                             *)
LEMMA GreaterOf ==
  ASSUME NEW m \in Int, NEW n \in Int
  PROVE  Max({m, n}) \in {m, n} /\ m <= Max({m, n}) /\ n <= Max({m, n})
<1>1. \E x \in {m, n} : \A y \in {m, n} : y <= x
  <2>1. CASE m <= n
    BY <2>1
  <2>2. CASE ~ (m <= n)
    BY <2>2
  <2> QED
    BY <2>1, <2>2
<1> QED
  BY <1>1 DEF Max

-----------------------------------------------------------------------------

(* What has been read: characters that cover the text from its start.      *)
TextHolds ==
  /\ text.length \in Nat
  /\ text.chars \subseteq 0 .. text.length - 1 /\ text.decls \subseteq Nat
  /\ text.length > 0 => 0 \in text.chars
  /\ \A o \in 0 .. text.length - 1 : \E c \in text.chars : c <= o /\ o < c + Widest

Starts == text.chars \cup {text.length}

(* The spans that were cut, and no declaration deep inside one.            *)
SoftHolds ==
  cutting.code =>
    \A k \in DOMAIN soft, d \in text.decls :
      soft[k].start < d /\ d < soft[k].end => d - soft[k].start < cutting.target \div 4

(* While lines are read, the spans end where the open chunk begins; a      *)
(* declaration that it still holds lies in the first quarter of a target.  *)
ReadingHolds ==
  /\ spans = <<>> /\ piece = None /\ reached = 1
  /\ DOMAIN open = {"start", "soft", "decl"}
  /\ open.start \in Starts /\ open.soft \in Starts \cup {None}
  /\ Joined(soft, text.chars, open.start)
  /\ open.decl # None =>
       open.decl \in Nat /\ open.decl - open.start < cutting.target \div 4
  /\ cutting.code =>
       \A d \in text.decls : open.start < d => d - open.start < cutting.target \div 4

(* Where the chunks have got to.                                           *)
Position ==
  IF piece # None THEN piece
  ELSE IF reached <= Len(soft) THEN soft[reached].start ELSE text.length

Longest == Max({2 * cutting.target, cutting.target - 1 + Widest})

(* Both bounds of a chunk are within the longest.                          *)
LEMMA LongestSpan ==
  ASSUME cutting.target \in Nat \ {0}
  PROVE  /\ 2 * cutting.target <= Longest /\ cutting.target - 1 + Widest <= Longest
         /\ Longest \in Int
<1>1. PICK m \in Int, n \in Int : m = 2 * cutting.target /\ n = cutting.target - 1 + Widest
  BY DEF Widest
<1>2. Max({m, n}) \in {m, n} /\ m <= Max({m, n}) /\ n <= Max({m, n})
  BY GreaterOf
<1> QED
  BY <1>1, <1>2 DEF Longest

(* While long spans are split, the chunks end where the splitting is.      *)
SplittingHolds ==
  /\ Joined(soft, text.chars, text.length)
  /\ reached \in 1 .. Len(soft) + 1
  /\ piece # None =>
       /\ reached <= Len(soft) /\ piece \in text.chars
       /\ soft[reached].start <= piece /\ piece < soft[reached].end
  /\ Joined(spans, text.chars, Position)

ChunksInv ==
  /\ cutting.pass \in {"lines", "characters", "done"}
  /\ cutting.target \in Nat \ {0} /\ cutting.code \in BOOLEAN
  /\ DOMAIN cutting = {"pass", "target", "code"}
  /\ TextHolds /\ SoftHolds
  /\ cutting.pass = "lines" => ReadingHolds
  /\ cutting.pass = "characters" => SplittingHolds
  /\ cutting.pass = "done" => Joined(spans, text.chars, text.length)
  /\ \A k \in DOMAIN spans : spans[k].end - spans[k].start <= Longest

(* Before anything is read.                                                *)
LEMMA InitChunksInv == ChunksInit => ChunksInv
<1> SUFFICES ASSUME ChunksInit PROVE ChunksInv
  OBVIOUS
<1>1. PICK asked \in Targets : cutting.target = Max({1, asked})
  BY DEF ChunksInit
<1>2. cutting.target \in Nat \ {0}
  <2>1. asked \in Nat
    BY ChunksAssumption
  <2>2. Max({1, asked}) \in {1, asked} /\ 1 <= Max({1, asked})
    BY <2>1, GreaterOf
  <2> QED
    BY <1>1, <2>1, <2>2
<1>3. /\ cutting.pass = "lines" /\ cutting.code \in BOOLEAN
      /\ DOMAIN cutting = {"pass", "target", "code"}
  BY DEF ChunksInit
<1>4. TextHolds
  BY DEF ChunksInit, TextHolds
<1>5. SoftHolds /\ \A k \in DOMAIN spans : spans[k].end - spans[k].start <= Longest
  BY DEF ChunksInit, SoftHolds
<1>6. ReadingHolds
  <2>1. Joined(<<>>, text.chars, 0)
    BY DEF Joined
  <2> QED
    BY <2>1 DEF ChunksInit, ReadingHolds, Starts, None
<1> QED
  BY <1>2, <1>3, <1>4, <1>5, <1>6 DEF ChunksInv

(* Another line is read: where chunks may start is where they still may.   *)
LEMMA TakeLineKeeps ==
  ASSUME ChunksInv, NEW line \in Lines, TakeLine(line)
  PROVE  /\ TextHolds' /\ text'.length = text.length + line.bytes
         /\ text'.length > text.length
         /\ Starts \subseteq text'.chars /\ text.chars \subseteq text'.chars
         /\ text'.decls \subseteq text.decls \cup {text.length}
         /\ line.kind # "decl" => text'.decls = text.decls
<1>1. IsLine(line)
  BY ChunksAssumption
<1>2. line.bytes \in Nat \ {0} /\ line.chars \subseteq 0 .. line.bytes - 1 /\ 0 \in line.chars
  BY <1>1 DEF IsLine
<1>3. /\ text'.length = text.length + line.bytes
      /\ text'.chars = text.chars \cup {text.length + c : c \in line.chars}
      /\ text'.decls = text.decls \cup (IF line.kind = "decl" THEN {text.length} ELSE {})
  BY DEF TakeLine
<1>4. text.length \in Nat /\ text.chars \subseteq 0 .. text.length - 1 /\ text.decls \subseteq Nat
  BY DEF ChunksInv, TextHolds
<1>5. text.length \in text'.chars
  <2>1. text.length + 0 \in {text.length + c : c \in line.chars}
    BY <1>2
  <2> QED
    BY <1>3, <1>4, <2>1
<1>6. text'.length > text.length /\ text'.length \in Nat
  BY <1>2, <1>3, <1>4
<1>7. text'.chars \subseteq 0 .. text'.length - 1
  <2>1. \A c \in line.chars : text.length + c \in 0 .. text'.length - 1
    BY <1>2, <1>3, <1>4
  <2>2. text.chars \subseteq 0 .. text'.length - 1
    BY <1>4, <1>6
  <2> QED
    BY <1>3, <2>1, <2>2
<1>8. ASSUME NEW o \in 0 .. text'.length - 1
      PROVE  \E c \in text'.chars : c <= o /\ o < c + Widest
  <2>1. CASE o < text.length
    <3>1. o \in 0 .. text.length - 1
      BY <1>4, <2>1
    <3>2. \E c \in text.chars : c <= o /\ o < c + Widest
      BY <3>1 DEF ChunksInv, TextHolds
    <3> QED
      BY <1>3, <3>2
  <2>2. CASE ~ (o < text.length)
    <3>1. o - text.length \in 0 .. line.bytes - 1
      BY <1>2, <1>3, <1>4, <2>2
    <3>2. PICK c \in line.chars : c <= o - text.length /\ o - text.length < c + Widest
      BY <1>1, <3>1 DEF IsLine
    <3>3. c \in Nat /\ text.length + c \in text'.chars
      BY <1>2, <1>3, <3>2
    <3>4. text.length + c <= o /\ o < (text.length + c) + Widest
      BY <1>4, <1>6, <3>2, <3>3 DEF Widest
    <3> QED
      BY <3>3, <3>4
  <2> QED
    BY <2>1, <2>2
<1>9. 0 \in text'.chars
  <2>1. CASE text.length = 0
    BY <1>5, <2>1
  <2>2. CASE text.length # 0
    BY <1>3, <1>4, <2>2 DEF ChunksInv, TextHolds
  <2> QED
    BY <2>1, <2>2
<1>10. text'.decls \subseteq Nat
  BY <1>3, <1>4
<1>11. TextHolds'
  BY <1>6, <1>7, <1>8, <1>9, <1>10 DEF TextHolds
<1> QED
  BY <1>3, <1>5, <1>6, <1>11 DEF Starts

(* A chunk may be cut off at any place it may end, from the open chunk on. *)
LEMMA CutKeeps ==
  ASSUME ChunksInv, cutting.pass = "lines", NEW line \in Lines, TakeLine(line),
         NEW at \in Starts', open.start < at, CutAt(at),
         cutting.code =>
           \A d \in text'.decls : open.start < d /\ d < at => d - open.start < cutting.target \div 4,
         cutting.code =>
           \A d \in text'.decls : at < d => d - at < cutting.target \div 4
  PROVE  ChunksInv'
<1>1. /\ TextHolds' /\ Starts \subseteq text'.chars /\ text.chars \subseteq text'.chars
      /\ text'.decls \subseteq text.decls \cup {text.length}
  BY TakeLineKeeps
<1>2. /\ text.length \in Nat /\ text.chars \subseteq 0 .. text.length - 1
      /\ text'.length \in Nat /\ text'.chars \subseteq 0 .. text'.length - 1
  BY <1>1 DEF ChunksInv, TextHolds
<1>3. /\ ReadingHolds /\ SoftHolds
      /\ cutting' = cutting /\ reached' = reached /\ piece' = piece /\ spans' = spans
      /\ soft' = Append(soft, Span(open.start, at))
      /\ open' = [start |-> at, soft |-> None, decl |-> None]
  BY DEF ChunksInv, TakeLine, CutAt
<1>4. open.start \in Nat /\ open.start <= text.length /\ at \in Nat
  BY <1>2, <1>3 DEF ReadingHolds, Starts
<1>5. Joined(soft, text.chars, open.start) /\ Joined(soft, text'.chars, open.start)
  <2>1. Joined(soft, text.chars, open.start)
    BY <1>3 DEF ReadingHolds
  <2> QED
    BY <1>1, <2>1, JoinedStays
<1>6. Joined(soft', text'.chars, at)
  <2>1. open.start \in text'.chars
    BY <1>1, <1>3 DEF ReadingHolds
  <2> QED
    BY <1>3, <1>4, <1>5, <2>1, JoinsOn
<1>7. ReadingHolds'
  BY <1>3, <1>6 DEF ReadingHolds
<1>8. SoftHolds'
  <2>1. SUFFICES ASSUME cutting.code, NEW k \in DOMAIN soft', NEW d \in text'.decls,
                        soft'[k].start < d, d < soft'[k].end
                 PROVE  d - soft'[k].start < cutting.target \div 4
    BY <1>3 DEF SoftHolds
  <2>2. soft \in Seq(Spans) /\ Span(open.start, at) \in Spans
    BY <1>4, <1>5 DEF Joined, Span, Spans
  <2>3. CASE k \in DOMAIN soft
    <3>1. soft'[k] = soft[k] /\ soft[k] \in Spans
      BY <1>3, <2>2, <2>3
    <3>2. soft[k].end <= open.start
      BY <1>4, <1>5, <2>3, SpansWithin
    <3>3. d # text.length
      BY <1>4, <1>2, <2>1, <3>1, <3>2 DEF Spans
    <3>4. d \in text.decls
      BY <1>1, <3>3
    <3> QED
      BY <1>3, <2>1, <2>3, <3>1, <3>4 DEF SoftHolds
  <2>4. CASE k \notin DOMAIN soft
    <3>1. k = Len(soft) + 1 /\ soft'[k] = Span(open.start, at)
      BY <1>3, <2>2, <2>4
    <3>2. soft'[k].start = open.start /\ soft'[k].end = at
      BY <3>1 DEF Span
    <3> QED
      BY <2>1, <3>2
  <2> QED
    BY <2>3, <2>4
<1>9. Longest' = Longest
  BY <1>3 DEF Longest
<1> QED
  BY <1>1, <1>3, <1>7, <1>8, <1>9 DEF ChunksInv

(* An outcome for the open chunk: what may be cut off and what it keeps.   *)
(* That a declaration it has passed decides no cut is shown on the way:    *)
(* a declaration in the first quarter of a target has not half before it.  *)
LEMMA NotedKeeps ==
  ASSUME ChunksInv, cutting.pass = "lines", NEW line \in Lines, TakeLine(line),
         ~ (Declares(line) /\ HoldsEnough)
  PROVE  /\ Noted(line).start = open.start
         /\ Noted(line).soft \in Starts' \cup {None}
         /\ Noted(line).decl # None =>
              /\ Noted(line).decl \in Nat
              /\ Noted(line).decl - open.start < cutting.target \div 4
         /\ cutting.code =>
              \A d \in text'.decls : open.start < d => d - open.start < cutting.target \div 4
         /\ CutOf(Noted(line)) = Noted(line).soft
<1>1. /\ text'.length = text.length + line.bytes /\ Starts \subseteq text'.chars
      /\ text'.decls \subseteq text.decls \cup {text.length}
      /\ line.kind # "decl" => text'.decls = text.decls
  BY TakeLineKeeps
<1>2. /\ text.length \in Nat /\ text.chars \subseteq 0 .. text.length - 1
      /\ text.decls \subseteq Nat /\ cutting.target \in Nat \ {0}
  BY DEF ChunksInv, TextHolds
<1>3. ReadingHolds
  BY DEF ChunksInv
<1>4. open.start \in Nat
  BY <1>2, <1>3 DEF ReadingHolds, Starts
<1> DEFINE noted == Noted(line)
<1>5. /\ noted.start = open.start
      /\ noted.soft = IF line.kind = "blank" THEN text.length + line.bytes
                      ELSE IF line.kind = "heading" /\ Inside THEN text.length ELSE open.soft
      /\ noted.decl = IF Declares(line) THEN text.length ELSE open.decl
  BY <1>3 DEF ReadingHolds, Noted
<1> HIDE DEF noted
<1>6. noted.soft \in Starts' \cup {None}
  <2>1. text.length \in text'.chars /\ text.length + line.bytes = text'.length
    BY <1>1 DEF Starts
  <2>2. open.soft \in text'.chars \cup {None}
    BY <1>1, <1>3 DEF ReadingHolds
  <2> QED
    BY <1>5, <2>1, <2>2 DEF Starts
<1>7. noted.decl # None =>
        noted.decl \in Nat /\ noted.decl - open.start < cutting.target \div 4
  <2>1. CASE Declares(line)
    <3>1. ~ (text.length - open.start >= cutting.target \div 4)
      BY <2>1 DEF HoldsEnough
    <3>2. text.length - open.start < cutting.target \div 4
      BY <1>2, <1>4, <3>1
    <3> QED
      BY <1>2, <1>5, <2>1, <3>2
  <2>2. CASE ~ Declares(line)
    BY <1>3, <1>5, <2>2 DEF ReadingHolds
  <2> QED
    BY <2>1, <2>2
<1>8. ASSUME cutting.code, NEW d \in text'.decls, open.start < d
      PROVE  d - open.start < cutting.target \div 4
  <2>1. CASE d \in text.decls
    BY <1>3, <1>8, <2>1 DEF ReadingHolds
  <2>2. CASE d \notin text.decls
    <3>1. d = text.length /\ line.kind = "decl"
      BY <1>1, <1>8, <2>2
    <3>2. Declares(line)
      BY <1>2, <1>4, <1>8, <3>1 DEF Declares, Inside
    <3>3. ~ (text.length - open.start >= cutting.target \div 4)
      BY <3>2 DEF HoldsEnough
    <3> QED
      BY <1>2, <1>4, <3>1, <3>3
  <2> QED
    BY <2>1, <2>2
<1>9. CutOf(noted) = noted.soft
  <2>1. ~ (noted.decl > noted.start /\ noted.decl - noted.start >= cutting.target \div 2)
    <3>1. CASE noted.decl = None
      BY <1>4, <1>5, <3>1 DEF None
    <3>2. CASE noted.decl # None
      <4>1. cutting.target \div 4 <= cutting.target \div 2
        BY <1>2
      <4>2. cutting.target \div 4 \in Int /\ cutting.target \div 2 \in Int
        BY <1>2
      <4> QED
        BY <1>4, <1>5, <1>7, <3>2, <4>1, <4>2
    <3> QED
      BY <3>1, <3>2
  <2> QED
    BY <2>1 DEF CutOf
<1> QED
  BY <1>5, <1>6, <1>7, <1>8, <1>9 DEF noted

(* A declaration cuts the chunk before it.                                 *)
LEMMA CutAtDeclarationKeeps ==
  ASSUME ChunksInv, NEW line \in Lines, CutAtDeclaration(line)
  PROVE  ChunksInv'
<1>1. /\ cutting.pass = "lines" /\ TakeLine(line) /\ Declares(line) /\ CutAt(text.length)
  BY DEF CutAtDeclaration, TakeLine
<1>2. /\ Starts \subseteq text'.chars /\ text'.decls \subseteq text.decls \cup {text.length}
  BY <1>1, TakeLineKeeps
<1>3. /\ text.length \in Nat /\ text.decls \subseteq Nat /\ text.chars \subseteq 0 .. text.length - 1
      /\ ReadingHolds
  BY <1>1 DEF ChunksInv, TextHolds
<1>4. open.start \in Nat /\ open.start < text.length
  BY <1>1, <1>3 DEF ReadingHolds, Starts, Declares, Inside
<1>5. text.length \in Starts'
  BY <1>2 DEF Starts
<1>6. ASSUME cutting.code, NEW d \in text'.decls, open.start < d, d < text.length
      PROVE  d - open.start < cutting.target \div 4
  <2>1. d \in text.decls
    BY <1>2, <1>3, <1>6
  <2> QED
    BY <1>3, <1>6, <2>1 DEF ReadingHolds
<1>7. ASSUME cutting.code, NEW d \in text'.decls, text.length < d
      PROVE  d - text.length < cutting.target \div 4
  <2>1. d \in text.decls
    BY <1>2, <1>3, <1>7
  <2>2. d - open.start < cutting.target \div 4
    BY <1>3, <1>4, <1>7, <2>1 DEF ReadingHolds
  <2>3. d \in Nat /\ cutting.target \div 4 \in Int
    BY <1>3, <2>1 DEF ChunksInv
  <2> QED
    BY <1>3, <1>4, <2>2, <2>3
<1> QED
  BY <1>1, <1>4, <1>5, <1>6, <1>7, CutKeeps

(* Another line is taken into the chunk, or ends it at a soft boundary.    *)
LEMMA ReadLineKeeps ==
  ASSUME ChunksInv, NEW line \in Lines, ReadLine(line)
  PROVE  ChunksInv'
<1> DEFINE noted == Noted(line)
<1>1. cutting.pass = "lines" /\ TakeLine(line) /\ ~ (Declares(line) /\ HoldsEnough)
  BY DEF ReadLine, TakeLine
<1>2. /\ noted.start = open.start /\ noted.soft \in Starts' \cup {None}
      /\ noted.decl # None =>
           noted.decl \in Nat /\ noted.decl - open.start < cutting.target \div 4
      /\ CutOf(noted) = noted.soft
      /\ cutting.code =>
           \A d \in text'.decls : open.start < d => d - open.start < cutting.target \div 4
  BY <1>1, NotedKeeps
<1>3. /\ TextHolds' /\ Starts \subseteq text'.chars /\ text.chars \subseteq text'.chars
      /\ text'.decls \subseteq text.decls \cup {text.length}
      /\ text'.length > text.length
  BY <1>1, TakeLineKeeps
<1>4. /\ text.length \in Nat /\ text.decls \subseteq Nat /\ text.chars \subseteq 0 .. text.length - 1
      /\ text'.length \in Nat /\ text'.decls \subseteq Nat
      /\ text'.chars \subseteq 0 .. text'.length - 1
      /\ cutting.target \in Nat \ {0} /\ ReadingHolds /\ SoftHolds
  BY <1>1, <1>3 DEF ChunksInv, TextHolds
<1>5. open.start \in Nat /\ open.start <= text.length
  BY <1>4 DEF ReadingHolds, Starts
<1>6. CASE CutOf(noted) > open.start /\ CutAt(CutOf(noted))
  <2>1. PICK at : at = noted.soft
    OBVIOUS
  <2> HIDE DEF noted
  <2>2. at > open.start /\ CutAt(at) /\ at \in Starts'
    <3>1. at > open.start /\ CutAt(at) /\ at \in Starts' \cup {None}
      BY <1>2, <1>6, <2>1
    <3> QED
      BY <1>5, <3>1 DEF None
  <2>3. at \in Nat
    BY <1>4, <2>2 DEF Starts
  <2>4. ASSUME cutting.code, NEW d \in text'.decls, at < d
        PROVE  d - at < cutting.target \div 4
    <3>1. d \in Nat /\ open.start < d /\ cutting.target \div 4 \in Int
      BY <1>4, <1>5, <2>2, <2>3, <2>4
    <3>2. d - open.start < cutting.target \div 4
      BY <1>2, <2>4, <3>1
    <3> QED
      BY <1>5, <2>2, <2>3, <3>1, <3>2
  <2>5. open.start < at
    BY <1>5, <2>2, <2>3
  <2> QED
    BY <1>1, <1>2, <2>2, <2>4, <2>5, CutKeeps
<1>7. CASE open' = noted /\ UNCHANGED soft
  <2>1. /\ cutting' = cutting /\ reached' = reached /\ piece' = piece /\ spans' = spans
        /\ soft' = soft
    BY <1>1, <1>7 DEF TakeLine
  <2>2. Joined(soft, text'.chars, open.start)
    BY <1>3, <1>4, JoinedStays DEF ReadingHolds
  <2>3. DOMAIN noted = {"start", "soft", "decl"}
    BY <1>4 DEF ReadingHolds, Noted
  <2>4. open.start \in Starts'
    BY <1>3, <1>4 DEF ReadingHolds, Starts
  <2> HIDE DEF noted
  <2>5. ReadingHolds'
    BY <1>2, <1>4, <1>7, <2>1, <2>2, <2>3, <2>4 DEF ReadingHolds
  <2>6. SoftHolds'
    <3>1. SUFFICES ASSUME cutting.code, NEW k \in DOMAIN soft, NEW d \in text'.decls,
                          soft[k].start < d, d < soft[k].end
                   PROVE  d - soft[k].start < cutting.target \div 4
      BY <2>1 DEF SoftHolds
    <3>2. Joined(soft, text.chars, open.start)
      BY <1>4 DEF ReadingHolds
    <3>3. soft[k].end <= open.start /\ soft[k].end \in Nat
      <4>1. \A x \in DOMAIN soft : soft[x].end <= open.start
        BY <1>5, <3>2, SpansWithin
      <4>2. soft[k] \in Spans
        BY <3>2 DEF Joined
      <4> QED
        BY <4>1, <4>2 DEF Spans
    <3>4. d \in text.decls
      BY <1>3, <1>4, <1>5, <3>1, <3>3
    <3> QED
      BY <1>4, <3>1, <3>4 DEF SoftHolds
  <2>7. Longest' = Longest
    BY <2>1 DEF Longest
  <2> QED
    BY <1>1, <1>3, <2>1, <2>5, <2>6, <2>7 DEF ChunksInv
<1> QED
  BY <1>6, <1>7 DEF ReadLine

(* What is left when the text ends is the last of the soft spans.          *)
LEMMA EndOfTextKeeps ==
  ASSUME ChunksInv, EndOfText
  PROVE  ChunksInv'
<1>1. /\ cutting.pass = "lines" /\ cutting'.pass = "characters"
      /\ cutting'.target = cutting.target /\ cutting'.code = cutting.code
      /\ DOMAIN cutting' = {"pass", "target", "code"}
      /\ text' = text /\ reached' = reached /\ piece' = piece /\ spans' = spans
      /\ soft' = IF open.start < text.length
                 THEN Append(soft, Span(open.start, text.length)) ELSE soft
  BY DEF EndOfText, ChunksInv
<1>2. /\ text.length \in Nat /\ text.chars \subseteq 0 .. text.length - 1
      /\ text.decls \subseteq Nat
      /\ ReadingHolds /\ SoftHolds
  BY <1>1 DEF ChunksInv, TextHolds
<1>3. /\ open.start \in Nat /\ open.start <= text.length
      /\ open.start < text.length => open.start \in text.chars
      /\ Joined(soft, text.chars, open.start)
  BY <1>2 DEF ReadingHolds, Starts
<1>4. Joined(soft', text.chars, text.length)
  <2>1. CASE open.start < text.length
    BY <1>1, <1>2, <1>3, <2>1, JoinsOn
  <2>2. CASE ~ (open.start < text.length)
    <3>1. open.start = text.length
      BY <1>2, <1>3, <2>2
    <3> QED
      BY <1>1, <1>3, <2>2, <3>1
  <2> QED
    BY <2>1, <2>2
<1>5. SoftHolds'
  <2>1. CASE open.start < text.length
    <3>1. SUFFICES ASSUME cutting.code, NEW k \in DOMAIN soft', NEW d \in text.decls,
                          soft'[k].start < d, d < soft'[k].end
                   PROVE  d - soft'[k].start < cutting.target \div 4
      BY <1>1 DEF SoftHolds
    <3>2. soft \in Seq(Spans) /\ Span(open.start, text.length) \in Spans
      BY <1>2, <1>3 DEF Joined, Span, Spans
    <3>3. CASE k \in DOMAIN soft
      <4>1. soft'[k] = soft[k]
        BY <1>1, <2>1, <3>2, <3>3
      <4> QED
        BY <1>2, <3>1, <3>3, <4>1 DEF SoftHolds
    <3>4. CASE k \notin DOMAIN soft
      <4>1. soft'[k] = Span(open.start, text.length)
        BY <1>1, <2>1, <3>2, <3>4
      <4>2. soft'[k].start = open.start
        BY <4>1 DEF Span
      <4> QED
        BY <1>2, <3>1, <4>2 DEF ReadingHolds
    <3> QED
      BY <3>3, <3>4
  <2>2. CASE ~ (open.start < text.length)
    BY <1>1, <1>2, <2>2 DEF SoftHolds
  <2> QED
    BY <2>1, <2>2
<1>6. SplittingHolds'
  <2>1. /\ reached' = 1 /\ piece' = None /\ spans' = <<>>
    BY <1>1, <1>2 DEF ReadingHolds
  <2>2. Len(soft') \in Nat /\ DOMAIN soft' = 1 .. Len(soft')
    BY <1>4 DEF Joined
  <2>3. Position' = 0
    <3>1. CASE 1 <= Len(soft')
      <4>1. 1 \in DOMAIN soft'
        BY <2>2, <3>1
      <4>2. soft'[1].start = 0
        BY <1>4, <4>1 DEF Joined
      <4> QED
        BY <2>1, <3>1, <4>2 DEF Position
    <3>2. CASE ~ (1 <= Len(soft'))
      <4>1. soft' = <<>>
        <5>1. Len(soft') = 0 /\ soft' \in Seq(Spans)
          BY <1>4, <2>2, <3>2 DEF Joined
        <5> QED
          BY <5>1, EmptySeq
      <4>2. text.length = 0
        BY <1>4, <4>1 DEF Joined
      <4> QED
        BY <1>1, <2>1, <3>2, <4>2 DEF Position
    <3> QED
      BY <3>1, <3>2
  <2>4. Joined(<<>>, text.chars, 0)
    BY DEF Joined
  <2>5. reached' \in 1 .. Len(soft') + 1
    BY <2>1, <2>2
  <2> QED
    BY <1>1, <1>4, <2>1, <2>3, <2>4, <2>5 DEF SplittingHolds
<1>7. TextHolds' /\ Longest' = Longest
  BY <1>1 DEF ChunksInv, TextHolds, Longest
<1> QED
  BY <1>1, <1>5, <1>6, <1>7 DEF ChunksInv

(* A chunk is added that joins the ones before, and is not too long.       *)
LEMMA ChunkAdded ==
  ASSUME ChunksInv, SplittingHolds, NEW to \in Nat, Position < to, Position \in text.chars,
         spans' = Append(spans, Span(Position, to)), to - Position <= Longest,
         Longest' = Longest
  PROVE  /\ Joined(spans', text.chars, to)
         /\ \A k \in DOMAIN spans' : spans'[k].end - spans'[k].start <= Longest
<1>1. Position \in Nat
  BY DEF ChunksInv, TextHolds
<1>2. Joined(spans, text.chars, Position)
  BY DEF SplittingHolds
<1>3. PICK at \in Nat : at = Position
  BY <1>1
<1>4. Joined(Append(spans, Span(at, to)), text.chars, to)
  BY <1>2, <1>3, JoinsOn
<1>5. spans \in Seq(Spans) /\ Span(at, to) \in Spans
  BY <1>2 DEF Joined, Span, Spans
<1>6. ASSUME NEW k \in DOMAIN spans' PROVE spans'[k].end - spans'[k].start <= Longest
  <2>1. CASE k \in DOMAIN spans
    <3>1. spans'[k] = spans[k]
      BY <1>3, <1>5, <2>1
    <3> QED
      BY <2>1, <3>1 DEF ChunksInv
  <2>2. CASE k \notin DOMAIN spans
    <3>1. spans'[k] = Span(at, to)
      BY <1>3, <1>5, <2>2
    <3> QED
      BY <1>3, <3>1 DEF Span
  <2> QED
    BY <2>1, <2>2
<1> QED
  BY <1>3, <1>4, <1>6

(* What pass 2 leaves as it is.                                            *)
LEMMA SplittingFacts ==
  ASSUME ChunksInv, Splitting
  PROVE  /\ SplittingHolds /\ reached \in DOMAIN soft /\ soft[reached] \in Spans
         /\ soft[reached].start < soft[reached].end
         /\ soft[reached].start \in text.chars
         /\ soft[reached].end <= text.length
         /\ Len(soft) \in Nat /\ reached \in Nat \ {0}
         /\ piece = None => Position = soft[reached].start
         /\ piece # None => Position = piece
<1>1. SplittingHolds /\ reached <= Len(soft)
  BY DEF ChunksInv, Splitting
<1>2. Joined(soft, text.chars, text.length) /\ reached \in 1 .. Len(soft) + 1
  BY <1>1 DEF SplittingHolds
<1>3. Len(soft) \in Nat /\ DOMAIN soft = 1 .. Len(soft)
  BY <1>2 DEF Joined
<1>4. reached \in DOMAIN soft /\ reached \in Nat \ {0}
  BY <1>1, <1>2, <1>3
<1>5. /\ soft[reached] \in Spans /\ soft[reached].start < soft[reached].end
      /\ soft[reached].start \in text.chars
  BY <1>2, <1>4 DEF Joined
<1>6. text.length \in Nat
  BY DEF ChunksInv, TextHolds
<1>7. \A k \in DOMAIN soft : soft[k].end <= text.length
  BY <1>2, <1>6, SpansWithin
<1> QED
  BY <1>1, <1>3, <1>4, <1>5, <1>7 DEF Position

(* When a soft span is done, the chunks have reached the next one.         *)
LEMMA AfterSpan ==
  ASSUME ChunksInv, Splitting, text' = text, soft' = soft, reached' = reached + 1, piece' = None,
         Joined(spans', text.chars, soft[reached].end)
  PROVE  SplittingHolds'
<1>1. /\ SplittingHolds /\ reached \in DOMAIN soft
      /\ Len(soft) \in Nat /\ reached \in Nat \ {0}
  BY SplittingFacts
<1>2. Joined(soft, text.chars, text.length) /\ text.length \in Nat
  BY <1>1 DEF SplittingHolds, ChunksInv, TextHolds
<1>3. /\ reached + 1 <= Len(soft) => soft[reached].end = soft[reached + 1].start
      /\ ~ (reached + 1 <= Len(soft)) => soft[reached].end = text.length
  BY <1>1, <1>2, NextStarts
<1>4. Position' = soft[reached].end
  BY <1>3 DEF Position
<1>5. reached + 1 \in 1 .. Len(soft) + 1
  BY <1>1 DEF Splitting
<1> QED
  BY <1>2, <1>4, <1>5 DEF SplittingHolds

(* Pass 2 changes nothing of what was read.                                *)
LEMMA PassTwo ==
  ASSUME ChunksInv, Splitting, cutting' = cutting, text' = text, soft' = soft, SplittingHolds',
         \A k \in DOMAIN spans' : spans'[k].end - spans'[k].start <= Longest
  PROVE  ChunksInv'
<1>1. TextHolds' /\ SoftHolds' /\ Longest' = Longest
  BY DEF ChunksInv, TextHolds, SoftHolds, Longest
<1> QED
  BY <1>1 DEF ChunksInv, Splitting

(* A soft span that is short enough is a chunk.                            *)
LEMMA KeepSpanKeeps ==
  ASSUME ChunksInv, KeepSpan
  PROVE  ChunksInv'
<1>1. /\ Splitting /\ piece = None /\ ~ IsLong(soft[reached])
      /\ spans' = Append(spans, soft[reached]) /\ reached' = reached + 1 /\ piece' = None
      /\ cutting' = cutting /\ text' = text /\ open' = open /\ soft' = soft
  BY DEF KeepSpan, NextSpan
<1>2. /\ SplittingHolds /\ reached \in DOMAIN soft /\ soft[reached] \in Spans
      /\ soft[reached].start < soft[reached].end
      /\ soft[reached].start \in text.chars
      /\ Len(soft) \in Nat /\ reached \in Nat \ {0}
      /\ Position = soft[reached].start
  BY <1>1, SplittingFacts
<1>3. PICK to \in Nat : to = soft[reached].end
  BY <1>2 DEF Spans
<1>4. soft[reached] = Span(Position, to)
  BY <1>2, <1>3 DEF Spans, Span
<1>5. cutting.target \in Nat \ {0}
  BY DEF ChunksInv
<1>6. to - Position <= Longest /\ Longest' = Longest
  <2>1. 2 * cutting.target <= Longest /\ Longest \in Int
    BY <1>5, LongestSpan
  <2>2. to - Position <= 2 * cutting.target
    BY <1>1, <1>2, <1>3, <1>5 DEF IsLong, Spans
  <2> QED
    BY <1>1, <1>2, <1>3, <1>5, <2>1, <2>2 DEF Longest, Spans
<1>7. /\ Joined(spans', text.chars, to)
      /\ \A k \in DOMAIN spans' : spans'[k].end - spans'[k].start <= Longest
  BY <1>1, <1>2, <1>3, <1>4, <1>6, ChunkAdded
<1>8. SplittingHolds'
  BY <1>1, <1>2, <1>3, <1>7, AfterSpan
<1> QED
  BY <1>1, <1>6, <1>7, <1>8, PassTwo

(* A soft span that is too long is split from its start.                   *)
LEMMA BeginSplitKeeps ==
  ASSUME ChunksInv, BeginSplit
  PROVE  ChunksInv'
<1>1. /\ Splitting /\ piece = None /\ piece' = soft[reached].start
      /\ cutting' = cutting /\ text' = text /\ soft' = soft /\ reached' = reached
      /\ spans' = spans
  BY DEF BeginSplit
<1>2. /\ SplittingHolds /\ reached \in DOMAIN soft /\ soft[reached] \in Spans
      /\ soft[reached].start < soft[reached].end
      /\ soft[reached].start \in text.chars
      /\ Position = soft[reached].start
  BY <1>1, SplittingFacts
<1>3. soft[reached].start # None /\ soft[reached].start <= soft[reached].start
  BY <1>2 DEF Spans, None
<1>4. Position' = Position
  BY <1>1, <1>2, <1>3 DEF Position
<1>5. SplittingHolds'
  BY <1>1, <1>2, <1>3, <1>4 DEF SplittingHolds, Splitting
<1> QED
  BY <1>1, <1>5, PassTwo DEF ChunksInv

(* A piece ends at the first character that is a target or more into it:   *)
(* less than a character past the target.                                  *)
LEMMA SplitPieceKeeps ==
  ASSUME ChunksInv, SplitPiece
  PROVE  ChunksInv'
<1>1. /\ Splitting /\ piece # None /\ Beyond(soft[reached]) # {}
      /\ piece' = Min(Beyond(soft[reached])) /\ spans' = Append(spans, Span(piece, piece'))
      /\ cutting' = cutting /\ text' = text /\ soft' = soft /\ reached' = reached
  BY DEF SplitPiece
<1>2. /\ SplittingHolds /\ reached \in DOMAIN soft /\ soft[reached] \in Spans
      /\ soft[reached].end <= text.length /\ Position = piece
  BY <1>1, SplittingFacts
<1>3. /\ piece \in text.chars /\ soft[reached].start <= piece /\ piece < soft[reached].end
      /\ reached <= Len(soft)
  BY <1>1, <1>2 DEF SplittingHolds
<1>4. /\ text.length \in Nat /\ text.chars \subseteq 0 .. text.length - 1
      /\ cutting.target \in Nat \ {0} /\ text.chars \subseteq Nat
  BY DEF ChunksInv, TextHolds
<1>5. PICK from \in Nat, end \in Nat : from = piece /\ end = soft[reached].end
  BY <1>2, <1>3, <1>4 DEF Spans
<1>6. \A c : c \in Beyond(soft[reached]) <=>
               c \in text.chars /\ from + cutting.target <= c /\ c < end
  BY <1>5 DEF Beyond
<1>7. PICK to \in Nat : /\ to = piece' /\ to \in Beyond(soft[reached])
                        /\ \A y \in Beyond(soft[reached]) : to <= y
  <2>1. Beyond(soft[reached]) \subseteq Nat
    BY <1>4 DEF Beyond
  <2> QED
    BY <1>1, <2>1, LeastOfIds
<1>8. to \in text.chars /\ from + cutting.target <= to /\ to < end
  BY <1>6, <1>7
<1>9. to <= from + cutting.target - 1 + Widest
  <2>1. SUFFICES ASSUME ~ (to <= from + cutting.target - 1 + Widest)
                 PROVE  FALSE
    OBVIOUS
  <2> DEFINE o == from + cutting.target - 1 + Widest
  <2>2. o \in 0 .. text.length - 1 /\ o < to
    BY <1>2, <1>4, <1>5, <1>8, <2>1 DEF Widest
  <2>3. PICK c \in text.chars : c <= o /\ o < c + Widest
    BY <2>2 DEF ChunksInv, TextHolds
  <2>4. c \in Nat /\ from + cutting.target <= c /\ c < to /\ c < end
    BY <1>4, <1>8, <2>2, <2>3 DEF Widest
  <2>5. to <= c
    BY <1>6, <1>7, <2>4
  <2> QED
    BY <2>4, <2>5
<1>10. to - piece <= Longest /\ Longest' = Longest
  <2>1. cutting.target - 1 + Widest <= Longest /\ Longest \in Int
    BY <1>4, LongestSpan
  <2>2. cutting.target - 1 + Widest \in Int /\ Longest' = Longest
    BY <1>1, <1>4 DEF Widest, Longest
  <2> QED
    BY <1>4, <1>5, <1>9, <2>1, <2>2 DEF Widest
<1>11. piece < to
  BY <1>4, <1>5, <1>8
<1>12. /\ Joined(spans', text.chars, to)
       /\ \A k \in DOMAIN spans' : spans'[k].end - spans'[k].start <= Longest
  BY <1>1, <1>2, <1>3, <1>7, <1>10, <1>11, ChunkAdded
<1>13. SplittingHolds'
  <2>1. to # None /\ soft[reached].start <= to
    BY <1>2, <1>3, <1>5, <1>8, <1>4 DEF None, Spans
  <2>2. Position' = to
    BY <1>7, <2>1 DEF Position
  <2> QED
    BY <1>1, <1>2, <1>3, <1>5, <1>7, <1>8, <1>12, <2>1, <2>2 DEF SplittingHolds
<1> QED
  BY <1>1, <1>10, <1>12, <1>13, PassTwo

(* The last piece of a span ends with it.                                  *)
LEMMA LastPieceKeeps ==
  ASSUME ChunksInv, LastPiece
  PROVE  ChunksInv'
<1>1. /\ Splitting /\ piece # None /\ Beyond(soft[reached]) = {}
      /\ spans' = IF piece < soft[reached].end
                  THEN Append(spans, Span(piece, soft[reached].end)) ELSE spans
      /\ reached' = reached + 1 /\ piece' = None
      /\ cutting' = cutting /\ text' = text /\ soft' = soft
  BY DEF LastPiece, NextSpan
<1>2. /\ SplittingHolds /\ reached \in DOMAIN soft /\ soft[reached] \in Spans
      /\ soft[reached].end <= text.length /\ Position = piece
  BY <1>1, SplittingFacts
<1>3. /\ piece \in text.chars /\ soft[reached].start <= piece /\ piece < soft[reached].end
  BY <1>1, <1>2 DEF SplittingHolds
<1>4. /\ text.length \in Nat /\ text.chars \subseteq 0 .. text.length - 1
      /\ cutting.target \in Nat \ {0} /\ text.chars \subseteq Nat
  BY DEF ChunksInv, TextHolds
<1>5. PICK from \in Nat, to \in Nat : from = piece /\ to = soft[reached].end
  BY <1>2, <1>3, <1>4 DEF Spans
<1>6. spans' = Append(spans, Span(piece, to)) /\ piece < to
  BY <1>1, <1>3, <1>5
<1>7. to <= from + cutting.target - 1 + Widest
  <2>1. to - 1 \in 0 .. text.length - 1
    BY <1>2, <1>4, <1>5, <1>6
  <2>2. PICK c \in text.chars : c <= to - 1 /\ to - 1 < c + Widest
    BY <2>1 DEF ChunksInv, TextHolds
  <2>3. c \notin Beyond(soft[reached]) /\ c \in Nat
    BY <1>1, <1>4, <2>2
  <2>4. ~ (from + cutting.target <= c /\ c < to)
    BY <1>5, <2>2, <2>3 DEF Beyond
  <2> QED
    BY <1>4, <2>2, <2>3, <2>4 DEF Widest
<1>8. to - piece <= Longest /\ Longest' = Longest
  <2>1. cutting.target - 1 + Widest <= Longest /\ Longest \in Int
    BY <1>4, LongestSpan
  <2>2. cutting.target - 1 + Widest \in Int /\ Longest' = Longest
    BY <1>1, <1>4 DEF Widest, Longest
  <2> QED
    BY <1>4, <1>5, <1>7, <2>1, <2>2 DEF Widest
<1>9. /\ Joined(spans', text.chars, to)
      /\ \A k \in DOMAIN spans' : spans'[k].end - spans'[k].start <= Longest
  BY <1>2, <1>3, <1>6, <1>8, ChunkAdded
<1>10. SplittingHolds'
  BY <1>1, <1>5, <1>9, AfterSpan
<1> QED
  BY <1>1, <1>8, <1>9, <1>10, PassTwo

(* When every soft span is done, the chunks have reached the end.          *)
LEMMA ChunksEndKeeps ==
  ASSUME ChunksInv, ChunksEnd
  PROVE  ChunksInv'
<1>1. /\ cutting.pass = "characters" /\ reached > Len(soft) /\ cutting'.pass = "done"
      /\ cutting'.target = cutting.target /\ cutting'.code = cutting.code
      /\ DOMAIN cutting' = {"pass", "target", "code"}
      /\ text' = text /\ soft' = soft /\ spans' = spans
  BY DEF ChunksEnd, ChunksInv
<1>2. SplittingHolds
  BY <1>1 DEF ChunksInv
<1>3. Len(soft) \in Nat /\ reached \in Nat /\ ~ (reached <= Len(soft))
  BY <1>1, <1>2 DEF SplittingHolds, Joined
<1>4. Position = text.length
  BY <1>2, <1>3 DEF SplittingHolds, Position
<1>5. Joined(spans', text'.chars, text'.length)
  BY <1>1, <1>2, <1>4 DEF SplittingHolds
<1>6. TextHolds' /\ SoftHolds' /\ Longest' = Longest
  BY <1>1 DEF ChunksInv, TextHolds, SoftHolds, Longest
<1> QED
  BY <1>1, <1>5, <1>6 DEF ChunksInv

(* So the invariant is inductive.                                          *)
LEMMA NextChunksInv == ChunksInv /\ [ChunksNext]_chunkVars => ChunksInv'
<1> SUFFICES ASSUME ChunksInv, [ChunksNext]_chunkVars PROVE ChunksInv'
  OBVIOUS
<1>1. CASE \E line \in Lines : CutAtDeclaration(line)
  BY <1>1, CutAtDeclarationKeeps
<1>2. CASE \E line \in Lines : ReadLine(line)
  BY <1>2, ReadLineKeeps
<1>3. CASE EndOfText
  BY <1>3, EndOfTextKeeps
<1>4. CASE KeepSpan
  BY <1>4, KeepSpanKeeps
<1>5. CASE BeginSplit
  BY <1>5, BeginSplitKeeps
<1>6. CASE SplitPiece
  BY <1>6, SplitPieceKeeps
<1>7. CASE LastPiece
  BY <1>7, LastPieceKeeps
<1>8. CASE ChunksEnd
  BY <1>8, ChunksEndKeeps
<1>9. CASE UNCHANGED chunkVars
  BY <1>9 DEF chunkVars, ChunksInv, TextHolds, SoftHolds, ReadingHolds, SplittingHolds,
              Starts, Position, Longest
<1> QED
  BY <1>1, <1>2, <1>3, <1>4, <1>5, <1>6, <1>7, <1>8, <1>9 DEF ChunksNext

-----------------------------------------------------------------------------

(* Whatever text is cut, and whatever its target: the invariant holds.     *)
THEOREM ChunksInvariant == ChunksSpec => []ChunksInv
BY InitChunksInv, NextChunksInv, PTL DEF ChunksSpec

(* The chunks of a text of any length, in lines of any characters of up to *)
(* four bytes and for any target, cover it without gap or overlap, start   *)
(* at characters, are no longer than twice the target, or the target and a *)
(* character, and leave no declaration deep inside one that could have     *)
(* been cut before it.                                                     *)
THEOREM ChunksTile == ChunksSpec => []ChunksTileTheText
<1>1. ASSUME ChunksInv PROVE ChunksTileTheText
  <2>1. PICK to : Joined(spans, text.chars, to)
    <3>1. CASE cutting.pass = "lines"
      <4>1. spans = <<>>
        BY <1>1, <3>1 DEF ChunksInv, ReadingHolds
      <4> QED
        BY <4>1 DEF Joined
    <3>2. CASE cutting.pass # "lines"
      BY <1>1, <3>2 DEF ChunksInv, SplittingHolds
    <3> QED
      BY <3>1, <3>2
  <2>2. cutting.pass = "done" => Joined(spans, text.chars, text.length)
    BY <1>1 DEF ChunksInv
  <2>3. /\ SoftHolds
        /\ \A k \in DOMAIN spans : spans[k].end - spans[k].start <= Longest
    BY <1>1 DEF ChunksInv
  <2> QED
    BY <2>1, <2>2, <2>3 DEF Joined, SoftHolds, Longest, ChunksTileTheText
<1> QED
  BY <1>1, ChunksInvariant, PTL

(* No declaration that a chunk has passed ever decides where it is cut:    *)
(* the test for one (decl_cut) never holds.                                *)
THEOREM PassedDeclarationsNeverCut ==
  ChunksSpec =>
    [][\A line \in Lines : ReadLine(line) => CutOf(Noted(line)) = Noted(line).soft]_chunkVars
<1>1. ChunksInv /\ [ChunksNext]_chunkVars =>
        [\A line \in Lines : ReadLine(line) => CutOf(Noted(line)) = Noted(line).soft]_chunkVars
  <2>1. ASSUME ChunksInv, NEW line \in Lines, ReadLine(line)
        PROVE  CutOf(Noted(line)) = Noted(line).soft
    BY <2>1, NotedKeeps DEF ReadLine, TakeLine
  <2> QED
    BY <2>1
<1> QED
  BY <1>1, ChunksInvariant, PTL DEF ChunksSpec
=============================================================================
