-------------------------- MODULE FactLedgerProofs --------------------------
(***************************************************************************)
(* Proofs about the fact ledger, for every number of spaces, entities,     *)
(* episodes and rows, and for batches of every length: what it holds at a  *)
(* moment first, then what it keeps (provenance, the reasons of what was   *)
(* superseded, intervals, what was served, and the past).                  *)
(***************************************************************************)
EXTENDS FactLedger, TLAPS

Table == [FactIds -> Fact \cup {NoRow}]

-----------------------------------------------------------------------------
(***************************************************************************)
(* Rows                                                                    *)
(***************************************************************************)

(* Only the placeholder has no status. *)
LEMMA RowIsFact ==
  ASSUME NEW F \in Table, NEW i \in FactIds, F[i].status # "none"
  PROVE  F[i] \in Fact
BY DEF Table, NoRow

(* Superseding a fact closes it and keeps what it says. *)
LEMMA SupersedeFact ==
  ASSUME NEW F \in Table, NEW i \in FactIds, NEW w \in FactIds,
         F[i] \in Fact, F[w] \in Fact
  PROVE  /\ Supersede(F, i, w) \in Fact
         /\ Supersede(F, i, w).status = "closed"
         /\ Supersede(F, i, w).from = F[i].from
         /\ SameStatement(Supersede(F, i, w), F[i])
BY DEF Supersede, Fact, SameStatement, SameTopic

(* The newest of some rows is one of them, when there is only one. *)
LEMMA NewestIsIn ==
  ASSUME NEW F \in Table, NEW I \in SUBSET Active(F), I # {},
         \A i, j \in I : i = j
  PROVE  Newest(F, I) \in I
<1>1. PICK w \in I : TRUE
  OBVIOUS
<1>2. F[w] \in Fact
  BY <1>1, RowIsFact DEF Active
<1>3. \A i \in I : F[i].from <= F[w].from
  BY <1>2 DEF Fact
<1> QED
  BY <1>1, <1>3 DEF Newest

-----------------------------------------------------------------------------
(***************************************************************************)
(* Settling a row that has just become active                              *)
(***************************************************************************)

(* The state settle_active_fact is called in: the other active rows of a   *)
(* table have different topics, and row `id` has just joined them.         *)
Joins(F, id) ==
  /\ F \in Table /\ id \in FactIds /\ F[id].status = "active"
  /\ \A i, j \in Active(F) \ {id} : SameTopic(F[i], F[j]) => i = j

(* Every topic that was active stays active, and does not move back.       *)
Ahead(F, G) ==
  \A i \in Active(F) :
    \E j \in Active(G) : SameTopic(F[i], G[j]) /\ F[i].from <= G[j].from

(* Settling changes what a row says in none of its parts, row by row.      *)
LEMMA SettleRow ==
  ASSUME NEW F, NEW id, Joins(F, id), NEW i \in FactIds
  PROVE  /\ Settle(F, id)[i] \in Fact \cup {NoRow}
         /\ F[i].status = "none" => Settle(F, id)[i] = F[i]
         /\ F[i].status # "active" => Settle(F, id)[i] = F[i]
         /\ F[i].status # "none" =>
              /\ Settle(F, id)[i] \in Fact
              /\ SameStatement(Settle(F, id)[i], F[i])
              /\ Settle(F, id)[i].from = F[i].from
              /\ Settle(F, id)[i].status \in {F[i].status, "closed"}
<1> DEFINE G == Settle(F, id)
<1>1. F[id] \in Fact
  BY RowIsFact DEF Joins
<1>2. CASE i \in Outdated(F, id)
  <2>1. F[i] \in Fact /\ F[i].status = "active"
    BY <1>2, RowIsFact DEF Outdated, Active, Joins
  <2>2. G[i] = Supersede(F, i, id)
    BY <1>2 DEF Settle
  <2> QED
    BY <2>1, <2>2, <1>1, SupersedeFact DEF Joins
<1>3. CASE i = id /\ Newer(F, id) # {} /\ i \notin Outdated(F, id)
  <2> DEFINE w == Newest(F, Newer(F, id))
  <2>1. \A j, k \in Newer(F, id) : j = k
    BY <1>1, RowIsFact DEF Newer, Joins, SameTopic, Active
  <2>2. w \in Newer(F, id)
    BY <1>3, <2>1, NewestIsIn DEF Newer, Joins
  <2>3. w \in FactIds /\ F[w] \in Fact
    BY <2>2, RowIsFact DEF Newer, Active, Joins
  <2>4. G[i] = Supersede(F, id, w)
    BY <1>3 DEF Settle
  <2> QED
    BY <1>1, <1>3, <2>3, <2>4, SupersedeFact DEF Joins
<1>4. CASE i \notin Outdated(F, id) /\ ~(i = id /\ Newer(F, id) # {})
  <2>1. G[i] = F[i]
    BY <1>4 DEF Settle
  <2> QED
    BY <2>1, RowIsFact DEF Joins, Table, SameStatement, SameTopic
<1> QED
  BY <1>2, <1>3, <1>4

(* A settled row leaves its topic with one active row.                     *)
LEMMA SettleOneActive ==
  ASSUME NEW F, NEW id, Joins(F, id)
  PROVE  OneActive(Settle(F, id))
<1> DEFINE G == Settle(F, id)
<1> SUFFICES ASSUME NEW i \in Active(G), NEW j \in Active(G),
                    SameTopic(G[i], G[j]), i # id, i # j
             PROVE  FALSE
  BY DEF OneActive, SameTopic, Active
<1>1. i \in Active(F) /\ j \in Active(F) /\ SameTopic(F[i], F[j])
  <2>1. i \in FactIds /\ j \in FactIds
    BY DEF Active
  <2>2. F[i].status = "active" /\ SameStatement(G[i], F[i])
    BY <2>1, SettleRow DEF Active
  <2>3. F[j].status = "active" /\ SameStatement(G[j], F[j])
    BY <2>1, SettleRow DEF Active
  <2> QED
    BY <2>1, <2>2, <2>3 DEF Active, SameStatement, SameTopic
<1>2. j = id
  BY <1>1 DEF Joins
<1>3. F[i] \in Fact /\ F[id] \in Fact
  BY <1>1, RowIsFact DEF Joins, Active
<1>4. i \notin Outdated(F, id)
  <2> SUFFICES ASSUME i \in Outdated(F, id) PROVE FALSE
    OBVIOUS
  <2>1. G[i] = Supersede(F, i, id)
    BY <1>1 DEF Settle, Active
  <2>2. G[i].status = "closed"
    BY <2>1, <1>1, <1>3, SupersedeFact DEF Joins, Active
  <2> QED
    BY <2>2 DEF Active
<1>5. i \in Newer(F, id)
  BY <1>1, <1>2, <1>3, <1>4 DEF Outdated, Newer, Fact
<1>6. id \notin Outdated(F, id)
  BY DEF Outdated
<1>7. G[id] = Supersede(F, id, Newest(F, Newer(F, id)))
  BY <1>5, <1>6 DEF Settle, Joins
<1>8. Newest(F, Newer(F, id)) \in Newer(F, id)
  <2>1. \A k, l \in Newer(F, id) : k = l
    BY <1>3, RowIsFact DEF Newer, Joins, SameTopic, Active
  <2> QED
    BY <1>5, <2>1, NewestIsIn DEF Newer, Joins
<1>9. G[id].status = "closed"
  BY <1>3, <1>7, <1>8, RowIsFact, SupersedeFact DEF Newer, Joins, Active
<1> QED
  BY <1>2, <1>9 DEF Active

(* A row that joins leaves the topics that were active at least as far on. *)
LEMMA SettleAhead ==
  ASSUME NEW F, NEW id, Joins(F, id), NEW i \in Active(F) \ {id}
  PROVE  \E j \in Active(Settle(F, id)) :
           SameTopic(F[i], Settle(F, id)[j]) /\ F[i].from <= Settle(F, id)[j].from
<1> DEFINE G == Settle(F, id)
<1>1. F[i] \in Fact /\ F[id] \in Fact
  BY RowIsFact DEF Joins, Active
<1>2. CASE i \in Outdated(F, id)
  <2>1. Newer(F, id) = {}
    BY <1>1, <1>2, RowIsFact DEF Newer, Outdated, Joins, SameTopic, Active, Fact
  <2>2. G[id] = F[id]
    BY <2>1 DEF Settle, Outdated, Joins
  <2> QED
    BY <1>2, <2>2 DEF Active, Joins, Outdated, SameTopic
<1>3. CASE i \notin Outdated(F, id)
  <2>1. G[i] = F[i]
    BY <1>3 DEF Settle, Active
  <2> QED
    BY <1>1, <2>1 DEF Active, SameTopic, Fact
<1> QED
  BY <1>2, <1>3

-----------------------------------------------------------------------------
(***************************************************************************)
(* Tables that say no more than another                                    *)
(***************************************************************************)

(* What is active stays unique when rows only leave the present.           *)
LEMMA OneActiveShrinks ==
  ASSUME NEW F, NEW G, OneActive(F),
         \A i \in Active(G) : i \in Active(F) /\ SameTopic(F[i], G[i])
  PROVE  OneActive(G)
BY DEF OneActive, SameTopic

(* So do statements, when no row starts to stand.                          *)
LEMMA OneRowShrinks ==
  ASSUME NEW F, NEW G, OneRow(F),
         \A i \in Standing(G) : i \in Standing(F) /\ SameStatement(F[i], G[i])
  PROVE  OneRow(G)
BY DEF OneRow, SameStatement, SameTopic

(* A table is ahead of itself.                                             *)
LEMMA AheadReflexive ==
  ASSUME NEW F \in Table
  PROVE  Ahead(F, F)
BY RowIsFact DEF Ahead, Active, SameTopic, Fact

(* What is ahead of something ahead is ahead.                              *)
LEMMA AheadTransitive ==
  ASSUME NEW F \in Table, NEW G \in Table, NEW H \in Table,
         Ahead(F, G), Ahead(G, H)
  PROVE  Ahead(F, H)
<1> SUFFICES ASSUME NEW i \in Active(F)
             PROVE  \E k \in Active(H) :
                      SameTopic(F[i], H[k]) /\ F[i].from <= H[k].from
  BY DEF Ahead
<1>1. PICK j \in Active(G) : SameTopic(F[i], G[j]) /\ F[i].from <= G[j].from
  BY DEF Ahead
<1>2. PICK k \in Active(H) : SameTopic(G[j], H[k]) /\ G[j].from <= H[k].from
  BY <1>1 DEF Ahead
<1>3. F[i] \in Fact /\ G[j] \in Fact /\ H[k] \in Fact
  BY RowIsFact DEF Active
<1> QED
  BY <1>1, <1>2, <1>3 DEF SameTopic, Fact

-----------------------------------------------------------------------------
(***************************************************************************)
(* What one extracted fact does to the table                               *)
(***************************************************************************)

(* A table that may be committed.                                          *)
Sound(F) == F \in Table /\ OneActive(F) /\ OneRow(F)

(* A row that joins a table of standing rows leaves a sound one.           *)
LEMMA SettleSound ==
  ASSUME NEW F, NEW id, Joins(F, id), OneRow(F)
  PROVE  Sound(Settle(F, id))
<1>1. Settle(F, id) \in Table
  <2>1. \A i \in FactIds : Settle(F, id)[i] \in Fact \cup {NoRow}
    BY SettleRow
  <2> QED
    BY <2>1 DEF Settle, Table
<1>2. \A i \in Standing(Settle(F, id)) :
        i \in Standing(F) /\ SameStatement(F[i], Settle(F, id)[i])
  <2> SUFFICES ASSUME NEW i \in Standing(Settle(F, id))
               PROVE  i \in Standing(F) /\ SameStatement(F[i], Settle(F, id)[i])
    OBVIOUS
  <2>1. F[i].status # "none" /\ i \in FactIds
    BY SettleRow DEF Standing
  <2> QED
    BY <2>1, SettleRow DEF Standing, SameStatement, SameTopic
<1> QED
  BY <1>1, <1>2, OneRowShrinks, SettleOneActive DEF Sound

(* Strengthening a fact changes nothing else of it.                        *)
LEMMA StrengthenFact ==
  ASSUME NEW f \in Fact, NEW g \in Fact
  PROVE  /\ Strengthen(f, g) \in Fact
         /\ Strengthen(f, g).status = f.status
         /\ Strengthen(f, g).from = f.from
         /\ SameStatement(f, Strengthen(f, g))
<1> DEFINE c == IF g.confidence > f.confidence THEN g.confidence ELSE f.confidence
           h == [f EXCEPT !.confidence = c]
<1>1. c \in Confidences
  BY DEF Fact
<1>2. h \in Fact /\ h.status = f.status /\ h.from = f.from /\ SameStatement(f, h)
      /\ h.sources = f.sources
  BY <1>1 DEF Fact, SameStatement, SameTopic
<1>3. Strengthen(f, g) = [h EXCEPT !.sources = f.sources \cup g.sources]
  BY DEF Strengthen
<1>4. f.sources \cup g.sources \in SUBSET Episodes
  BY DEF Fact
<1> QED
  BY <1>2, <1>3, <1>4 DEF Fact, SameStatement, SameTopic

(* A restatement leaves the table sound and every topic where it is.       *)
LEMMA RestateSound ==
  ASSUME NEW F, Sound(F), NEW f \in Fact, NEW i \in Restated(F, f)
  PROVE  LET G == [F EXCEPT ![i] = Strengthen(@, f)]
         IN  Sound(G) /\ Ahead(F, G)
<1> DEFINE G == [F EXCEPT ![i] = Strengthen(@, f)]
<1>1. F \in Table /\ i \in FactIds /\ F[i] \in Fact
  BY RowIsFact DEF Sound, Restated
<1>2. G[i] = Strengthen(F[i], f)
  BY <1>1 DEF Table
<1>3. G[i] \in Fact /\ G[i].status = F[i].status /\ G[i].from = F[i].from
      /\ SameStatement(F[i], G[i])
  BY <1>1, <1>2, StrengthenFact
<1>4. \A j \in FactIds : j # i => G[j] = F[j]
  BY <1>1 DEF Table
<1>5. \A j \in FactIds : /\ G[j].status = F[j].status
                         /\ F[j].status # "none" =>
                              G[j].from = F[j].from /\ SameStatement(F[j], G[j])
  BY <1>3, <1>4 DEF SameStatement, SameTopic
<1>6. G \in Table
  BY <1>1, <1>3, <1>4 DEF Table
<1>7. OneActive(G)
  <2>1. \A j \in Active(G) : j \in Active(F) /\ SameTopic(F[j], G[j])
    BY <1>5 DEF Active, SameStatement
  <2> QED
    BY <2>1, OneActiveShrinks DEF Sound
<1>8. OneRow(G)
  <2>1. \A j \in Standing(G) : j \in Standing(F) /\ SameStatement(F[j], G[j])
    BY <1>5 DEF Standing
  <2> QED
    BY <2>1, OneRowShrinks DEF Sound
<1>9. Ahead(F, G)
  <2> SUFFICES ASSUME NEW j \in Active(F)
               PROVE  j \in Active(G) /\ SameTopic(F[j], G[j]) /\ F[j].from <= G[j].from
    BY DEF Ahead
  <2>1. F[j] \in Fact
    BY <1>1, RowIsFact DEF Active
  <2> QED
    BY <2>1, <1>5 DEF Active, SameStatement, Fact
<1> QED
  BY <1>6, <1>7, <1>8, <1>9 DEF Sound

(* A new row, active or proposed, is still the only one of its statement.  *)
LEMMA NewRowStands ==
  ASSUME NEW F, Sound(F), NEW f \in Fact, f.status \in {"active", "proposed"},
         Restated(F, f) = {}, NEW id \in FactIds, F[id].status = "none"
  PROVE  LET G == [F EXCEPT ![id] = f]
         IN  /\ G \in Table /\ G[id] = f /\ OneRow(G)
             /\ \A j \in FactIds \ {id} : G[j] = F[j]
<1> DEFINE G == [F EXCEPT ![id] = f]
<1>1. G \in Table /\ G[id] = f /\ \A j \in FactIds \ {id} : G[j] = F[j]
  BY DEF Sound, Table
<1>2. ASSUME NEW j \in Standing(G) \ {id}
      PROVE  j \in Standing(F) /\ ~SameStatement(F[j], f)
  BY <1>1 DEF Standing, Restated
<1>3. ASSUME NEW j \in Standing(G), NEW k \in Standing(G), SameStatement(G[j], G[k])
      PROVE  j = k
  <2>1. CASE j # id /\ k # id
    BY <2>1, <1>1, <1>2, <1>3 DEF Sound, OneRow, Standing
  <2>2. CASE j = id /\ k # id
    BY <2>2, <1>1, <1>2, <1>3 DEF Standing, SameStatement, SameTopic
  <2>3. CASE j # id /\ k = id
    BY <2>3, <1>1, <1>2, <1>3 DEF Standing, SameStatement, SameTopic
  <2> QED
    BY <2>1, <2>2, <2>3
<1> QED
  BY <1>1, <1>3 DEF OneRow

(* Inserting it, settled or held back, leaves the table sound and ahead.   *)
LEMMA InsertSound ==
  ASSUME NEW F, Sound(F), NEW f \in Fact, f.status \in {"active", "proposed"},
         Restated(F, f) = {}, NEW id \in FactIds, F[id].status = "none"
  PROVE  LET G == [F EXCEPT ![id] = f]
             H == IF f.status = "proposed" THEN G ELSE Settle(G, id)
         IN  Sound(H) /\ Ahead(F, H)
<1> DEFINE G == [F EXCEPT ![id] = f]
           H == IF f.status = "proposed" THEN G ELSE Settle(G, id)
<1> SUFFICES Sound(H) /\ Ahead(F, H)
  OBVIOUS
<1>1. /\ G \in Table /\ G[id] = f /\ OneRow(G)
      /\ \A j \in FactIds \ {id} : G[j] = F[j]
  BY NewRowStands
<1>2. \A j \in Active(F) : j # id /\ j \in Active(G) /\ G[j] = F[j]
  BY <1>1 DEF Active
<1>3. \A j \in Active(G) \ {id} : j \in Active(F) /\ G[j] = F[j]
  BY <1>1 DEF Active
<1> HIDE DEF G
<1>4. CASE f.status = "proposed"
  <2>1. \A j \in Active(G) : j \in Active(F) /\ SameTopic(F[j], G[j])
    BY <1>1, <1>3, <1>4 DEF Active, SameTopic
  <2>2. OneActive(G)
    BY <2>1, OneActiveShrinks DEF Sound
  <2>3. Ahead(F, G)
    <3> SUFFICES ASSUME NEW j \in Active(F)
                 PROVE  j \in Active(G) /\ SameTopic(F[j], G[j])
                        /\ F[j].from <= G[j].from
      BY DEF Ahead
    <3>1. F[j] \in Fact
      BY RowIsFact DEF Active, Sound
    <3> QED
      BY <1>2, <3>1 DEF SameTopic, Fact
  <2>4. H = G
    BY <1>4
  <2> HIDE DEF H
  <2> QED
    BY <1>1, <2>2, <2>3, <2>4 DEF Sound
<1>5. CASE f.status = "active"
  <2>1. Joins(G, id)
    BY <1>1, <1>3, <1>5 DEF Joins, Sound, OneActive, SameTopic
  <2>2. Sound(Settle(G, id))
    BY <1>1, <2>1, SettleSound
  <2>3. Ahead(F, Settle(G, id))
    <3> SUFFICES ASSUME NEW j \in Active(F)
                 PROVE  \E k \in Active(Settle(G, id)) :
                          SameTopic(F[j], Settle(G, id)[k])
                          /\ F[j].from <= Settle(G, id)[k].from
      BY DEF Ahead
    <3>1. j \in Active(G) \ {id} /\ G[j] = F[j]
      BY <1>2
    <3> QED
      BY <2>1, <3>1, SettleAhead
  <2>4. H = Settle(G, id)
    BY <1>5
  <2> HIDE DEF H
  <2> QED
    BY <2>2, <2>3, <2>4
<1> QED
  BY <1>4, <1>5

-----------------------------------------------------------------------------
(***************************************************************************)
(* The inductive invariant: the committed table is sound, and so is what   *)
(* an open transaction would commit, which has moved no topic back.        *)
(***************************************************************************)
IInv ==
  /\ TypeOK
  /\ Sound(facts)
  /\ phase = "applying" => Sound(staged) /\ Ahead(facts, staged)

(* A change of one committed row that neither moves it to another statement *)
(* nor starts to hold it true, or to let it stand, keeps the table sound.  *)
LEMMA ChangeRow ==
  ASSUME NEW F, Sound(F), NEW id \in FactIds, F[id].status # "none",
         NEW g \in Fact, SameStatement(F[id], g),
         g.status = "active" => F[id].status = "active",
         g.status \in {"active", "proposed", "declined"}
           => F[id].status \in {"active", "proposed", "declined"}
  PROVE  Sound([F EXCEPT ![id] = g])
<1> DEFINE G == [F EXCEPT ![id] = g]
<1>1. /\ G \in Table /\ G[id] = g
      /\ \A j \in FactIds \ {id} : G[j] = F[j]
  BY DEF Sound, Table
<1> HIDE DEF G
<1>2. \A j \in Active(G) : j \in Active(F) /\ SameTopic(F[j], G[j])
  BY <1>1 DEF Active, SameStatement, SameTopic
<1>3. \A j \in Standing(G) : j \in Standing(F) /\ SameStatement(F[j], G[j])
  BY <1>1 DEF Standing, SameStatement, SameTopic
<1>4. OneActive(G) /\ OneRow(G)
  BY <1>2, <1>3, OneActiveShrinks, OneRowShrinks DEF Sound
<1> QED
  BY <1>1, <1>4 DEF Sound, G

(* An approved row joins its topic.                                        *)
LEMMA ApproveJoins ==
  ASSUME NEW F, Sound(F), NEW id \in FactIds, F[id].status = "proposed"
  PROVE  LET G == [F EXCEPT ![id].status = "active"]
         IN  Joins(G, id) /\ OneRow(G) /\ \A j \in Active(F) : j # id /\ G[j] = F[j]
<1> DEFINE g == [F[id] EXCEPT !.status = "active"]
           G == [F EXCEPT ![id] = g]
<1>1. F[id] \in Fact
  BY RowIsFact DEF Sound
<1>2. g \in Fact /\ g.status = "active" /\ SameStatement(F[id], g)
  BY <1>1 DEF Fact, SameStatement, SameTopic
<1> HIDE DEF g
<1>3. /\ G \in Table /\ G[id] = g
      /\ \A j \in FactIds \ {id} : G[j] = F[j]
  BY <1>2 DEF Sound, Table
<1> HIDE DEF G
<1>4. \A j \in Standing(G) : j \in Standing(F) /\ SameStatement(F[j], G[j])
  BY <1>2, <1>3 DEF Standing, SameStatement, SameTopic
<1>5. OneRow(G)
  BY <1>4, OneRowShrinks DEF Sound
<1>6. \A j \in Active(G) \ {id} : j \in Active(F) /\ G[j] = F[j]
  BY <1>3 DEF Active
<1>7. Joins(G, id)
  BY <1>2, <1>3, <1>6 DEF Joins, Sound, OneActive
<1>8. \A j \in Active(F) : j # id /\ G[j] = F[j]
  BY <1>3 DEF Active
<1> QED
  BY <1>5, <1>7, <1>8 DEF G, g

(* So does an approval, and it moves no topic back.                        *)
LEMMA ApproveSound ==
  ASSUME NEW F, Sound(F), NEW id \in FactIds, F[id].status = "proposed"
  PROVE  LET G == Settle([F EXCEPT ![id].status = "active"], id)
         IN  Sound(G) /\ Ahead(F, G)
<1> DEFINE E == [F EXCEPT ![id].status = "active"]
<1>1. Joins(E, id) /\ OneRow(E) /\ \A j \in Active(F) : j # id /\ E[j] = F[j]
  BY ApproveJoins
<1> HIDE DEF E
<1>2. Sound(Settle(E, id))
  BY <1>1, SettleSound
<1>3. ASSUME NEW i \in Active(F)
      PROVE  \E j \in Active(Settle(E, id)) :
               SameTopic(F[i], Settle(E, id)[j]) /\ F[i].from <= Settle(E, id)[j].from
  <2>1. i \in Active(E) \ {id} /\ E[i] = F[i]
    BY <1>1 DEF Active
  <2> QED
    BY <1>1, <2>1, SettleAhead
<1> QED
  BY <1>2, <1>3 DEF Ahead, E

(* Decay closes rows and does nothing else.                                *)
Decayed(F, I, t) ==
  [i \in FactIds |->
     IF i \in I THEN [F[i] EXCEPT !.status = "expired", !.until = t] ELSE F[i]]

(* Decay takes active facts away and adds none.                            *)
LEMMA DecaySound ==
  ASSUME NEW F, Sound(F), NEW I \in SUBSET Active(F), NEW t \in Nat
  PROVE  /\ Sound(Decayed(F, I, t))
         /\ \A i \in Active(Decayed(F, I, t)) :
              i \in Active(F) /\ Decayed(F, I, t)[i] = F[i]
<1> DEFINE G == Decayed(F, I, t)
<1>1. ASSUME NEW i \in I
      PROVE  i \in FactIds /\ G[i] \in Fact /\ G[i].status = "expired"
  <2>1. i \in FactIds /\ F[i] \in Fact
    BY RowIsFact DEF Sound, Active
  <2> QED
    BY <2>1 DEF Fact, Decayed
<1>2. \A i \in FactIds \ I : G[i] = F[i]
  BY DEF Decayed
<1>3. G \in Table
  BY <1>1, <1>2 DEF Table, Sound, Decayed
<1> HIDE DEF G
<1>4. \A i \in Active(G) : i \in Active(F) /\ G[i] = F[i]
  BY <1>1, <1>2 DEF Active
<1>5. \A i \in Standing(G) : i \in Standing(F) /\ G[i] = F[i]
  BY <1>1, <1>2 DEF Standing
<1>6. OneActive(G) /\ OneRow(G)
  BY <1>4, <1>5 DEF Sound, OneActive, OneRow
<1> QED
  BY <1>3, <1>4, <1>6 DEF Sound, G

-----------------------------------------------------------------------------
(***************************************************************************)
(* The steps of apply_facts                                                *)
(***************************************************************************)

(* An extracted fact asks for a well-formed row.                           *)
LEMMA ClaimIsFact ==
  ASSUME TypeOK, phase = "applying", NEW x \in Extracted
  PROVE  Claim(x) \in Fact /\ Claim(x).status \in {"active", "proposed"}
<1>1. job \in Job /\ alias[x.name] \in Names
  BY DEF TypeOK, Extracted
<1>2. HappenedAt[job.episode] \in Nat
  BY <1>1, LedgerAssumption DEF Job
<1> QED
  BY <1>1, <1>2 DEF Claim, Fact, Job, Extracted, NULL

(* One fact of the batch, restated or inserted.                            *)
LEMMA ApplyFactStep ==
  ASSUME IInv, ApplyFact
  PROVE  IInv'
<1> DEFINE f == Claim(Head(job.batch))
<1>1. job \in Job /\ phase = "applying" /\ job.batch # <<>>
  BY DEF IInv, TypeOK, ApplyFact
<1>2. Head(job.batch) \in Extracted /\ Tail(job.batch) \in Seq(Extracted)
  BY <1>1 DEF Job
<1>3. f \in Fact /\ f.status \in {"active", "proposed"}
  BY <1>1, <1>2, ClaimIsFact DEF IInv
<1>4. Sound(staged) /\ Ahead(facts, staged)
  BY <1>1 DEF IInv
<1>8. Restate(f) \/ Insert(f)
  BY DEF ApplyFact
<1> HIDE DEF f
<1>5. Sound(staged') /\ Ahead(staged, staged')
  <2>1. CASE Restate(f)
    <3>1. PICK i \in Restated(staged, f) :
            staged' = [staged EXCEPT ![i] = Strengthen(@, f)]
      BY <2>1 DEF Restate
    <3> QED
      BY <1>3, <1>4, <3>1, RestateSound
  <2>2. CASE Insert(f)
    <3>1. PICK id \in FactIds :
            /\ IsNextId(staged, id)
            /\ staged' = IF f.status = "proposed" THEN [staged EXCEPT ![id] = f]
                         ELSE Settle([staged EXCEPT ![id] = f], id)
      BY <2>2 DEF Insert
    <3>2. staged[id].status = "none"
      BY <3>1 DEF IsNextId, Rows
    <3> QED
      BY <1>3, <1>4, <2>2, <3>1, <3>2, InsertSound DEF Insert
  <2> QED
    BY <1>8, <2>1, <2>2
<1>6. Ahead(facts, staged')
  BY <1>4, <1>5, AheadTransitive DEF IInv, Sound
<1>7. job' \in Job
  BY <1>1, <1>2 DEF ApplyFact, Job
<1> QED
  BY <1>5, <1>6, <1>7 DEF IInv, TypeOK, ApplyFact, Sound, Table

(* Opening a transaction, committing it, and rolling it back.              *)
LEMMA TransactionStep ==
  ASSUME IInv,
         \/ \E s \in Spaces, e \in Episodes, batch \in Batches, gate \in Gates :
              BeginApply(s, e, batch, gate)
         \/ CommitApply \/ AbortApply
  PROVE  IInv'
<1>1. ASSUME NEW s \in Spaces, NEW e \in Episodes, NEW batch \in Batches,
             NEW gate \in Gates, BeginApply(s, e, batch, gate)
      PROVE  IInv'
  <2>1. job' \in Job
    BY <1>1, LedgerAssumption DEF BeginApply, Job
  <2>2. Sound(facts) /\ Ahead(facts, facts)
    BY AheadReflexive DEF IInv, Sound
  <2> QED
    BY <1>1, <2>1, <2>2 DEF IInv, TypeOK, BeginApply
<1>2. CASE CommitApply
  <2>1. NoRows \in Table
    BY DEF NoRows, Table
  <2>2. Sound(staged)
    BY <1>2 DEF IInv, CommitApply
  <2> QED
    BY <1>2, <2>1, <2>2 DEF IInv, TypeOK, CommitApply, Sound, Table
<1>3. CASE AbortApply
  <2>1. NoRows \in Table
    BY DEF NoRows, Table
  <2> QED
    BY <1>3, <2>1 DEF IInv, TypeOK, AbortApply, Table
<1> QED
  BY <1>1, <1>2, <1>3

-----------------------------------------------------------------------------
(***************************************************************************)
(* The other steps                                                         *)
(***************************************************************************)

(* A reviewer's decision.                                                  *)
LEMMA ReviewStep ==
  ASSUME IInv, NEW s \in Spaces, NEW id \in FactIds, Review(s, id)
  PROVE  IInv'
<1>1. phase = "idle" /\ facts[id].status # "none"
  BY DEF Review, FactsApprove, FactsDecline, FactsClose, FactsExclude, FactsInclude
<1>2. Sound(facts) /\ facts[id] \in Fact
  BY <1>1, RowIsFact DEF IInv, Sound
<1>3. Sound(facts')
  <2>1. CASE FactsApprove(s, id)
    BY <1>2, <2>1, ApproveSound DEF FactsApprove
  <2>2. CASE FactsDecline(s, id)
    <3> DEFINE g == [facts[id] EXCEPT !.status = "declined"]
    <3>1. g \in Fact /\ SameStatement(facts[id], g) /\ g.status = "declined"
      BY <1>2 DEF Fact, SameStatement, SameTopic
    <3>2. facts' = [facts EXCEPT ![id] = g] /\ facts[id].status = "proposed"
      BY <2>2 DEF FactsDecline
    <3> HIDE DEF g
    <3> QED
      BY <1>1, <1>2, <3>1, <3>2, ChangeRow
  <2>3. CASE FactsClose(s, id)
    <3> DEFINE g == [facts[id] EXCEPT !.status = "closed", !.until = now]
    <3>1. g \in Fact /\ SameStatement(facts[id], g) /\ g.status = "closed"
      BY <1>2 DEF Fact, SameStatement, SameTopic, IInv, TypeOK
    <3>2. facts' = [facts EXCEPT ![id] = g]
      BY <1>2, <2>3 DEF FactsClose, Sound, Table
    <3> HIDE DEF g
    <3> QED
      BY <1>1, <1>2, <3>1, <3>2, ChangeRow
  <2>4. CASE FactsExclude(s, id)
    <3> DEFINE g == [facts[id] EXCEPT !.excluded = TRUE]
    <3>1. g \in Fact /\ SameStatement(facts[id], g) /\ g.status = facts[id].status
      BY <1>2 DEF Fact, SameStatement, SameTopic
    <3>2. facts' = [facts EXCEPT ![id] = g]
      BY <2>4 DEF FactsExclude
    <3> HIDE DEF g
    <3> QED
      BY <1>1, <1>2, <3>1, <3>2, ChangeRow
  <2>5. CASE FactsInclude(s, id)
    <3> DEFINE g == [facts[id] EXCEPT !.excluded = FALSE]
    <3>1. g \in Fact /\ SameStatement(facts[id], g) /\ g.status = facts[id].status
      BY <1>2 DEF Fact, SameStatement, SameTopic
    <3>2. facts' = [facts EXCEPT ![id] = g]
      BY <2>5 DEF FactsInclude
    <3> HIDE DEF g
    <3> QED
      BY <1>1, <1>2, <3>1, <3>2, ChangeRow
  <2> QED
    BY <2>1, <2>2, <2>3, <2>4, <2>5 DEF Review
<1>4. revision' \in [Spaces -> Nat] /\ UNCHANGED <<staged, phase, job, alias, recalled, now>>
  BY DEF Review, FactsApprove, FactsDecline, FactsClose, FactsExclude, FactsInclude,
         Unchanged, IInv, TypeOK
<1> QED
  BY <1>1, <1>3, <1>4 DEF IInv, TypeOK, Sound, Table

(* Decay.                                                                  *)
LEMMA DecayStep ==
  ASSUME IInv, NEW s \in Spaces, DecayFacts(s)
  PROVE  IInv' /\ \A i \in Active(facts') : i \in Active(facts) /\ facts'[i] = facts[i]
<1> DEFINE stale == {i \in Active(facts) : facts[i].space = s /\ Stale(facts[i])}
<1>1. stale \in SUBSET Active(facts) /\ now \in Nat /\ Sound(facts) /\ phase = "idle"
  BY DEF IInv, TypeOK, DecayFacts
<1>2. facts' = Decayed(facts, stale, now)
  BY DEF DecayFacts, Decayed
<1> HIDE DEF stale
<1>3. Sound(facts') /\ \A i \in Active(facts') : i \in Active(facts) /\ facts'[i] = facts[i]
  BY <1>1, <1>2, DecaySound
<1>4. UNCHANGED <<staged, phase, job, alias, recalled, revision, now>>
  BY DEF DecayFacts, Unchanged
<1> QED
  BY <1>1, <1>3, <1>4 DEF IInv, TypeOK, Sound, Table

(* Recording that a fact was read.  A row that is gone has no field to set. *)
LEMMA ReinforceStep ==
  ASSUME IInv, NEW id \in FactIds, Reinforce(id)
  PROVE  /\ IInv'
         /\ \A i \in FactIds : /\ facts'[i].status = facts[i].status
                               /\ facts[i].status # "none" =>
                                    SameStatement(facts[i], facts'[i])
                                    /\ facts'[i].from = facts[i].from
<1> DEFINE g == [facts[id] EXCEPT !.accessed = TRUE]
<1>1. Sound(facts) /\ facts \in Table /\ phase = "idle" /\ recalled \in SUBSET FactIds
  BY DEF IInv, Sound, TypeOK, Reinforce
<1>2. facts' = [facts EXCEPT ![id] = g]
  BY DEF Reinforce
<1>3. CASE facts[id].status = "none"
  <2>1. facts[id] = NoRow
    BY <1>1, <1>3 DEF Table, Fact
  <2>2. g = facts[id]
    BY <2>1 DEF NoRow
  <2>3. facts' = facts
    BY <1>1, <1>2, <2>2 DEF Table
  <2> QED
    BY <1>1, <2>3 DEF IInv, TypeOK, Reinforce, Sound, SameStatement, SameTopic
<1>4. CASE facts[id].status # "none"
  <2>1. facts[id] \in Fact
    BY <1>1, <1>4, RowIsFact
  <2>2. /\ g \in Fact /\ SameStatement(facts[id], g)
        /\ g.status = facts[id].status /\ g.from = facts[id].from
    BY <2>1 DEF Fact, SameStatement, SameTopic
  <2> HIDE DEF g
  <2>3. Sound(facts')
    BY <1>1, <1>2, <1>4, <2>2, ChangeRow
  <2>4. facts'[id] = g /\ \A i \in FactIds \ {id} : facts'[i] = facts[i]
    BY <1>1, <1>2 DEF Table
  <2>5. IInv'
    BY <1>1, <2>3 DEF IInv, TypeOK, Reinforce, Sound, Table
  <2> QED
    BY <2>2, <2>4, <2>5 DEF SameStatement, SameTopic
<1> QED
  BY <1>3, <1>4

(* Aliases, recalls and the clock leave the table alone.                   *)
LEMMA QuietStep ==
  ASSUME IInv,
         \/ \E a, canonical \in Names : AddEntityAlias(a, canonical)
         \/ \E s \in Spaces : RecallFacts(s)
         \/ RecallFails \/ Tick \/ UNCHANGED vars
  PROVE  IInv' /\ facts' = facts
<1>1. UNCHANGED <<facts, staged, phase, job>>
  BY DEF AddEntityAlias, RecallFacts, RecallFails, Tick, vars
<1>2. alias' \in [Names -> Names]
  BY DEF AddEntityAlias, RecallFacts, RecallFails, Tick, vars, IInv, TypeOK
<1>3. recalled' \in SUBSET FactIds
  BY DEF AddEntityAlias, RecallFacts, RecallFails, Tick, vars, IInv, TypeOK,
         Served, Rows
<1>4. revision' \in [Spaces -> Nat] /\ now' \in Nat
  BY DEF AddEntityAlias, RecallFacts, RecallFails, Tick, vars, IInv, TypeOK
<1>5. TypeOK'
  BY <1>1, <1>2, <1>3, <1>4 DEF IInv, TypeOK
<1> QED
  BY <1>1, <1>5 DEF IInv, Sound, Ahead, OneActive, OneRow, Active, Standing, Table

-----------------------------------------------------------------------------
(***************************************************************************)
(* The theorems                                                            *)
(***************************************************************************)

(* An empty ledger satisfies the invariant.                                *)
LEMMA InitIInv == Init => IInv
<1> SUFFICES ASSUME Init PROVE IInv
  OBVIOUS
<1>1. facts = NoRows /\ staged = NoRows /\ NoRows \in Table
      /\ \A i \in FactIds : NoRows[i].status = "none"
  BY DEF Init, NoRows, NoRow, Table
<1>2. Sound(facts)
  BY <1>1 DEF Sound, OneActive, OneRow, Active, Standing
<1> QED
  BY <1>1, <1>2, LedgerAssumption DEF Init, IInv, TypeOK, Table

(* Every step keeps it.                                                    *)
LEMMA NextIInv == IInv /\ [Next]_vars => IInv'
<1> SUFFICES ASSUME IInv, [Next]_vars PROVE IInv'
  OBVIOUS
<1>1. CASE \/ \E s \in Spaces, e \in Episodes, batch \in Batches, gate \in Gates :
                BeginApply(s, e, batch, gate)
           \/ CommitApply \/ AbortApply
  BY <1>1, TransactionStep
<1>2. CASE ApplyFact
  BY <1>2, ApplyFactStep
<1>3. CASE \E s \in Spaces, id \in FactIds : Review(s, id)
  BY <1>3, ReviewStep
<1>4. CASE \E s \in Spaces : DecayFacts(s)
  BY <1>4, DecayStep
<1>5. CASE \E id \in FactIds : Reinforce(id)
  BY <1>5, ReinforceStep
<1>6. CASE \/ \E a, canonical \in Names : AddEntityAlias(a, canonical)
           \/ \E s \in Spaces : RecallFacts(s)
           \/ RecallFails \/ Tick \/ UNCHANGED vars
  BY <1>6, QuietStep
<1> QED
  BY <1>1, <1>2, <1>3, <1>4, <1>5, <1>6 DEF Next

(* The invariant holds of every reachable state.                           *)
THEOREM LedgerInvariant == Spec => []IInv
<1> QED
  BY InitIInv, NextIInv, PTL DEF Spec

(* Type correctness of the ledger.                                         *)
THEOREM TypeCorrect == Spec => []TypeOK
<1>1. IInv => TypeOK
  BY DEF IInv
<1> QED
  BY <1>1, LedgerInvariant, PTL

(* I2 holds for every extractor, every review and every order of arrival:  *)
(* no two active facts of the committed table share subject and predicate. *)
THEOREM OneActiveFact == Spec => []OneActivePerTopic
<1>1. IInv => OneActivePerTopic
  BY DEF IInv, Sound, OneActivePerTopic
<1> QED
  BY <1>1, LedgerInvariant, PTL

(* "Strengthen, never duplicate": a standing statement has one row.        *)
THEOREM OneStandingRow == Spec => []OneRowPerStatement
<1>1. IInv => OneRowPerStatement
  BY DEF IInv, Sound, OneRowPerStatement
<1> QED
  BY <1>1, LedgerInvariant, PTL

-----------------------------------------------------------------------------
(***************************************************************************)
(* The ledger implements CurrentTruth                                      *)
(***************************************************************************)

(* The belief on a topic is the one active row it has, or nothing.         *)
LEMMA BeliefIs ==
  ASSUME NEW F, Sound(F), NEW t \in Topics
  PROVE  /\ \A i \in Active(F) :
              Topic(F[i]) = t => Belief(F, t) = [id |-> i, from |-> F[i].from]
         /\ (~\E i \in Active(F) : Topic(F[i]) = t) => Belief(F, t) = Truth!Nothing
         /\ Belief(F, t) \in Truth!Belief \cup {Truth!Nothing}
<1>1. ASSUME NEW i \in Active(F), Topic(F[i]) = t
      PROVE  Belief(F, t) = [id |-> i, from |-> F[i].from]
             /\ Belief(F, t) \in Truth!Belief
  <2>1. \A j \in Active(F) : Topic(F[j]) = t => j = i
    BY <1>1 DEF Sound, OneActive, SameTopic, Topic
  <2>2. (CHOOSE j \in Active(F) : Topic(F[j]) = t) = i
    BY <1>1, <2>1
  <2>3. Belief(F, t) = [id |-> i, from |-> F[i].from]
    BY <1>1, <2>2 DEF Belief
  <2>4. i \in FactIds /\ F[i] \in Fact
    BY RowIsFact DEF Active, Sound
  <2> QED
    BY <2>3, <2>4 DEF Truth!Belief, Fact
<1>2. ASSUME ~\E i \in Active(F) : Topic(F[i]) = t
      PROVE  Belief(F, t) = Truth!Nothing
  BY <1>2 DEF Belief, Truth!Nothing
<1> QED
  BY <1>1, <1>2

(* A table that is ahead of another holds beliefs that are no older.       *)
LEMMA AheadLearns ==
  ASSUME NEW F, NEW G, Sound(F), Sound(G), Ahead(F, G), NEW t \in Topics
  PROVE  \/ Belief(G, t) = Belief(F, t)
         \/ /\ Belief(G, t) # Truth!Nothing
            /\ Belief(G, t).from >= Belief(F, t).from
<1>1. CASE \E i \in Active(F) : Topic(F[i]) = t
  <2>1. PICK i \in Active(F) : Topic(F[i]) = t
    BY <1>1
  <2>2. PICK j \in Active(G) : SameTopic(F[i], G[j]) /\ F[i].from <= G[j].from
    BY DEF Ahead
  <2>3. Topic(G[j]) = t
    BY <2>1, <2>2 DEF Topic, SameTopic
  <2>4. F[i] \in Fact /\ G[j] \in Fact /\ j \in FactIds
    BY RowIsFact DEF Active, Sound
  <2>5. /\ Belief(F, t) = [id |-> i, from |-> F[i].from]
        /\ Belief(G, t) = [id |-> j, from |-> G[j].from]
    BY <2>1, <2>3, BeliefIs
  <2> QED
    BY <2>2, <2>4, <2>5, LedgerAssumption DEF Truth!Nothing, Fact
<1>2. CASE ~\E i \in Active(F) : Topic(F[i]) = t
  <2>1. Belief(F, t) = Truth!Nothing
    BY <1>2, BeliefIs
  <2>2. Belief(G, t) \in Truth!Belief \cup {Truth!Nothing}
    BY BeliefIs
  <2> QED
    BY <2>1, <2>2 DEF Truth!Nothing, Truth!Belief
<1> QED
  BY <1>1, <1>2

(* A table that has only lost active rows holds fewer beliefs.             *)
LEMMA LossRetracts ==
  ASSUME NEW F, NEW G, Sound(F), Sound(G), NEW t \in Topics,
         \A i \in Active(G) : /\ i \in Active(F) /\ SameTopic(F[i], G[i])
                              /\ G[i].from = F[i].from
  PROVE  Belief(G, t) \in {Belief(F, t), Truth!Nothing}
<1>1. CASE \E i \in Active(G) : Topic(G[i]) = t
  <2>1. PICK i \in Active(G) : Topic(G[i]) = t
    BY <1>1
  <2>2. i \in Active(F) /\ Topic(F[i]) = t /\ G[i].from = F[i].from
    BY <2>1 DEF Topic, SameTopic
  <2> QED
    BY <2>1, <2>2, BeliefIs
<1>2. CASE ~\E i \in Active(G) : Topic(G[i]) = t
  BY <1>2, BeliefIs
<1> QED
  BY <1>1, <1>2

(* Rows that keep their status, their topic and their start hold the same  *)
(* beliefs.                                                                *)
LEMMA SameRowsSameBeliefs ==
  ASSUME NEW F, NEW G, Sound(F), Sound(G), NEW t \in Topics,
         \A i \in FactIds : /\ G[i].status = F[i].status
                            /\ F[i].status # "none" =>
                                 SameTopic(F[i], G[i]) /\ G[i].from = F[i].from
  PROVE  Belief(G, t) = Belief(F, t)
<1>1. ASSUME NEW i \in FactIds
      PROVE  i \in Active(G) <=> i \in Active(F)
  <2>1. G[i].status = F[i].status
    OBVIOUS
  <2> QED
    BY <2>1 DEF Active
<1>2. CASE \E i \in Active(F) : Topic(F[i]) = t
  <2>1. PICK i \in Active(F) : Topic(F[i]) = t
    BY <1>2
  <2>2. i \in Active(G) /\ Topic(G[i]) = t /\ G[i].from = F[i].from
    BY <1>1, <2>1 DEF Active, Topic, SameTopic
  <2> QED
    BY <2>1, <2>2, BeliefIs
<1>3. CASE ~\E i \in Active(F) : Topic(F[i]) = t
  <2>1. ~\E i \in Active(G) : Topic(G[i]) = t
    BY <1>1, <1>3 DEF Active, Topic, SameTopic
  <2> QED
    BY <1>3, <2>1, BeliefIs
<1> QED
  BY <1>2, <1>3

(* A step that leaves the ledger ahead of itself is a step of learning.    *)
LEMMA LearnStep ==
  ASSUME Sound(facts), Sound(facts'), Ahead(facts, facts')
  PROVE  Truth!Learn
<1>1. \A t \in Topics : /\ Current[t] = Belief(facts, t)
                        /\ Current'[t] = Belief(facts', t)
  BY DEF Current
<1>2. Current' \in [Topics -> Truth!Belief \cup {Truth!Nothing}]
  BY BeliefIs DEF Current
<1>3. \A t \in Topics : \/ Current'[t] = Current[t]
                        \/ /\ Current'[t] # Truth!Nothing
                           /\ Current'[t].from >= Current[t].from
  BY <1>1, AheadLearns
<1> QED
  BY <1>2, <1>3 DEF Truth!Learn

(* One that only loses active rows is a step of retraction.                *)
LEMMA RetractStep ==
  ASSUME Sound(facts), Sound(facts'),
         \A i \in Active(facts') : /\ i \in Active(facts)
                                   /\ SameTopic(facts[i], facts'[i])
                                   /\ facts'[i].from = facts[i].from
  PROVE  Truth!Retract
<1>1. \A t \in Topics : /\ Current[t] = Belief(facts, t)
                        /\ Current'[t] = Belief(facts', t)
  BY DEF Current
<1>2. Current' \in [Topics -> Truth!Belief \cup {Truth!Nothing}]
  BY BeliefIs DEF Current
<1>3. \A t \in Topics : Current'[t] \in {Current[t], Truth!Nothing}
  BY <1>1, LossRetracts
<1> QED
  BY <1>2, <1>3 DEF Truth!Retract

(* A review either learns, by an approval, or retracts.                    *)
LEMMA ReviewTruth ==
  ASSUME IInv, IInv', NEW s \in Spaces, NEW id \in FactIds, Review(s, id)
  PROVE  Truth!Next
<1>1. Sound(facts) /\ Sound(facts')
  BY DEF IInv, Sound, OneActive, OneRow, Active, Standing, Table
<1>2. CASE FactsApprove(s, id)
  <2>1. Ahead(facts, facts')
    BY <1>1, <1>2, ApproveSound DEF FactsApprove
  <2> QED
    BY <1>1, <2>1, LearnStep DEF Truth!Next
<1>3. CASE FactsDecline(s, id) \/ FactsClose(s, id) \/ FactsExclude(s, id) \/ FactsInclude(s, id)
  <2>1. facts[id].status # "none" /\ facts[id] \in Fact /\ facts \in Table
    BY <1>1, <1>3, RowIsFact DEF FactsDecline, FactsClose, FactsExclude, FactsInclude, Sound
  <2>2. \A i \in FactIds \ {id} : facts'[i] = facts[i]
    BY <1>3, <2>1 DEF FactsDecline, FactsClose, FactsExclude, FactsInclude, Table
  <2>3. /\ facts'[id].status = "active" => facts[id].status = "active"
        /\ SameTopic(facts[id], facts'[id]) /\ facts'[id].from = facts[id].from
    BY <1>3, <2>1
    DEF FactsDecline, FactsClose, FactsExclude, FactsInclude, Table, Fact, SameTopic
  <2>4. ASSUME NEW i \in Active(facts')
        PROVE  /\ i \in Active(facts) /\ SameTopic(facts[i], facts'[i])
               /\ facts'[i].from = facts[i].from
    BY <2>2, <2>3 DEF Active, SameTopic
  <2> QED
    BY <1>1, <2>4, RetractStep DEF Truth!Next
<1> QED
  BY <1>2, <1>3 DEF Review

(* Every step of the ledger is a step of CurrentTruth, or leaves it alone. *)
LEMMA NextTruth == IInv /\ IInv' /\ [Next]_vars => [Truth!Next]_Current
<1> SUFFICES ASSUME IInv, IInv', [Next]_vars PROVE Truth!Next \/ UNCHANGED Current
  OBVIOUS
<1>1. Sound(facts) /\ Sound(facts')
  BY DEF IInv, Sound, OneActive, OneRow, Active, Standing, Table
<1>2. CASE CommitApply
  <2>1. Ahead(facts, facts')
    BY <1>2 DEF CommitApply, IInv, Ahead, Active
  <2> QED
    BY <1>1, <2>1, LearnStep DEF Truth!Next
<1>3. CASE \E s \in Spaces, id \in FactIds : Review(s, id)
  BY <1>3, ReviewTruth
<1>4. CASE \E s \in Spaces : DecayFacts(s)
  <2>1. \A i \in Active(facts') : i \in Active(facts) /\ facts'[i] = facts[i]
    BY <1>4, DecayStep
  <2> QED
    BY <1>1, <2>1, RetractStep DEF Truth!Next, SameTopic
<1>5. CASE \E id \in FactIds : Reinforce(id)
  <2>1. \A i \in FactIds : /\ facts'[i].status = facts[i].status
                           /\ facts[i].status # "none" =>
                                SameTopic(facts[i], facts'[i])
                                /\ facts'[i].from = facts[i].from
    BY <1>5, ReinforceStep DEF SameStatement
  <2> QED
    BY <1>1, <2>1, SameRowsSameBeliefs DEF Current
<1>6. CASE facts' = facts
  BY <1>6 DEF Current, Belief, Active
<1>7. CASE \/ \E s \in Spaces, e \in Episodes, batch \in Batches, gate \in Gates :
                BeginApply(s, e, batch, gate)
           \/ ApplyFact \/ AbortApply
  BY <1>6, <1>7 DEF BeginApply, ApplyFact, AbortApply
<1>8. CASE \/ \E a, canonical \in Names : AddEntityAlias(a, canonical)
           \/ \E s \in Spaces : RecallFacts(s)
           \/ RecallFails \/ Tick \/ UNCHANGED vars
  BY <1>6, <1>8, QuietStep
<1> QED
  BY <1>2, <1>3, <1>4, <1>5, <1>7, <1>8 DEF Next

(* The ledger implements CurrentTruth: documents, in whatever order they   *)
(* are read, only ever move what is held true on a topic forward in time,  *)
(* and only a person or decay leaves a topic with nothing.                 *)
THEOREM ImplementsCurrentTruth == Spec => TruthMovesForward
<1>1. Init => Truth!Init
  <2> SUFFICES ASSUME Init PROVE Truth!Init
    OBVIOUS
  <2>1. Sound(facts) /\ Active(facts) = {}
    <3>1. IInv
      BY InitIInv
    <3> QED
      BY <3>1 DEF IInv, Init, NoRows, NoRow, Active
  <2>2. \A t \in Topics : Belief(facts, t) = Truth!Nothing
    BY <2>1, BeliefIs
  <2> QED
    BY <2>2 DEF Current, Truth!Init
<1>2. IInv /\ IInv' /\ [Next]_vars => [Truth!Next]_Current
  BY NextTruth
<1> QED
  BY <1>1, <1>2, LedgerInvariant, PTL DEF Spec, TruthMovesForward, Truth!Spec

-----------------------------------------------------------------------------
(***************************************************************************)
(* What a row may say by itself, and of the row that superseded it         *)
(***************************************************************************)

InLedger(f) == f.status \in {"active", "closed", "expired"}

(* What a row may say by itself.                                           *)
Own(f) ==
  /\ f.sources # {} /\ \A e \in f.sources : EpisodeSpace[e] = f.space
  /\ f.accessed \/ f.excluded => InLedger(f)

(* Row i, if it was superseded, was superseded in place.                   *)
InPlace(F, i) ==
  F[i].by # NULL =>
    /\ F[i].status = "closed" /\ F[i].by # i
    /\ InLedger(F[F[i].by]) /\ SameTopic(F[i], F[F[i].by])
    /\ F[i].until = F[F[i].by].from

Lawful(F) == \A i \in Rows(F) : Own(F[i]) /\ InPlace(F, i)

(* A row goes on as another.                                               *)
GoesOn(f, g) ==
  /\ KeepsHistory(f, g)
  /\ InLedger(f) => InLedger(g)
  /\ f.by # NULL => g.by # NULL

Follows(F, G) == \A i \in Rows(F) : i \in Rows(G) /\ GoesOn(F[i], G[i])

(* What held at a time of T still does, or has been superseded.            *)
Remembers(F, G, T) ==
  \A i \in Rows(F), t \in T : Holds(F[i], t) => Holds(G[i], t) \/ G[i].by # NULL

-----------------------------------------------------------------------------
(***************************************************************************)
(* Rows that go on as others                                               *)
(***************************************************************************)

(* A row goes on as itself.                                                *)
LEMMA GoesOnReflexive ==
  ASSUME NEW f \in Fact
  PROVE  GoesOn(f, f)
<1>1. f.confidence \in Nat
  BY LedgerAssumption DEF Fact
<1>2. f.confidence <= f.confidence
  BY <1>1
<1> QED
  BY <1>2 DEF GoesOn, KeepsHistory, SameStatement, SameTopic

(* What goes on in two steps goes on.                                      *)
LEMMA GoesOnTransitive ==
  ASSUME NEW f \in Fact, NEW g \in Fact, NEW h \in Fact, GoesOn(f, g), GoesOn(g, h)
  PROVE  GoesOn(f, h)
<1>1. f.confidence \in Nat /\ g.confidence \in Nat /\ h.confidence \in Nat
  BY LedgerAssumption DEF Fact
<1>2. f.confidence <= h.confidence
  BY <1>1 DEF GoesOn, KeepsHistory
<1> QED
  BY <1>2 DEF GoesOn, KeepsHistory, SameStatement, SameTopic

(* A table follows itself.                                                 *)
LEMMA FollowsReflexive ==
  ASSUME NEW F \in Table
  PROVE  Follows(F, F)
BY RowIsFact, GoesOnReflexive DEF Follows, Rows

(* What follows in two steps follows.                                      *)
LEMMA FollowsTransitive ==
  ASSUME NEW F \in Table, NEW G \in Table, NEW H \in Table, Follows(F, G), Follows(G, H)
  PROVE  Follows(F, H)
<1> SUFFICES ASSUME NEW i \in Rows(F)
             PROVE  i \in Rows(H) /\ GoesOn(F[i], H[i])
  BY DEF Follows
<1>1. i \in Rows(G) /\ i \in Rows(H) /\ GoesOn(F[i], G[i]) /\ GoesOn(G[i], H[i])
  BY DEF Follows
<1>2. F[i] \in Fact /\ G[i] \in Fact /\ H[i] \in Fact
  BY <1>1, RowIsFact DEF Rows
<1> QED
  BY <1>1, <1>2, GoesOnTransitive

(* So does what is remembered: a superseded row stays superseded.          *)
LEMMA RemembersTransitive ==
  ASSUME NEW F, NEW G, NEW H, NEW T, Follows(F, G), Follows(G, H),
         Remembers(F, G, T), Remembers(G, H, T)
  PROVE  Remembers(F, H, T)
BY DEF Remembers, Follows, GoesOn

(* A table that follows a lawful one is lawful if what is new in it is: a  *)
(* row that was superseded in place stays so, since neither its end nor    *)
(* the row it names can move.                                              *)
LEMMA LawFollows ==
  ASSUME NEW F \in Table, NEW G \in Table, Lawful(F), Follows(F, G),
         \A i \in Rows(G) : Own(G[i]),
         \A i \in Rows(G) : \/ i \in Rows(F) /\ G[i].by = F[i].by
                            \/ InPlace(G, i)
  PROVE  Lawful(G)
<1> SUFFICES ASSUME NEW i \in Rows(G), i \in Rows(F), G[i].by = F[i].by, G[i].by # NULL
             PROVE  InPlace(G, i)
  BY DEF Lawful, InPlace
<1> DEFINE w == F[i].by
<1>1. /\ F[i].status = "closed" /\ w # i /\ InLedger(F[w])
      /\ SameTopic(F[i], F[w]) /\ F[i].until = F[w].from
  BY DEF Lawful, InPlace
<1>2. F[i] \in Fact
  BY RowIsFact DEF Rows
<1>3. w \in Rows(F)
  BY <1>1, <1>2 DEF Rows, Fact, InLedger
<1>4. GoesOn(F[i], G[i]) /\ GoesOn(F[w], G[w])
  BY <1>3 DEF Follows
<1>5. G[i].status = "closed" /\ G[i].until = F[i].until /\ SameTopic(F[i], G[i])
  BY <1>1, <1>4 DEF GoesOn, KeepsHistory, SameStatement
<1>6. InLedger(G[w]) /\ G[w].from = F[w].from /\ SameTopic(F[w], G[w])
  BY <1>1, <1>4 DEF GoesOn, KeepsHistory, SameStatement
<1> QED
  BY <1>1, <1>5, <1>6 DEF InPlace, SameTopic

-----------------------------------------------------------------------------
(***************************************************************************)
(* What may happen to a table                                              *)
(***************************************************************************)

(* A row that stays as it is, or goes on and supersedes nothing.           *)
Carries(f, g) ==
  /\ f \in Fact /\ g \in Fact
  /\ GoesOn(f, g) /\ Own(g) /\ g.by = f.by

(* Rows that are carried on keep a table lawful.                           *)
LEMMA CarriedLaw ==
  ASSUME NEW F \in Table, NEW G \in Table, Lawful(F),
         \A i \in FactIds : G[i] = F[i] \/ Carries(F[i], G[i])
  PROVE  Lawful(G) /\ Follows(F, G)
<1>1. Follows(F, G)
  <2> SUFFICES ASSUME NEW i \in Rows(F)
               PROVE  i \in Rows(G) /\ GoesOn(F[i], G[i])
    BY DEF Follows
  <2>1. F[i] \in Fact /\ i \in FactIds
    BY RowIsFact DEF Rows
  <2>2. CASE G[i] = F[i]
    BY <2>1, <2>2, GoesOnReflexive DEF Rows
  <2>3. CASE Carries(F[i], G[i])
    BY <2>1, <2>3 DEF Carries, Rows, Fact
  <2> QED
    BY <2>1, <2>2, <2>3
<1>2. \A i \in Rows(G) : i \in Rows(F) /\ Own(G[i]) /\ G[i].by = F[i].by
  <2> SUFFICES ASSUME NEW i \in Rows(G)
               PROVE  i \in Rows(F) /\ Own(G[i]) /\ G[i].by = F[i].by
    OBVIOUS
  <2>1. i \in FactIds /\ G[i].status # "none"
    BY DEF Rows
  <2>2. CASE G[i] = F[i]
    BY <2>1, <2>2 DEF Rows, Lawful
  <2>3. CASE Carries(F[i], G[i])
    BY <2>1, <2>3 DEF Carries, Rows, Fact
  <2> QED
    BY <2>1, <2>2, <2>3
<1> QED
  BY <1>1, <1>2, LawFollows

(* So does a new row that was taught by episodes of its space.             *)
LEMMA NewRowLaw ==
  ASSUME NEW F \in Table, NEW G \in Table, Lawful(F), NEW id \in FactIds,
         F[id].status = "none", G[id] \in Fact, Own(G[id]), G[id].by = NULL,
         \A i \in FactIds \ {id} : G[i] = F[i]
  PROVE  Lawful(G) /\ Follows(F, G) /\ \A T : Remembers(F, G, T)
<1>1. \A i \in Rows(F) : i # id /\ i \in FactIds /\ G[i] = F[i] /\ F[i] \in Fact
  BY RowIsFact DEF Rows
<1>2. Follows(F, G)
  BY <1>1, GoesOnReflexive DEF Follows, Rows
<1>3. \A i \in Rows(G) : i = id \/ (i \in Rows(F) /\ G[i] = F[i])
  BY DEF Rows
<1>4. \A i \in Rows(G) : Own(G[i])
  BY <1>3 DEF Lawful
<1>5. Lawful(G)
  BY <1>2, <1>3, <1>4, LawFollows DEF InPlace
<1> QED
  BY <1>1, <1>2, <1>5 DEF Remembers

(* What settling does to a row: nothing, or it is superseded by another    *)
(* active row of its topic that is no older.                               *)
LEMMA SettleMoves ==
  ASSUME NEW F, NEW id, Joins(F, id), NEW i \in FactIds
  PROVE  \/ Settle(F, id)[i] = F[i]
         \/ /\ i \in Active(F)
            /\ \E w \in Active(F) \ {i} :
                 /\ Settle(F, id)[i] = Supersede(F, i, w)
                 /\ SameTopic(F[i], F[w]) /\ F[i].from <= F[w].from
<1>1. F[id] \in Fact /\ id \in Active(F)
  BY RowIsFact DEF Joins, Active
<1>2. CASE i \in Outdated(F, id)
  BY <1>1, <1>2 DEF Settle, Outdated
<1>3. CASE i = id /\ Newer(F, id) # {} /\ i \notin Outdated(F, id)
  <2> DEFINE w == Newest(F, Newer(F, id))
  <2>1. \A j, k \in Newer(F, id) : j = k
    BY <1>1, RowIsFact DEF Newer, Joins, SameTopic, Active
  <2>2. w \in Newer(F, id)
    BY <1>3, <2>1, NewestIsIn DEF Newer, Joins
  <2>3. w \in Active(F) \ {i} /\ SameTopic(F[i], F[w]) /\ F[i].from < F[w].from
    BY <1>3, <2>2 DEF Newer, SameTopic
  <2>4. F[w] \in Fact
    BY <2>3, RowIsFact DEF Active, Joins
  <2>5. F[i].from <= F[w].from
    BY <1>1, <1>3, <2>3, <2>4 DEF Fact
  <2>6. Settle(F, id)[i] = Supersede(F, i, w)
    BY <1>3 DEF Settle
  <2> QED
    BY <1>1, <1>3, <2>3, <2>5, <2>6
<1>4. CASE i \notin Outdated(F, id) /\ ~(i = id /\ Newer(F, id) # {})
  BY <1>4 DEF Settle
<1> QED
  BY <1>2, <1>3, <1>4

(* A superseded row goes on.                                               *)
LEMMA SupersedeGoesOn ==
  ASSUME NEW F \in Table, NEW i \in Active(F), NEW w \in Active(F)
  PROVE  /\ GoesOn(F[i], Supersede(F, i, w))
         /\ Supersede(F, i, w).status = "closed" /\ Supersede(F, i, w).by = w
         /\ Supersede(F, i, w).until = F[w].from
         /\ Own(F[i]) => Own(Supersede(F, i, w))
<1>1. F[i] \in Fact /\ F[w] \in Fact /\ i \in FactIds /\ w \in FactIds
  BY RowIsFact DEF Active
<1>2. F[i].status = "active" /\ w # NULL
  BY <1>1, LedgerAssumption DEF Active, NULL
<1>3. GoesOn(F[i], F[i])
  BY <1>1, GoesOnReflexive
<1> DEFINE g == Supersede(F, i, w)
<1>4. /\ g.space = F[i].space /\ g.subject = F[i].subject /\ g.predicate = F[i].predicate
      /\ g.object = F[i].object /\ g.from = F[i].from /\ g.sources = F[i].sources
      /\ g.confidence = F[i].confidence /\ g.accessed = F[i].accessed
      /\ g.excluded = F[i].excluded
      /\ g.status = "closed" /\ g.by = w /\ g.until = F[w].from
  BY <1>1 DEF Supersede, Fact
<1> HIDE DEF g
<1>5. GoesOn(F[i], g)
  BY <1>2, <1>3, <1>4 DEF GoesOn, KeepsHistory, SameStatement, SameTopic, InLedger
<1>6. Own(F[i]) => Own(g)
  BY <1>4 DEF Own, InLedger
<1> QED
  BY <1>4, <1>5, <1>6 DEF g

(* Settling a row leaves a lawful table, and takes nothing out of the past *)
(* that another row has not superseded.                                    *)
LEMMA SettleLaw ==
  ASSUME NEW F, NEW id, Joins(F, id), Lawful(F)
  PROVE  LET G == Settle(F, id)
         IN  G \in Table /\ Lawful(G) /\ Follows(F, G) /\ \A T : Remembers(F, G, T)
<1> DEFINE G == Settle(F, id)
<1>1. F \in Table
  BY DEF Joins
<1>2. G \in Table
  <2>1. \A i \in FactIds : G[i] \in Fact \cup {NoRow}
    BY SettleRow
  <2> QED
    BY <2>1 DEF Settle, Table
<1>3. \A i \in FactIds :
        \/ G[i] = F[i]
        \/ /\ i \in Active(F)
           /\ \E w \in Active(F) \ {i} :
                /\ G[i] = Supersede(F, i, w)
                /\ SameTopic(F[i], F[w])
  BY SettleMoves
<1>4. \A i \in Active(F) : InLedger(G[i]) /\ SameTopic(G[i], F[i]) /\ G[i].from = F[i].from
  BY SettleRow DEF Active, InLedger, SameStatement
<1> HIDE DEF G
<1>5. ASSUME NEW i \in Rows(F)
      PROVE  /\ i \in Rows(G) /\ GoesOn(F[i], G[i]) /\ Own(G[i])
             /\ G[i] = F[i] \/ (InPlace(G, i) /\ G[i].by # NULL)
  <2>1. i \in FactIds /\ F[i] \in Fact /\ Own(F[i])
    BY <1>1, RowIsFact DEF Rows, Lawful
  <2>2. CASE G[i] = F[i]
    BY <2>1, <2>2, GoesOnReflexive DEF Rows
  <2>3. CASE G[i] # F[i]
    <3>1. PICK w \in Active(F) \ {i} :
            G[i] = Supersede(F, i, w) /\ SameTopic(F[i], F[w])
      BY <1>3, <2>1, <2>3
    <3>2. i \in Active(F)
      BY <1>3, <2>1, <2>3
    <3>3. /\ GoesOn(F[i], G[i]) /\ G[i].status = "closed" /\ G[i].by = w
          /\ G[i].until = F[w].from /\ Own(G[i])
      BY <1>1, <2>1, <3>1, <3>2, SupersedeGoesOn
    <3>4. InLedger(G[w]) /\ SameTopic(G[i], G[w]) /\ G[w].from = F[w].from
      BY <1>4, <3>1, <3>2 DEF SameTopic
    <3>5. w # NULL
      BY LedgerAssumption DEF Active, NULL
    <3> QED
      BY <2>1, <3>1, <3>3, <3>4, <3>5 DEF InPlace, Rows
  <2> QED
    BY <2>2, <2>3
<1>6. \A i \in Rows(G) : i \in Rows(F)
  <2> SUFFICES ASSUME NEW i \in FactIds, F[i].status = "none"
               PROVE  G[i].status = "none"
    BY DEF Rows
  <2> QED
    BY SettleRow DEF G
<1>7. Follows(F, G)
  BY <1>5 DEF Follows
<1>8. Lawful(G)
  BY <1>1, <1>2, <1>5, <1>6, <1>7, LawFollows
<1>9. ASSUME NEW T PROVE Remembers(F, G, T)
  BY <1>5 DEF Remembers
<1> QED
  BY <1>2, <1>7, <1>8, <1>9 DEF G

-----------------------------------------------------------------------------
(***************************************************************************)
(* The inductive invariant, beside IInv: both tables are lawful, what a    *)
(* recall holds is of the ledger, and an open transaction, of an episode   *)
(* of its space, would commit a table that follows the committed one and   *)
(* remembers whatever held in it.                                          *)
(***************************************************************************)
HInv ==
  /\ Lawful(facts)
  /\ \A i \in recalled : InLedger(facts[i])
  /\ phase = "applying" =>
       /\ EpisodeSpace[job.episode] = job.space
       /\ Lawful(staged)
       /\ Follows(facts, staged)
       /\ Remembers(facts, staged, Nat)

(* The times before the clock's.                                           *)
Past == 0 .. now - 1

(* A claim is taught by an episode of its space.                           *)
LEMMA ClaimIsOwn ==
  ASSUME TypeOK, HInv, phase = "applying", NEW x \in Extracted
  PROVE  Own(Claim(x)) /\ Claim(x).by = NULL /\ Claim(x).until = NULL
BY DEF HInv, Own, Claim, InLedger

(* A strengthened row carries on.                                          *)
LEMMA StrengthenCarries ==
  ASSUME NEW f \in Fact, NEW g \in Fact, Own(f), Own(g), SameStatement(f, g)
  PROVE  /\ Carries(f, Strengthen(f, g))
         /\ Strengthen(f, g).until = f.until
<1> DEFINE h == Strengthen(f, g)
<1>1. h \in Fact /\ h.status = f.status /\ h.from = f.from /\ SameStatement(f, h)
  BY StrengthenFact
<1>2. /\ h.by = f.by /\ h.until = f.until /\ h.accessed = f.accessed
      /\ h.excluded = f.excluded /\ h.sources = f.sources \cup g.sources
      /\ h.space = f.space
      /\ h.confidence = IF g.confidence > f.confidence THEN g.confidence ELSE f.confidence
  BY DEF Strengthen, Fact
<1>3. f.confidence \in Nat /\ g.confidence \in Nat
  BY LedgerAssumption DEF Fact
<1>4. f.confidence <= h.confidence
  BY <1>2, <1>3
<1>5. g.space = f.space
  BY DEF SameStatement, SameTopic
<1> HIDE DEF h
<1>6. Own(h)
  BY <1>1, <1>2, <1>5 DEF Own, InLedger
<1>7. GoesOn(f, h)
  BY <1>1, <1>2, <1>4 DEF GoesOn, KeepsHistory, InLedger
<1> QED
  BY <1>1, <1>2, <1>6, <1>7 DEF Carries, h

(* One fact of the batch.                                                  *)
LEMMA ApplyFactLaw ==
  ASSUME IInv, HInv, ApplyFact
  PROVE  HInv'
<1> DEFINE f == Claim(Head(job.batch))
<1>1. job \in Job /\ phase = "applying" /\ job.batch # <<>> /\ Sound(staged)
  BY DEF IInv, TypeOK, ApplyFact
<1>2. Head(job.batch) \in Extracted
  BY <1>1 DEF Job
<1>3. f \in Fact /\ f.status \in {"active", "proposed"}
  BY <1>1, <1>2, ClaimIsFact DEF IInv
<1>4. Own(f) /\ f.by = NULL
  BY <1>1, <1>2, ClaimIsOwn DEF IInv
<1>5. /\ Lawful(staged) /\ Follows(facts, staged) /\ Remembers(facts, staged, Nat)
      /\ facts \in Table /\ staged \in Table
  BY <1>1 DEF HInv, IInv, Sound
<1>6. Restate(f) \/ Insert(f)
  BY DEF ApplyFact
<1> HIDE DEF f
<1>7. /\ staged' \in Table /\ Lawful(staged') /\ Follows(staged, staged')
      /\ Remembers(staged, staged', Nat)
  <2>1. CASE Restate(f)
    <3>1. PICK i \in Restated(staged, f) :
            staged' = [staged EXCEPT ![i] = Strengthen(@, f)]
      BY <2>1 DEF Restate
    <3>2. i \in FactIds /\ staged[i] \in Fact /\ Own(staged[i]) /\ SameStatement(staged[i], f)
      BY <1>5, RowIsFact DEF Restated, Lawful, Rows
    <3>3. staged'[i] = Strengthen(staged[i], f)
          /\ \A j \in FactIds \ {i} : staged'[j] = staged[j]
      BY <1>5, <3>1, <3>2 DEF Table
    <3>4. /\ Carries(staged[i], staged'[i]) /\ staged'[i].until = staged[i].until
          /\ staged'[i].status = staged[i].status /\ staged'[i].from = staged[i].from
      BY <1>3, <1>4, <3>2, <3>3, StrengthenCarries, StrengthenFact
    <3>5. staged' \in Table
      BY <1>5, <3>1, <3>3, <3>4 DEF Table, Carries
    <3>6. Lawful(staged') /\ Follows(staged, staged')
      BY <1>5, <3>3, <3>4, <3>5, CarriedLaw
    <3>7. Remembers(staged, staged', Nat)
      BY <3>3, <3>4 DEF Remembers, Holds, Rows
    <3> QED
      BY <3>5, <3>6, <3>7
  <2>2. CASE Insert(f)
    <3>1. PICK id \in FactIds :
            /\ IsNextId(staged, id)
            /\ staged' = IF f.status = "proposed" THEN [staged EXCEPT ![id] = f]
                         ELSE Settle([staged EXCEPT ![id] = f], id)
      BY <2>2 DEF Insert
    <3>2. staged[id].status = "none" /\ Restated(staged, f) = {}
      BY <2>2, <3>1 DEF IsNextId, Rows, Insert
    <3> DEFINE G == [staged EXCEPT ![id] = f]
    <3>3. G \in Table /\ G[id] = f /\ \A j \in FactIds \ {id} : G[j] = staged[j]
      BY <1>1, <1>3, <3>2, NewRowStands
    <3> HIDE DEF G
    <3>4. Lawful(G) /\ Follows(staged, G) /\ Remembers(staged, G, Nat)
      BY <1>3, <1>4, <1>5, <3>2, <3>3, NewRowLaw
    <3>5. CASE f.status = "proposed"
      BY <3>1, <3>3, <3>4, <3>5 DEF G
    <3>6. CASE f.status # "proposed"
      <4>1. f.status = "active" /\ staged' = Settle(G, id)
        BY <1>3, <3>1, <3>6 DEF G
      <4>2. \A j \in Active(G) \ {id} : j \in Active(staged) /\ G[j] = staged[j]
        BY <3>3 DEF Active
      <4>3. Joins(G, id)
        BY <1>1, <3>3, <4>1, <4>2 DEF Joins, Sound, OneActive, SameTopic
      <4>4. /\ staged' \in Table /\ Lawful(staged') /\ Follows(G, staged')
            /\ Remembers(G, staged', Nat)
        BY <3>4, <4>1, <4>3, SettleLaw
      <4> QED
        BY <1>5, <3>3, <3>4, <4>4, FollowsTransitive, RemembersTransitive
    <3> QED
      BY <3>5, <3>6
  <2> QED
    BY <1>6, <2>1, <2>2
<1>8. Follows(facts, staged') /\ Remembers(facts, staged', Nat)
  BY <1>5, <1>7, FollowsTransitive, RemembersTransitive
<1>9. UNCHANGED <<facts, recalled, phase>>
      /\ job'.episode = job.episode /\ job'.space = job.space
  BY <1>1 DEF ApplyFact, Job
<1> QED
  BY <1>1, <1>7, <1>8, <1>9 DEF HInv, Lawful, Follows, Remembers, Rows, InPlace

(* Opening a transaction, committing it, and rolling it back.              *)
LEMMA TransactionLaw ==
  ASSUME IInv, HInv,
         \/ \E s \in Spaces, e \in Episodes, batch \in Batches, gate \in Gates :
              BeginApply(s, e, batch, gate)
         \/ CommitApply \/ AbortApply
  PROVE  HInv' /\ Follows(facts, facts') /\ Remembers(facts, facts', Nat)
<1>1. facts \in Table /\ recalled \in SUBSET FactIds
  BY DEF IInv, Sound, TypeOK
<1>2. Follows(facts, facts) /\ Remembers(facts, facts, Nat)
  BY <1>1, FollowsReflexive DEF Remembers
<1>3. ASSUME NEW s \in Spaces, NEW e \in Episodes, NEW batch \in Batches,
             NEW gate \in Gates, BeginApply(s, e, batch, gate)
      PROVE  HInv' /\ facts' = facts
  <2>1. /\ facts' = facts /\ staged' = facts /\ recalled' = recalled
        /\ EpisodeSpace[job'.episode] = job'.space
    BY <1>3 DEF BeginApply
  <2> QED
    BY <1>2, <2>1 DEF HInv
<1>4. CASE CommitApply
  <2>1. facts' = staged /\ phase' = "idle" /\ recalled' = recalled /\ phase = "applying"
    BY <1>4 DEF CommitApply
  <2>2. Lawful(staged) /\ Follows(facts, staged) /\ Remembers(facts, staged, Nat)
    BY <2>1 DEF HInv
  <2>3. \A i \in recalled : InLedger(staged[i])
    BY <1>1, <2>2 DEF HInv, Follows, GoesOn, Rows, InLedger
  <2> QED
    BY <2>1, <2>2, <2>3 DEF HInv
<1>5. CASE AbortApply
  <2>1. facts' = facts /\ HInv'
    BY <1>5 DEF AbortApply, HInv
  <2> QED
    BY <1>2, <2>1
<1>6. CASE \E s \in Spaces, e \in Episodes, batch \in Batches, gate \in Gates :
             BeginApply(s, e, batch, gate)
  <2>1. facts' = facts /\ HInv'
    BY <1>3, <1>6
  <2> QED
    BY <1>2, <2>1
<1> QED
  BY <1>4, <1>5, <1>6

(* A change of one row that carries it on, and that leaves it holding at   *)
(* the times of T.                                                         *)
LEMMA OneRowCarried ==
  ASSUME NEW F \in Table, Lawful(F), NEW id \in FactIds, NEW g, Carries(F[id], g),
         NEW T, \A t \in T : Holds(F[id], t) => Holds(g, t)
  PROVE  LET G == [F EXCEPT ![id] = g]
         IN  Lawful(G) /\ Follows(F, G) /\ Remembers(F, G, T)
<1> DEFINE G == [F EXCEPT ![id] = g]
<1>1. G \in Table /\ G[id] = g /\ \A j \in FactIds \ {id} : G[j] = F[j]
  BY DEF Table, Carries
<1> HIDE DEF G
<1>2. Lawful(G) /\ Follows(F, G)
  BY <1>1, CarriedLaw
<1>3. Remembers(F, G, T)
  BY <1>1 DEF Remembers, Rows
<1> QED
  BY <1>2, <1>3 DEF G

(* Between transactions the committed table is all there is.               *)
LEMMA IdleLaw ==
  ASSUME TypeOK, HInv, phase' = "idle", recalled' \subseteq recalled,
         Lawful(facts'), Follows(facts, facts')
  PROVE  HInv'
<1>1. \A i \in recalled' : i \in Rows(facts) /\ InLedger(facts[i])
  BY DEF TypeOK, HInv, InLedger, Rows
<1>2. \A i \in recalled' : InLedger(facts'[i])
  BY <1>1 DEF Follows, GoesOn
<1> QED
  BY <1>2 DEF HInv

(* A reviewer's decision: what held before the clock's time still does.    *)
LEMMA ReviewLaw ==
  ASSUME IInv, HInv, NEW s \in Spaces, NEW id \in FactIds, Review(s, id)
  PROVE  HInv' /\ Follows(facts, facts') /\ Remembers(facts, facts', Past)
<1>1. phase = "idle" /\ facts[id].status # "none"
  BY DEF Review, FactsApprove, FactsDecline, FactsClose, FactsExclude, FactsInclude
<1>2. /\ Sound(facts) /\ facts \in Table /\ facts[id] \in Fact /\ Lawful(facts)
      /\ Own(facts[id]) /\ InPlace(facts, id) /\ now \in Nat
  BY <1>1, RowIsFact DEF IInv, HInv, Sound, Lawful, Rows, TypeOK
<1>3. GoesOn(facts[id], facts[id])
  BY <1>2, GoesOnReflexive
<1>4. Lawful(facts') /\ Follows(facts, facts') /\ Remembers(facts, facts', Past)
  <2>1. CASE FactsApprove(s, id)
    <3> DEFINE g == [facts[id] EXCEPT !.status = "active"]
               E == [facts EXCEPT ![id] = g]
    <3>1. facts[id].status = "proposed" /\ facts' = Settle(E, id)
      BY <2>1 DEF FactsApprove
    <3>2. Joins(E, id)
      BY <1>2, <3>1, ApproveJoins
    <3>3. Carries(facts[id], g) /\ \A t \in Past : ~Holds(facts[id], t)
      BY <1>2, <1>3, <3>1
      DEF Carries, Fact, GoesOn, KeepsHistory, SameStatement, SameTopic, InLedger, Own, Holds
    <3> HIDE DEF g
    <3>4. Lawful(E) /\ Follows(facts, E) /\ Remembers(facts, E, Past)
      BY <1>2, <3>3, OneRowCarried
    <3> HIDE DEF E
    <3>5. /\ facts' \in Table /\ Lawful(facts') /\ Follows(E, facts')
          /\ Remembers(E, facts', Past)
      BY <3>1, <3>2, <3>4, SettleLaw
    <3> QED
      BY <1>2, <3>2, <3>4, <3>5, FollowsTransitive, RemembersTransitive DEF Joins
  <2>2. CASE FactsDecline(s, id)
    <3> DEFINE g == [facts[id] EXCEPT !.status = "declined"]
    <3>1. facts[id].status = "proposed" /\ facts' = [facts EXCEPT ![id] = g]
      BY <2>2 DEF FactsDecline
    <3>2. Carries(facts[id], g) /\ \A t \in Past : ~Holds(facts[id], t)
      BY <1>2, <1>3, <3>1
      DEF Carries, Fact, GoesOn, KeepsHistory, SameStatement, SameTopic, InLedger, Own, Holds
    <3> HIDE DEF g
    <3> QED
      BY <1>2, <3>1, <3>2, OneRowCarried
  <2>3. CASE FactsClose(s, id)
    <3> DEFINE g == [facts[id] EXCEPT !.status = "closed", !.until = now]
    <3>1. facts[id].status = "active" /\ facts' = [facts EXCEPT ![id] = g]
      BY <1>2, <2>3 DEF FactsClose, Table
    <3>2. Carries(facts[id], g)
      BY <1>2, <1>3, <3>1
      DEF Carries, Fact, GoesOn, KeepsHistory, SameStatement, SameTopic, InLedger, Own
    <3>3. \A t \in Past : Holds(facts[id], t) => Holds(g, t)
      BY <1>2, <3>1 DEF Past, Holds, Fact
    <3> HIDE DEF g
    <3> QED
      BY <1>2, <3>1, <3>2, <3>3, OneRowCarried
  <2>4. CASE FactsExclude(s, id)
    <3> DEFINE g == [facts[id] EXCEPT !.excluded = TRUE]
    <3>1. InLedger(facts[id]) /\ facts' = [facts EXCEPT ![id] = g]
      BY <2>4 DEF FactsExclude, InLedger
    <3>2. Carries(facts[id], g) /\ \A t \in Past : Holds(facts[id], t) => Holds(g, t)
      BY <1>2, <1>3, <3>1
      DEF Carries, Fact, GoesOn, KeepsHistory, SameStatement, SameTopic, InLedger, Own, Holds
    <3> HIDE DEF g
    <3> QED
      BY <1>2, <3>1, <3>2, OneRowCarried
  <2>5. CASE FactsInclude(s, id)
    <3> DEFINE g == [facts[id] EXCEPT !.excluded = FALSE]
    <3>1. facts' = [facts EXCEPT ![id] = g]
      BY <2>5 DEF FactsInclude
    <3>2. Carries(facts[id], g) /\ \A t \in Past : Holds(facts[id], t) => Holds(g, t)
      BY <1>2, <1>3, <3>1
      DEF Carries, Fact, GoesOn, KeepsHistory, SameStatement, SameTopic, InLedger, Own, Holds
    <3> HIDE DEF g
    <3> QED
      BY <1>2, <3>1, <3>2, OneRowCarried
  <2> QED
    BY <2>1, <2>2, <2>3, <2>4, <2>5 DEF Review
<1>5. phase' = "idle" /\ recalled' = recalled
  BY <1>1 DEF Review, FactsApprove, FactsDecline, FactsClose, FactsExclude, FactsInclude,
              Unchanged
<1> QED
  BY <1>4, <1>5, IdleLaw DEF IInv

(* Decay ends intervals at the clock's time.                               *)
LEMMA DecayLaw ==
  ASSUME IInv, HInv, NEW s \in Spaces, DecayFacts(s)
  PROVE  HInv' /\ Follows(facts, facts') /\ Remembers(facts, facts', Past)
<1> DEFINE stale == {i \in Active(facts) : facts[i].space = s /\ Stale(facts[i])}
<1>1. /\ facts \in Table /\ Lawful(facts) /\ now \in Nat /\ phase = "idle"
      /\ stale \subseteq Active(facts)
  BY DEF IInv, HInv, Sound, TypeOK, DecayFacts
<1>2. facts' = [i \in FactIds |->
                  IF i \in stale THEN [facts[i] EXCEPT !.status = "expired", !.until = now]
                  ELSE facts[i]]
  BY DEF DecayFacts
<1> HIDE DEF stale
<1>3. ASSUME NEW i \in stale
      PROVE  /\ Carries(facts[i], facts'[i])
             /\ \A t \in Past : Holds(facts[i], t) => Holds(facts'[i], t)
  <2>1. i \in FactIds /\ facts[i] \in Fact /\ facts[i].status = "active" /\ Own(facts[i])
    BY <1>1, RowIsFact DEF Active, Lawful, Rows
  <2>2. facts'[i] = [facts[i] EXCEPT !.status = "expired", !.until = now]
    BY <1>2, <2>1
  <2>3. GoesOn(facts[i], facts[i])
    BY <2>1, GoesOnReflexive
  <2>4. Carries(facts[i], facts'[i])
    BY <1>1, <2>1, <2>2, <2>3
    DEF Carries, Fact, GoesOn, KeepsHistory, SameStatement, SameTopic, InLedger, Own
  <2>5. \A t \in Past : Holds(facts[i], t) => Holds(facts'[i], t)
    BY <1>1, <2>1, <2>2 DEF Past, Holds, Fact
  <2> QED
    BY <2>4, <2>5
<1>4. \A i \in FactIds \ stale : facts'[i] = facts[i]
  BY <1>2
<1>5. facts' \in Table
  BY <1>1, <1>2, <1>3, <1>4 DEF Table, Carries
<1>6. Lawful(facts') /\ Follows(facts, facts')
  BY <1>1, <1>3, <1>4, <1>5, CarriedLaw
<1>7. Remembers(facts, facts', Past)
  BY <1>3, <1>4 DEF Remembers, Rows
<1>8. phase' = "idle" /\ recalled' = recalled
  BY <1>1 DEF DecayFacts, Unchanged
<1> QED
  BY <1>6, <1>7, <1>8, IdleLaw DEF IInv

(* Recording that a fact was read: whatever became of it since, it is of   *)
(* the ledger.                                                             *)
LEMMA ReinforceLaw ==
  ASSUME IInv, HInv, NEW id \in FactIds, Reinforce(id)
  PROVE  HInv' /\ Follows(facts, facts') /\ Remembers(facts, facts', Past)
<1> DEFINE g == [facts[id] EXCEPT !.accessed = TRUE]
<1>1. /\ facts \in Table /\ Lawful(facts) /\ phase' = "idle" /\ recalled' \subseteq recalled
      /\ facts' = [facts EXCEPT ![id] = g] /\ InLedger(facts[id])
  BY DEF IInv, HInv, Sound, Reinforce
<1>2. facts[id] \in Fact /\ Own(facts[id])
  BY <1>1, RowIsFact DEF InLedger, Lawful, Rows
<1>3. GoesOn(facts[id], facts[id])
  BY <1>2, GoesOnReflexive
<1>4. Carries(facts[id], g) /\ \A t \in Past : Holds(facts[id], t) => Holds(g, t)
  BY <1>1, <1>2, <1>3
  DEF Carries, Fact, GoesOn, KeepsHistory, SameStatement, SameTopic, InLedger, Own, Holds
<1> HIDE DEF g
<1>5. Lawful(facts') /\ Follows(facts, facts') /\ Remembers(facts, facts', Past)
  BY <1>1, <1>4, OneRowCarried
<1> QED
  BY <1>1, <1>5, IdleLaw DEF IInv

(* Aliases, recalls and the clock leave the table alone; a recall reads    *)
(* what holds, which is of the ledger.                                     *)
LEMMA QuietLaw ==
  ASSUME IInv, HInv,
         \/ \E a, canonical \in Names : AddEntityAlias(a, canonical)
         \/ \E s \in Spaces : RecallFacts(s)
         \/ RecallFails \/ Tick \/ UNCHANGED vars
  PROVE  HInv' /\ facts' = facts
<1>1. UNCHANGED <<facts, staged, phase, job>>
  BY DEF AddEntityAlias, RecallFacts, RecallFails, Tick, vars
<1>2. \A i \in recalled' : InLedger(facts[i])
  BY DEF AddEntityAlias, RecallFacts, RecallFails, Tick, vars, HInv, Served, Holds, InLedger
<1> QED
  BY <1>1, <1>2 DEF HInv

(* An empty ledger is lawful.                                              *)
LEMMA InitHInv == Init => HInv
BY DEF Init, HInv, Lawful, Rows, NoRows, NoRow

(* Every step keeps the invariant, the history and what is remembered.     *)
LEMMA NextHInv ==
  ASSUME IInv, HInv, [Next]_vars
  PROVE  HInv' /\ Follows(facts, facts') /\ Remembers(facts, facts', Past)
<1>1. facts \in Table /\ Past \subseteq Nat
  BY DEF IInv, Sound, TypeOK, Past
<1>2. CASE facts' = facts /\ HInv'
  <2>1. Follows(facts, facts) /\ Remembers(facts, facts, Past)
    BY <1>1, FollowsReflexive DEF Remembers
  <2> QED
    BY <1>2, <2>1
<1>3. CASE \/ \E s \in Spaces, e \in Episodes, batch \in Batches, gate \in Gates :
                BeginApply(s, e, batch, gate)
           \/ CommitApply \/ AbortApply
  <2>1. HInv' /\ Follows(facts, facts') /\ Remembers(facts, facts', Nat)
    BY <1>3, TransactionLaw
  <2> QED
    BY <1>1, <2>1 DEF Remembers
<1>4. CASE ApplyFact
  <2>1. HInv' /\ facts' = facts
    BY <1>4, ApplyFactLaw DEF ApplyFact
  <2> QED
    BY <1>2, <2>1
<1>5. CASE \E s \in Spaces, id \in FactIds : Review(s, id)
  BY <1>5, ReviewLaw
<1>6. CASE \E s \in Spaces : DecayFacts(s)
  BY <1>6, DecayLaw
<1>7. CASE \E id \in FactIds : Reinforce(id)
  BY <1>7, ReinforceLaw
<1>8. CASE \/ \E a, canonical \in Names : AddEntityAlias(a, canonical)
           \/ \E s \in Spaces : RecallFacts(s)
           \/ RecallFails \/ Tick \/ UNCHANGED vars
  BY <1>2, <1>8, QuietLaw
<1> QED
  BY <1>3, <1>4, <1>5, <1>6, <1>7, <1>8 DEF Next

(* The invariant holds of every reachable state.                           *)
LEMMA HistoryInvariant == Spec => []HInv
<1>1. IInv /\ HInv /\ [Next]_vars => HInv'
  BY NextHInv
<1> QED
  BY InitHInv, LedgerInvariant, <1>1, PTL DEF Spec

-----------------------------------------------------------------------------
(***************************************************************************)
(* The theorems                                                            *)
(***************************************************************************)

(* I4: whatever was extracted, restated and approved, and whichever        *)
(* transactions were rolled back, every fact names episodes that taught    *)
(* it, of its own space.                                                   *)
THEOREM SourcesStayInSpace == Spec => []SourcesInSpace
<1>1. HInv => SourcesInSpace
  BY DEF HInv, Lawful, Own, SourcesInSpace
<1> QED
  BY <1>1, HistoryInvariant, PTL

(* I3: a superseded fact names for ever the ledger fact of its topic that  *)
(* starts where its own interval ends, whatever becomes of that fact.      *)
THEOREM SupersededStaysInPlace == Spec => []SupersededInPlace
<1>1. HInv => SupersededInPlace
  BY DEF HInv, Lawful, InPlace, InLedger, SupersededInPlace
<1> QED
  BY <1>1, HistoryInvariant, PTL

(* Only ledger facts are ever marked as read, though recalls reinforce     *)
(* after other writers have been at the rows they read.                    *)
THEOREM OnlyLedgerIsServed == Spec => []ServedOnlyLedger
<1>1. HInv => ServedOnlyLedger
  BY DEF HInv, Lawful, Own, InLedger, ServedOnlyLedger
<1> QED
  BY <1>1, HistoryInvariant, PTL

(* I3: no step takes a row back, changes what it says, or decides anew     *)
(* what was decided - a commit of any length included.                     *)
THEOREM KeepsItsHistory == Spec => HistoryIsKept
<1>1. IInv /\ HInv /\ [Next]_vars =>
        [\A i \in Rows(facts) : i \in Rows(facts') /\ KeepsHistory(facts[i], facts'[i])]_facts
  BY NextHInv DEF Follows, GoesOn
<1> QED
  BY <1>1, LedgerInvariant, HistoryInvariant, PTL DEF Spec, HistoryIsKept

(* What was held true at a time before the clock's still is after every    *)
(* step, unless another fact has superseded it: a hand, a reviewer, decay  *)
(* and recalls take nothing out of the past.                               *)
THEOREM KeepsThePast == Spec => PastIsSettled
<1>1. IInv /\ HInv /\ [Next]_vars =>
        [\A i \in Rows(facts), t \in 0 .. now - 1 :
           Holds(facts[i], t) => Holds(facts'[i], t) \/ facts'[i].by # NULL]_facts
  BY NextHInv DEF Remembers, Past
<1> QED
  BY <1>1, LedgerInvariant, HistoryInvariant, PTL DEF Spec, PastIsSettled

-----------------------------------------------------------------------------
(***************************************************************************)
(* Intervals                                                               *)
(***************************************************************************)

(* A document that is being read is not dated in the future.               *)
DatedByNow == phase = "applying" => HappenedAt[job.episode] <= now

(* A row that began by time t, and ended, if it did, no earlier than it    *)
(* began.                                                                  *)
WellTimed(f, t) ==
  /\ f.until # NULL <=> f.status \in {"closed", "expired"}
  /\ f.until # NULL => f.from <= f.until
  /\ f.from \in 1 .. t

Ordered(F, t) == \A i \in Rows(F) : WellTimed(F[i], t)

OInv == Ordered(facts, now) /\ (phase = "applying" => Ordered(staged, now))

(* Settling ends an interval where the one of a fact no older begins.      *)
LEMMA SettleOrdered ==
  ASSUME NEW F, NEW id, NEW t \in Nat, Joins(F, id), Ordered(F, t)
  PROVE  Ordered(Settle(F, id), t)
<1> DEFINE G == Settle(F, id)
<1> SUFFICES ASSUME NEW i \in Rows(G)
             PROVE  WellTimed(G[i], t)
  BY DEF Ordered
<1>1. F \in Table /\ i \in FactIds
  BY DEF Joins, Rows
<1>2. F[i].status # "none"
  BY <1>1, SettleRow DEF Rows
<1>3. F[i] \in Fact /\ WellTimed(F[i], t)
  BY <1>1, <1>2, RowIsFact DEF Ordered, Rows
<1>4. CASE G[i] = F[i]
  BY <1>3, <1>4
<1>5. CASE G[i] # F[i]
  <2>1. PICK w \in Active(F) \ {i} : G[i] = Supersede(F, i, w) /\ F[i].from <= F[w].from
    BY <1>1, <1>5, SettleMoves
  <2>2. F[w] \in Fact /\ WellTimed(F[w], t)
    BY <1>1, RowIsFact DEF Active, Rows, Ordered
  <2>3. /\ G[i].status = "closed" /\ G[i].until = F[w].from /\ G[i].from = F[i].from
    BY <1>3, <2>1 DEF Supersede, Fact
  <2>4. F[w].from # NULL
    BY <2>2, LedgerAssumption DEF WellTimed, NULL
  <2> QED
    BY <1>3, <2>1, <2>3, <2>4 DEF WellTimed
<1> QED
  BY <1>4, <1>5

(* Rows that are well timed when they change keep a table ordered.         *)
LEMMA OrderedStays ==
  ASSUME NEW F, NEW G, NEW t, Ordered(F, t),
         \A i \in Rows(G) : (i \in Rows(F) /\ G[i] = F[i]) \/ WellTimed(G[i], t)
  PROVE  Ordered(G, t)
BY DEF Ordered

(* One fact of the batch.                                                  *)
LEMMA ApplyFactOrdered ==
  ASSUME IInv, HInv, OInv, DatedByNow, ApplyFact
  PROVE  Ordered(staged', now)
<1> DEFINE f == Claim(Head(job.batch))
<1>1. job \in Job /\ phase = "applying" /\ job.batch # <<>> /\ Sound(staged)
  BY DEF IInv, TypeOK, ApplyFact
<1>2. Head(job.batch) \in Extracted
  BY <1>1 DEF Job
<1>3. f \in Fact /\ f.status \in {"active", "proposed"}
  BY <1>1, <1>2, ClaimIsFact DEF IInv
<1>4. WellTimed(f, now)
  <2>1. f.until = NULL /\ f.from = HappenedAt[job.episode] /\ job.episode \in Episodes
    BY <1>1 DEF Claim, Job
  <2>2. f.from \in 1 .. now
    BY <1>1, <2>1, LedgerAssumption DEF DatedByNow, IInv, TypeOK
  <2> QED
    BY <1>3, <2>1, <2>2 DEF WellTimed
<1>5. Ordered(staged, now) /\ staged \in Table /\ now \in Nat
  BY <1>1 DEF OInv, IInv, TypeOK, Sound
<1>6. Restate(f) \/ Insert(f)
  BY DEF ApplyFact
<1> HIDE DEF f
<1>7. CASE Restate(f)
  <2>1. PICK i \in Restated(staged, f) :
          staged' = [staged EXCEPT ![i] = Strengthen(@, f)]
    BY <1>7 DEF Restate
  <2>2. i \in FactIds /\ staged[i] \in Fact /\ WellTimed(staged[i], now)
    BY <1>5, RowIsFact DEF Restated, Ordered, Rows
  <2>3. staged'[i] = Strengthen(staged[i], f)
        /\ \A j \in FactIds \ {i} : staged'[j] = staged[j]
    BY <1>5, <2>1, <2>2 DEF Table
  <2>4. /\ staged'[i].status = staged[i].status /\ staged'[i].from = staged[i].from
        /\ staged'[i].until = staged[i].until
    BY <2>2, <2>3 DEF Strengthen, Fact
  <2>5. WellTimed(staged'[i], now)
    BY <2>2, <2>4 DEF WellTimed
  <2> QED
    BY <1>5, <2>3, <2>5, OrderedStays DEF Rows
<1>8. CASE Insert(f)
  <2>1. PICK id \in FactIds :
          /\ IsNextId(staged, id)
          /\ staged' = IF f.status = "proposed" THEN [staged EXCEPT ![id] = f]
                       ELSE Settle([staged EXCEPT ![id] = f], id)
    BY <1>8 DEF Insert
  <2>2. staged[id].status = "none" /\ Restated(staged, f) = {}
    BY <1>8, <2>1 DEF IsNextId, Rows, Insert
  <2> DEFINE G == [staged EXCEPT ![id] = f]
  <2>3. G \in Table /\ G[id] = f /\ \A j \in FactIds \ {id} : G[j] = staged[j]
    BY <1>1, <1>3, <2>2, NewRowStands
  <2> HIDE DEF G
  <2>4. Ordered(G, now)
    BY <1>4, <1>5, <2>3, OrderedStays DEF Rows
  <2>5. CASE f.status = "proposed"
    BY <2>1, <2>4, <2>5 DEF G
  <2>6. CASE f.status # "proposed"
    <3>1. f.status = "active" /\ staged' = Settle(G, id)
      BY <1>3, <2>1, <2>6 DEF G
    <3>2. \A j \in Active(G) \ {id} : j \in Active(staged) /\ G[j] = staged[j]
      BY <2>3 DEF Active
    <3>3. Joins(G, id)
      BY <1>1, <2>3, <3>1, <3>2 DEF Joins, Sound, OneActive, SameTopic
    <3> QED
      BY <1>5, <2>4, <3>1, <3>3, SettleOrdered
  <2> QED
    BY <2>5, <2>6
<1> QED
  BY <1>6, <1>7, <1>8

(* A reviewer's decision, decay and a recall.                              *)
LEMMA IdleOrdered ==
  ASSUME IInv, HInv, OInv,
         \/ \E s \in Spaces, id \in FactIds : Review(s, id)
         \/ \E s \in Spaces : DecayFacts(s)
         \/ \E id \in FactIds : Reinforce(id)
  PROVE  Ordered(facts', now)
<1>1. /\ Sound(facts) /\ facts \in Table /\ Ordered(facts, now) /\ Lawful(facts)
      /\ now \in Nat
  BY LedgerAssumption DEF IInv, HInv, OInv, Sound, TypeOK
<1>2. ASSUME NEW s \in Spaces, NEW id \in FactIds, Review(s, id)
      PROVE  Ordered(facts', now)
  <2>1. facts[id].status # "none"
    BY <1>2 DEF Review, FactsApprove, FactsDecline, FactsClose, FactsExclude, FactsInclude
  <2>2. facts[id] \in Fact /\ WellTimed(facts[id], now)
    BY <1>1, <2>1, RowIsFact DEF Ordered, Rows
  <2>3. CASE FactsApprove(s, id)
    <3> DEFINE E == [facts EXCEPT ![id].status = "active"]
    <3>1. facts[id].status = "proposed" /\ facts' = Settle(E, id)
      BY <2>3 DEF FactsApprove
    <3>2. Joins(E, id)
      BY <1>1, <3>1, ApproveJoins
    <3>3. /\ E[id].status = "active" /\ E[id].from = facts[id].from
          /\ E[id].until = facts[id].until
          /\ \A j \in FactIds \ {id} : E[j] = facts[j]
      BY <1>1, <2>2 DEF Table, Fact
    <3> HIDE DEF E
    <3>4. WellTimed(E[id], now)
      BY <2>2, <3>1, <3>3 DEF WellTimed
    <3>5. Ordered(E, now)
      BY <1>1, <3>3, <3>4, OrderedStays DEF Rows
    <3> QED
      BY <1>1, <3>1, <3>2, <3>5, SettleOrdered
  <2>4. CASE FactsDecline(s, id) \/ FactsClose(s, id) \/ FactsExclude(s, id) \/ FactsInclude(s, id)
    <3>1. \A j \in FactIds \ {id} : facts'[j] = facts[j]
      BY <1>1, <2>4 DEF FactsDecline, FactsClose, FactsExclude, FactsInclude, Table
    <3>2. /\ facts'[id].from = facts[id].from
          /\ \/ /\ facts'[id].until = facts[id].until
                /\ \/ facts'[id].status = facts[id].status
                   \/ facts[id].status = "proposed" /\ facts'[id].status = "declined"
             \/ facts'[id].until = now /\ facts'[id].status = "closed"
      BY <1>1, <2>2, <2>4 DEF FactsDecline, FactsClose, FactsExclude, FactsInclude, Table, Fact
    <3>3. now # NULL /\ facts[id].from <= now
      BY <1>1, <2>2 DEF WellTimed, NULL
    <3>4. WellTimed(facts'[id], now)
      BY <2>2, <3>2, <3>3 DEF WellTimed
    <3> QED
      BY <1>1, <3>1, <3>4, OrderedStays DEF Rows
  <2> QED
    BY <1>2, <2>3, <2>4 DEF Review
<1>3. ASSUME NEW s \in Spaces, DecayFacts(s)
      PROVE  Ordered(facts', now)
  <2> SUFFICES ASSUME NEW i \in Rows(facts'), facts'[i] # facts[i]
               PROVE  WellTimed(facts'[i], now)
    BY <1>1, OrderedStays DEF Rows
  <2>1. /\ i \in Active(facts)
        /\ facts'[i] = [facts[i] EXCEPT !.status = "expired", !.until = now]
    BY <1>3 DEF DecayFacts, Rows
  <2>2. facts[i] \in Fact /\ WellTimed(facts[i], now)
    BY <1>1, <2>1, RowIsFact DEF Active, Rows, Ordered
  <2>3. /\ facts'[i].status = "expired" /\ facts'[i].until = now
        /\ facts'[i].from = facts[i].from
    BY <2>1, <2>2 DEF Fact
  <2>4. now # NULL /\ facts[i].from <= now
    BY <1>1, <2>2 DEF WellTimed, NULL
  <2> QED
    BY <2>2, <2>3, <2>4 DEF WellTimed
<1>4. ASSUME NEW id \in FactIds, Reinforce(id)
      PROVE  Ordered(facts', now)
  <2>1. facts[id] \in Fact /\ WellTimed(facts[id], now)
    BY <1>1, <1>4, RowIsFact DEF HInv, Reinforce, InLedger, Ordered, Rows
  <2>2. \A j \in FactIds \ {id} : facts'[j] = facts[j]
    BY <1>1, <1>4 DEF Reinforce, Table
  <2>3. /\ facts'[id].status = facts[id].status /\ facts'[id].until = facts[id].until
        /\ facts'[id].from = facts[id].from
    BY <1>1, <1>4, <2>1 DEF Reinforce, Table, Fact
  <2>4. WellTimed(facts'[id], now)
    BY <2>1, <2>3 DEF WellTimed
  <2> QED
    BY <1>1, <2>2, <2>4, OrderedStays DEF Rows
<1> QED
  BY <1>2, <1>3, <1>4

(* Every step keeps intervals ordered.                                     *)
LEMMA NextOInv ==
  ASSUME IInv, HInv, OInv, DatedByNow, [Next]_vars
  PROVE  OInv'
<1>1. now \in Nat /\ Ordered(facts, now) /\ (phase = "applying" => Ordered(staged, now))
  BY DEF IInv, OInv, TypeOK
<1>2. CASE \/ \E s \in Spaces, e \in Episodes, batch \in Batches, gate \in Gates :
                BeginApply(s, e, batch, gate)
           \/ CommitApply \/ AbortApply
  <2>1. /\ facts' = facts \/ (phase = "applying" /\ facts' = staged)
        /\ phase' = "applying" => staged' = facts
        /\ now' = now
    BY <1>2 DEF BeginApply, CommitApply, AbortApply
  <2> QED
    BY <1>1, <2>1 DEF OInv
<1>3. CASE ApplyFact
  <2>1. Ordered(staged', now) /\ facts' = facts /\ now' = now
    BY <1>3, ApplyFactOrdered DEF ApplyFact
  <2> QED
    BY <1>1, <2>1 DEF OInv
<1>4. CASE \/ \E s \in Spaces, id \in FactIds : Review(s, id)
           \/ \E s \in Spaces : DecayFacts(s)
           \/ \E id \in FactIds : Reinforce(id)
  <2>1. Ordered(facts', now)
    BY <1>4, IdleOrdered
  <2>2. phase' = "idle" /\ now' = now
    BY <1>4
    DEF Review, FactsApprove, FactsDecline, FactsClose, FactsExclude, FactsInclude,
        DecayFacts, Reinforce, Unchanged
  <2> QED
    BY <2>1, <2>2 DEF OInv
<1>5. CASE \/ \E a, canonical \in Names : AddEntityAlias(a, canonical)
           \/ \E s \in Spaces : RecallFacts(s)
           \/ RecallFails \/ Tick \/ UNCHANGED vars
  <2>1. UNCHANGED <<facts, staged, phase>> /\ now' \in {now, now + 1}
    BY <1>5 DEF AddEntityAlias, RecallFacts, RecallFails, Tick, vars
  <2>2. ASSUME NEW F, Ordered(F, now)
        PROVE  Ordered(F, now')
    BY <1>1, <2>1, <2>2 DEF Ordered, WellTimed
  <2> QED
    BY <1>1, <2>1, <2>2 DEF OInv
<1> QED
  BY <1>2, <1>3, <1>4, <1>5 DEF Next

(* An interval ends exactly when its fact has left the present, and never  *)
(* before it began, as long as no document is dated in the future when it  *)
(* is read: a person's and decay's "now" do not lie before a fact's start. *)
THEOREM IntervalsStayOrdered == Spec /\ []DatedByNow => []IntervalsOrdered
<1>1. Init => OInv
  BY DEF Init, OInv, Ordered, Rows, NoRows, NoRow
<1>2. IInv /\ HInv /\ OInv /\ DatedByNow /\ [Next]_vars => OInv'
  BY NextOInv
<1>3. OInv => IntervalsOrdered
  BY DEF OInv, Ordered, WellTimed, IntervalsOrdered
<1> QED
  BY <1>1, <1>2, <1>3, LedgerInvariant, HistoryInvariant, PTL DEF Spec

(* Hence no interval is reversed in a store that is younger than all its   *)
(* documents, which is what the runs look at.                              *)
COROLLARY IntervalsOrderedFromStart ==
  ASSUME \A e \in Episodes : HappenedAt[e] <= StartTime
  PROVE  Spec => []IntervalsOrdered
<1> DEFINE Started == StartTime <= now
<1>1. Init => Started
  BY LedgerAssumption DEF Init
<1>2. IInv /\ Started /\ [Next]_vars => Started'
  <2> SUFFICES ASSUME IInv, Started, [Next]_vars
               PROVE  Started'
    OBVIOUS
  <2>1. now' = now \/ now' = now + 1
    BY DEF Next, vars, BeginApply, ApplyFact, CommitApply, AbortApply, AddEntityAlias, Review,
           FactsApprove, FactsDecline, FactsClose, FactsExclude, FactsInclude, DecayFacts,
           Unchanged, RecallFacts, Reinforce, RecallFails, Tick
  <2> QED
    BY <2>1, LedgerAssumption DEF IInv, TypeOK
<1>3. IInv /\ Started => DatedByNow
  BY LedgerAssumption DEF IInv, TypeOK, DatedByNow, Job
<1> HIDE DEF Started
<1> QED
  BY <1>1, <1>2, <1>3, LedgerInvariant, IntervalsStayOrdered, PTL DEF Spec

-----------------------------------------------------------------------------
(***************************************************************************)
(* Documents in the order of their dates                                   *)
(***************************************************************************)

(* No document newer than `date` has taught, or repeated, a fact that is   *)
(* active in the space.                                                    *)
NothingNewer(s, date) ==
  \A i \in Active(facts) :
    facts[i].space = s => \A e \in facts[i].sources : HappenedAt[e] <= date

(* Documents are read, and proposals approved, in the order of their dates. *)
InOrder ==
  /\ \A s \in Spaces, e \in Episodes, batch \in Batches, gate \in Gates :
       BeginApply(s, e, batch, gate) => NothingNewer(s, HappenedAt[e])
  /\ \A s \in Spaces, id \in FactIds :
       FactsApprove(s, id) => NothingNewer(s, facts[id].from)

(* What is active in F is superseded in G by nothing older than a document *)
(* that states it.                                                         *)
KeepsUp(F, G) ==
  \A i \in Active(F) :
    G[i].by # NULL => \A e \in F[i].sources : HappenedAt[e] <= G[G[i].by].from

BInv ==
  phase = "applying" =>
    NothingNewer(job.space, HappenedAt[job.episode]) /\ KeepsUp(facts, staged)

(* Whatever settling changes, other than the row itself, that row supersedes. *)
LEMMA SettleBy ==
  ASSUME NEW F, NEW id, Joins(F, id), NEW i \in FactIds \ {id}, Settle(F, id)[i] # F[i]
  PROVE  /\ SameTopic(F[i], F[id]) /\ Settle(F, id)[i].by = id
         /\ Settle(F, id)[id].from = F[id].from
<1>1. F[id] \in Fact /\ F[id].status # "none" /\ id \in FactIds
  BY RowIsFact DEF Joins
<1>2. i \in Outdated(F, id) /\ Settle(F, id)[i] = Supersede(F, i, id)
  BY DEF Settle
<1>3. F[i] \in Fact /\ SameTopic(F[i], F[id])
  BY <1>2, RowIsFact DEF Outdated, Active, Joins
<1>4. Supersede(F, i, id).by = id
  BY <1>3 DEF Supersede, Fact
<1> QED
  BY <1>1, <1>2, <1>3, <1>4, SettleRow

(* An active fact has not been superseded.                                 *)
LEMMA ActiveUnsuperseded ==
  ASSUME NEW F, Lawful(F), NEW i \in Active(F)
  PROVE  F[i].by = NULL
BY DEF Lawful, InPlace, Active, Rows

(* One fact of the batch.                                                  *)
LEMMA ApplyFactKeepsUp ==
  ASSUME IInv, HInv, BInv, ApplyFact
  PROVE  KeepsUp(facts, staged')
<1> DEFINE f == Claim(Head(job.batch))
<1>1. job \in Job /\ phase = "applying" /\ job.batch # <<>> /\ Sound(staged)
  BY DEF IInv, TypeOK, ApplyFact
<1>2. Head(job.batch) \in Extracted
  BY <1>1 DEF Job
<1>3. f \in Fact /\ f.status \in {"active", "proposed"} /\ Own(f)
  BY <1>1, <1>2, ClaimIsFact, ClaimIsOwn DEF IInv
<1>4. f.space = job.space /\ f.from = HappenedAt[job.episode]
  BY DEF Claim
<1>5. /\ staged \in Table /\ facts \in Table /\ Lawful(staged) /\ Follows(facts, staged)
      /\ NothingNewer(job.space, HappenedAt[job.episode]) /\ KeepsUp(facts, staged)
  BY <1>1 DEF IInv, HInv, BInv, Sound
<1>6. Restate(f) \/ Insert(f)
  BY DEF ApplyFact
<1> HIDE DEF f
<1> SUFFICES ASSUME NEW i \in Active(facts), staged'[i].by # NULL,
                    NEW e \in facts[i].sources
             PROVE  HappenedAt[e] <= staged'[staged'[i].by].from
  BY DEF KeepsUp
<1>7. /\ i \in Rows(facts) /\ i \in Rows(staged) /\ i \in FactIds
      /\ staged[i].space = facts[i].space
  BY <1>5 DEF Active, Rows, Follows, GoesOn, KeepsHistory, SameStatement, SameTopic
<1>8. CASE Restate(f)
  <2>1. PICK k \in Restated(staged, f) :
          staged' = [staged EXCEPT ![k] = Strengthen(@, f)]
    BY <1>8 DEF Restate
  <2>2. k \in FactIds /\ staged[k] \in Fact
    BY <1>5, RowIsFact DEF Restated
  <2>3. staged'[k] = Strengthen(staged[k], f)
        /\ \A j \in FactIds \ {k} : staged'[j] = staged[j]
    BY <1>5, <2>1, <2>2 DEF Table
  <2>4. staged'[k].by = staged[k].by /\ staged'[k].from = staged[k].from
    BY <2>2, <2>3 DEF Strengthen, Fact
  <2>5. \A j \in FactIds : staged'[j].by = staged[j].by /\ staged'[j].from = staged[j].from
    BY <2>3, <2>4
  <2>6. staged[i].by \in FactIds
    BY <1>5, <1>7, <2>5, RowIsFact DEF Rows, Fact
  <2> QED
    BY <1>5, <1>7, <2>5, <2>6 DEF KeepsUp
<1>9. CASE Insert(f)
  <2>1. PICK id \in FactIds :
          /\ IsNextId(staged, id)
          /\ staged' = IF f.status = "proposed" THEN [staged EXCEPT ![id] = f]
                       ELSE Settle([staged EXCEPT ![id] = f], id)
    BY <1>9 DEF Insert
  <2>2. staged[id].status = "none" /\ Restated(staged, f) = {}
    BY <1>9, <2>1 DEF IsNextId, Rows, Insert
  <2> DEFINE G == [staged EXCEPT ![id] = f]
  <2>3. G \in Table /\ G[id] = f /\ \A j \in FactIds \ {id} : G[j] = staged[j]
    BY <1>1, <1>3, <2>2, NewRowStands
  <2>4. i # id
    BY <1>7, <2>2 DEF Rows
  <2> HIDE DEF G
  <2>5. G[i] = staged[i] /\ staged[i] \in Fact
    BY <1>5, <1>7, <2>3, <2>4, RowIsFact DEF Rows
  <2>6. ASSUME staged[i].by # NULL
        PROVE  LET w == staged[i].by
               IN  w \in FactIds \ {id} /\ staged[w].status # "none" /\ G[w] = staged[w]
                   /\ HappenedAt[e] <= staged[w].from
    <3>1. staged[i].by \in FactIds
      BY <2>5, <2>6 DEF Fact
    <3>2. InLedger(staged[staged[i].by])
      BY <1>5, <1>7, <2>6 DEF Lawful, InPlace
    <3> QED
      BY <1>5, <2>2, <2>3, <2>6, <3>1, <3>2 DEF KeepsUp, InLedger
  <2>7. CASE f.status = "proposed"
    <3>1. staged' = G
      BY <2>1, <2>7 DEF G
    <3> QED
      BY <2>5, <2>6, <3>1
  <2>8. CASE f.status # "proposed"
    <3>1. f.status = "active" /\ staged' = Settle(G, id)
      BY <1>3, <2>1, <2>8 DEF G
    <3>2. \A j \in Active(G) \ {id} : j \in Active(staged) /\ G[j] = staged[j]
      BY <2>3 DEF Active
    <3>3. Joins(G, id)
      BY <1>1, <2>3, <3>1, <3>2 DEF Joins, Sound, OneActive, SameTopic
    <3>4. CASE staged'[i] = G[i]
      <4>1. staged[i].by # NULL /\ staged'[i].by = staged[i].by
        BY <2>5, <3>4
      <4>2. \A w \in FactIds : G[w].status # "none" => staged'[w].from = G[w].from
        BY <3>1, <3>3, SettleRow
      <4> QED
        BY <2>6, <4>1, <4>2
    <3>5. CASE staged'[i] # G[i]
      <4>1. SameTopic(G[i], G[id]) /\ staged'[i].by = id /\ staged'[id].from = G[id].from
        BY <1>7, <2>4, <3>1, <3>3, <3>5, SettleBy
      <4>2. facts[i].space = job.space
        BY <1>4, <1>7, <2>3, <2>5, <4>1 DEF SameTopic
      <4> QED
        BY <1>4, <1>5, <2>3, <4>1, <4>2 DEF NothingNewer
    <3> QED
      BY <3>4, <3>5
  <2> QED
    BY <2>7, <2>8
<1> QED
  BY <1>6, <1>8, <1>9

(* An approval of a proposal that nothing active is newer than.            *)
LEMMA ApproveKeepsUp ==
  ASSUME IInv, HInv, NEW s \in Spaces, NEW id \in FactIds, FactsApprove(s, id),
         NothingNewer(s, facts[id].from)
  PROVE  KeepsUp(facts, facts')
<1> DEFINE E == [facts EXCEPT ![id].status = "active"]
<1>1. /\ facts[id].status = "proposed" /\ facts[id].space = s /\ facts' = Settle(E, id)
      /\ Sound(facts) /\ facts \in Table /\ Lawful(facts)
  BY DEF FactsApprove, IInv, HInv, Sound
<1>2. Joins(E, id) /\ \A j \in Active(facts) : j # id /\ E[j] = facts[j]
  BY <1>1, ApproveJoins
<1>3. facts[id] \in Fact
  BY <1>1, RowIsFact
<1>4. E[id].space = s /\ E[id].from = facts[id].from
  BY <1>1, <1>3 DEF Table, Fact
<1> HIDE DEF E
<1> SUFFICES ASSUME NEW i \in Active(facts), facts'[i].by # NULL,
                    NEW e \in facts[i].sources
             PROVE  HappenedAt[e] <= facts'[facts'[i].by].from
  BY DEF KeepsUp
<1>5. i \in FactIds \ {id} /\ E[i] = facts[i] /\ facts'[i] # E[i]
  BY <1>1, <1>2, ActiveUnsuperseded DEF Active
<1>6. SameTopic(E[i], E[id]) /\ facts'[i].by = id /\ facts'[id].from = E[id].from
  BY <1>1, <1>2, <1>5, SettleBy
<1> QED
  BY <1>4, <1>5, <1>6 DEF NothingNewer, SameTopic

(* The other writes to one row, or to the stale ones, supersede nothing.   *)
LEMMA OthersSupersedeNothing ==
  ASSUME IInv, HInv,
         \/ \E s \in Spaces, id \in FactIds :
              \/ FactsDecline(s, id) \/ FactsClose(s, id)
              \/ FactsExclude(s, id) \/ FactsInclude(s, id)
         \/ \E s \in Spaces : DecayFacts(s)
         \/ \E id \in FactIds : Reinforce(id)
         \/ facts' = facts
  PROVE  KeepsUp(facts, facts')
<1> SUFFICES ASSUME NEW i \in Active(facts)
             PROVE  facts'[i].by = NULL
  BY DEF KeepsUp
<1>1. i \in FactIds /\ facts[i] \in Fact /\ facts \in Table /\ facts[i].by = NULL
  BY RowIsFact, ActiveUnsuperseded DEF IInv, HInv, Sound, Active
<1>2. ASSUME NEW s \in Spaces, NEW id \in FactIds,
             \/ FactsDecline(s, id) \/ FactsClose(s, id)
             \/ FactsExclude(s, id) \/ FactsInclude(s, id)
      PROVE  facts'[i].by = facts[i].by
  BY <1>1, <1>2 DEF FactsDecline, FactsClose, FactsExclude, FactsInclude, Table, Fact
<1>3. ASSUME NEW s \in Spaces, DecayFacts(s)
      PROVE  facts'[i].by = facts[i].by
  BY <1>1, <1>3 DEF DecayFacts, Fact
<1>4. ASSUME NEW id \in FactIds, Reinforce(id)
      PROVE  facts'[i].by = facts[i].by
  BY <1>1, <1>4 DEF Reinforce, Table, Fact
<1> QED
  BY <1>1, <1>2, <1>3, <1>4

(* Every step keeps up, and so does the table an open transaction would    *)
(* commit.                                                                 *)
LEMMA NextBInv ==
  ASSUME IInv, HInv, BInv, InOrder, [Next]_vars
  PROVE  BInv' /\ KeepsUp(facts, facts')
<1>1. KeepsUp(facts, facts)
  BY ActiveUnsuperseded DEF HInv, KeepsUp
<1>2. ASSUME NEW s \in Spaces, NEW e \in Episodes, NEW batch \in Batches,
             NEW gate \in Gates, BeginApply(s, e, batch, gate)
      PROVE  BInv' /\ KeepsUp(facts, facts')
  <2>1. NothingNewer(s, HappenedAt[e])
    BY <1>2 DEF InOrder
  <2>2. /\ facts' = facts /\ staged' = facts
        /\ job'.space = s /\ job'.episode = e
    BY <1>2 DEF BeginApply
  <2> QED
    BY <1>1, <2>1, <2>2 DEF BInv, NothingNewer
<1>3. CASE ApplyFact
  <2>1. KeepsUp(facts, staged')
    BY <1>3, ApplyFactKeepsUp
  <2>2. phase = "applying" /\ job \in Job
    BY <1>3 DEF ApplyFact, IInv, TypeOK
  <2>3. facts' = facts /\ job'.space = job.space /\ job'.episode = job.episode
    BY <1>3, <2>2 DEF ApplyFact, Job
  <2> QED
    BY <1>1, <2>1, <2>2, <2>3 DEF BInv, NothingNewer
<1>4. CASE CommitApply
  BY <1>4 DEF CommitApply, BInv
<1>5. CASE AbortApply
  BY <1>1, <1>5 DEF AbortApply, BInv
<1>6. CASE \E s \in Spaces, id \in FactIds : FactsApprove(s, id)
  <2>1. KeepsUp(facts, facts')
    BY <1>6, ApproveKeepsUp DEF InOrder
  <2> QED
    BY <1>6, <2>1 DEF FactsApprove, Unchanged, BInv
<1>7. CASE \/ \E s \in Spaces, id \in FactIds :
                \/ FactsDecline(s, id) \/ FactsClose(s, id)
                \/ FactsExclude(s, id) \/ FactsInclude(s, id)
           \/ \E s \in Spaces : DecayFacts(s)
           \/ \E id \in FactIds : Reinforce(id)
  <2>1. KeepsUp(facts, facts')
    BY <1>7, OthersSupersedeNothing
  <2>2. phase' = "idle"
    BY <1>7 DEF FactsDecline, FactsClose, FactsExclude, FactsInclude, DecayFacts,
                Reinforce, Unchanged
  <2> QED
    BY <2>1, <2>2 DEF BInv
<1>8. CASE \/ \E a, canonical \in Names : AddEntityAlias(a, canonical)
           \/ \E s \in Spaces : RecallFacts(s)
           \/ RecallFails \/ Tick \/ UNCHANGED vars
  <2>1. UNCHANGED <<facts, staged, phase, job>>
    BY <1>8 DEF AddEntityAlias, RecallFacts, RecallFails, Tick, vars
  <2> QED
    BY <1>1, <2>1 DEF BInv, NothingNewer
<1> QED
  BY <1>2, <1>3, <1>4, <1>5, <1>6, <1>7, <1>8 DEF Next, Review

(* The comment of settle_active_fact is right of a store whose documents   *)
(* are read, and whose proposals are approved, in the order of their       *)
(* dates: no fact is then closed by one older than a document that states  *)
(* it.  It is out of that order that the run of the backfill breaks it.    *)
THEOREM InOrderNeverOverwrites ==
  Spec /\ [][InOrder]_vars => BackfillNeverOverwrites
<1>1. Init => BInv
  BY DEF Init, BInv
<1>2. IInv /\ HInv /\ BInv /\ [InOrder]_vars /\ [Next]_vars => BInv'
  <2>1. CASE InOrder
    BY <2>1, NextBInv
  <2>2. CASE UNCHANGED vars
    BY <2>2 DEF vars, BInv, NothingNewer, KeepsUp, Active
  <2> QED
    BY <2>1, <2>2
<1>3. IInv /\ HInv /\ BInv /\ [InOrder]_vars /\ [Next]_vars
        => [\A i \in Active(facts) :
              facts'[i].by # NULL =>
                \A e \in facts[i].sources : HappenedAt[e] <= facts'[facts'[i].by].from]_facts
  <2>1. CASE InOrder
    BY <2>1, NextBInv DEF KeepsUp
  <2>2. CASE UNCHANGED vars
    BY <2>2 DEF vars
  <2> QED
    BY <2>1, <2>2
<1> QED
  BY <1>1, <1>2, <1>3, LedgerInvariant, HistoryInvariant, PTL
  DEF Spec, BackfillNeverOverwrites
=============================================================================
