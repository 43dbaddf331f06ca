------------------------- MODULE DistillLaneProofs -------------------------
(***************************************************************************)
(* Proofs about the distillation lane, for any number of distillers,       *)
(* agents, spaces, documents and episodes.                                 *)
(***************************************************************************)
EXTENDS DistillLane, FiniteSetTheorems, TLAPS

-----------------------------------------------------------------------------
(***************************************************************************)
(* The inductive invariant                                                 *)
(***************************************************************************)

(* A reading is good while its space lives: the row it was made of is      *)
(* still that document's, in that space, whatever state it is in.  Ids     *)
(* return, but only those of deleted spaces.                               *)
Good(x) ==
  \/ x.space \in gone
  \/ x.id \in Live /\ rows[x.id].space = x.space /\ rows[x.id].doc = x.doc

ReadingsAreGood ==
  /\ \A p \in Processes : \A x \in batch[p] : Good(x)
  /\ \A p \in Processes : job[p] # NoReading => Good(job[p])
  /\ \A x \in listed : Good(x)

(* A process erases a space it has a handle on.                            *)
ErasersHoldASpace == \A p \in Processes : at[p] = "erasing" => handle[p] \in Spaces

(* What has been applied, and is about to be marked, was read.             *)
MarkedWasRead ==
  \A p \in Processes :
    at[p] = "marking" =>
      /\ job[p] # NoReading
      /\ [space |-> job[p].space, doc |-> job[p].doc] \in read

(* A row is parked by its third failure, and not before.                   *)
Parking ==
  \A i \in Live :
    /\ rows[i].state = "pending" => rows[i].attempts < 3
    /\ rows[i].state = "failed" => rows[i].attempts >= 3

IInv ==
  /\ TypeOK
  /\ ErasersHoldASpace
  /\ ReadingsAreGood
  /\ MarkedWasRead
  /\ Parking
  /\ ProvenanceIsTrue
  /\ DoneWasRead

-----------------------------------------------------------------------------
(***************************************************************************)
(* Rows and readings                                                       *)
(***************************************************************************)

(* A live id has a row of the right type.                                  *)
LEMMA LiveRow ==
  ASSUME TypeOK, NEW i \in Live
  PROVE  i \in Ids /\ rows[i] \in Row
BY DEF TypeOK, Live

(* A row is not the absent one.                                            *)
LEMMA RowIsLive == \A r \in Row : r # NoRow
BY DEF Row, NoRow, States

(* A reading is not the absent one, which has no id.                       *)
LEMMA ReadingIsSome ==
  /\ \A x \in Reading : x # NoReading /\ x.id \in Ids
  /\ NoReading.id \notin Ids
BY LaneAssumption DEF Reading, NoReading, Ids

(* A process that holds a reading of a live row holds a reading.           *)
LEMMA JobIsReading ==
  ASSUME TypeOK, NEW p \in Processes, job[p] # NoReading
  PROVE  job[p] \in Reading
BY DEF TypeOK

(* A job with an id is a reading.                                          *)
LEMMA JobOfLiveRow ==
  ASSUME TypeOK, NEW p \in Processes, job[p].id \in Ids
  PROVE  job[p] # NoReading
BY ReadingIsSome

(* A row that a distiller has been through. *)
Updated(r, n, to) == [r EXCEPT !.attempts = n, !.state = to]

(* An UPDATE of the queue changes attempts and state alone.                *)
LEMMA RowUpdate ==
  ASSUME NEW r \in Row, NEW n \in Nat, NEW to \in States
  PROVE  /\ Updated(r, n, to) \in Row
         /\ Updated(r, n, to).space = r.space /\ Updated(r, n, to).doc = r.doc
         /\ Updated(r, n, to).attempts = n /\ Updated(r, n, to).state = to
BY DEF Row, Updated

(* A failure changes a row's state and attempts, and parks it or does not. *)
LEMMA FailureRow ==
  ASSUME TypeOK, NEW i \in Live
  PROVE  /\ AfterFailure(i) \in Row
         /\ AfterFailure(i).space = rows[i].space /\ AfterFailure(i).doc = rows[i].doc
         /\ AfterFailure(i).attempts = rows[i].attempts + 1
         /\ AfterFailure(i).state = IF rows[i].attempts + 1 >= 3 THEN "failed" ELSE "pending"
<1>1. rows[i] \in Row /\ rows[i] # NoRow /\ rows[i].attempts + 1 \in Nat
  BY LiveRow DEF Live, Row
<1>2. PICK to \in States :
        to = IF rows[i].attempts + 1 >= 3 THEN "failed" ELSE "pending"
  BY DEF States
<1>3. AfterFailure(i) = Updated(rows[i], rows[i].attempts + 1, to)
  BY <1>1, <1>2 DEF AfterFailure, Updated
<1> DEFINE r == rows[i]
           n == rows[i].attempts + 1
<1>4. /\ Updated(r, n, to) \in Row
      /\ Updated(r, n, to).space = r.space /\ Updated(r, n, to).doc = r.doc
      /\ Updated(r, n, to).attempts = n /\ Updated(r, n, to).state = to
  <2> HIDE DEF r, n
  <2>1. r \in Row /\ n \in Nat
    BY <1>1 DEF r, n
  <2> QED
    BY <2>1, RowUpdate
<1> QED
  BY <1>2, <1>3, <1>4, Zenon

(* The oldest pending rows are rows of the space.                          *)
LEMMA OldestAreGood ==
  ASSUME TypeOK, NEW s \in Spaces, NEW x \in Oldest(Pending(s))
  PROVE  x \in Reading /\ Good(x)
<1>1. PICK i \in Live : rows[i].space = s /\ x = AsRead(i, s)
  BY DEF Oldest, Pending
<1>2. rows[i] \in Row /\ i \in Ids
  BY LiveRow
<1> QED
  BY <1>1, <1>2 DEF AsRead, Reading, Good, Row

-----------------------------------------------------------------------------
(***************************************************************************)
(* What a step does to the rows                                            *)
(***************************************************************************)

(* A step keeps whose a row is, or the row's space is deleted.             *)
RowsKept ==
  /\ gone \subseteq gone'
  /\ \A i \in Live :
       \/ rows[i].space \in gone'
       \/ /\ rows'[i] \in Row
          /\ rows'[i].space = rows[i].space /\ rows'[i].doc = rows[i].doc

(* A reading that describes its row goes on describing it, if rows are kept. *)
LEMMA GoodStaysGood ==
  ASSUME TypeOK, RowsKept, NEW x, Good(x)
  PROVE  Good(x)'
<1>1. CASE x.space \in gone'
  BY <1>1 DEF Good
<1>2. CASE x.space \notin gone'
  <2>1. x.id \in Live /\ rows[x.id].space = x.space /\ rows[x.id].doc = x.doc
    BY <1>2 DEF Good, RowsKept
  <2>2. rows'[x.id] \in Row /\ rows'[x.id].space = x.space /\ rows'[x.id].doc = x.doc
    BY <1>2, <2>1 DEF RowsKept
  <2>3. x.id \in Live'
    BY <2>1, <2>2, RowIsLive DEF Live
  <2> QED
    BY <2>2, <2>3 DEF Good
<1> QED
  BY <1>1, <1>2

(* Whoever holds only what was good, or what is good now, holds good readings. *)
LEMMA ReadingsKept ==
  ASSUME TypeOK, ReadingsAreGood, RowsKept,
         \A p \in Processes : \A x \in batch'[p] : x \in batch[p] \/ Good(x)',
         \A p \in Processes : job'[p] \in {job[p], NoReading} \cup batch[p] \cup listed,
         \A x \in listed' : x \in listed \/ Good(x)'
  PROVE  ReadingsAreGood'
<1>1. ASSUME NEW p \in Processes, NEW x \in batch'[p]
      PROVE  Good(x)'
  BY <1>1, GoodStaysGood DEF ReadingsAreGood
<1>2. ASSUME NEW p \in Processes, job'[p] # NoReading
      PROVE  Good(job[p])'
  <2>1. PICK x : x = job'[p] /\ Good(x)
    BY <1>2 DEF ReadingsAreGood
  <2>2. Good(x)'
    BY <2>1, GoodStaysGood
  <2> QED
    BY <2>1, <2>2 DEF Good
<1>3. ASSUME NEW x \in listed'
      PROVE  Good(x)'
  BY <1>3, GoodStaysGood DEF ReadingsAreGood
<1> QED
  BY <1>1, <1>2, <1>3 DEF ReadingsAreGood

(* Provenance is a reading, and stays as good as one.                      *)
LEMMA ProvenanceKept ==
  ASSUME TypeOK, ProvenanceIsTrue, RowsKept,
         \A f \in facts' : f \in facts \/ f.space \in gone'
                           \/ Good([id |-> f.source, space |-> f.space, doc |-> f.told])'
  PROVE  ProvenanceIsTrue'
<1> SUFFICES ASSUME NEW f \in facts', f.space \notin gone'
             PROVE  (/\ f.source \in Live
                     /\ rows[f.source].space = f.space /\ rows[f.source].doc = f.told)'
  BY DEF ProvenanceIsTrue
<1> DEFINE x == [id |-> f.source, space |-> f.space, doc |-> f.told]
<1>1. Good(x)'
  <2>1. CASE f \in facts
    <3>1. Good(x)
      BY <2>1 DEF ProvenanceIsTrue, Good
    <3> QED
      BY <3>1, GoodStaysGood
  <2> QED
    BY <2>1
<1> QED
  BY <1>1 DEF Good

(* The states of the rows that were there, and of one that is new.         *)
StatesKept ==
  /\ rows' \in [Ids -> Row \cup {NoRow}]
  /\ Parking'
  /\ \A i \in Live' : rows'[i].state = "done" =>
       i \in Live /\ rows[i].state = "done"

(* A failure keeps the rows and counts towards parking.                    *)
LEMMA FailureKeeps ==
  ASSUME TypeOK, Parking, NEW i \in Ids,
         rows' = [rows EXCEPT ![i] = AfterFailure(i)], gone' = gone
  PROVE  RowsKept /\ StatesKept
<1>1. CASE i \notin Live
  <2>1. rows' = rows
    BY <1>1 DEF Live, AfterFailure, TypeOK
  <2> QED
    BY <2>1, LiveRow DEF RowsKept, StatesKept, Parking, Live, TypeOK
<1>2. CASE i \in Live
  <2>1. rows' \in [Ids -> Row \cup {NoRow}]
    BY <1>2, FailureRow DEF TypeOK
  <2>2. rows'[i] = AfterFailure(i) /\ \A j \in Ids \ {i} : rows'[j] = rows[j]
    BY DEF TypeOK
  <2>3. \A j \in Ids : j \in Live' <=> j \in Live
    BY <1>2, <2>2, FailureRow, RowIsLive DEF Live
  <2>4. RowsKept
    BY <1>2, <2>2, FailureRow, LiveRow DEF RowsKept
  <2>5. Parking'
    <3>1. ASSUME NEW j \in Live'
          PROVE  /\ rows'[j].state = "pending" => rows'[j].attempts < 3
                 /\ rows'[j].state = "failed" => rows'[j].attempts >= 3
      <4>1. j \in Ids /\ j \in Live
        BY <2>3, <3>1 DEF Live
      <4>2. rows[i].attempts \in Nat
        BY <1>2, LiveRow DEF Row
      <4> QED
        BY <1>2, <2>2, <4>1, <4>2, FailureRow DEF Parking
    <3> QED
      BY <3>1 DEF Parking
  <2>6. \A j \in Live' : rows'[j].state = "done" => j \in Live /\ rows[j].state = "done"
    BY <1>2, <2>2, <2>3, FailureRow DEF Live
  <2> QED
    BY <2>1, <2>4, <2>5, <2>6 DEF StatesKept
<1> QED
  BY <1>1, <1>2

(* What leaves the queue alone keeps its rows.                             *)
LEMMA UntouchedKeeps ==
  ASSUME TypeOK, Parking, rows' = rows, gone' = gone
  PROVE  RowsKept /\ StatesKept
BY LiveRow DEF RowsKept, StatesKept, Parking, Live, TypeOK

(* A new episode's row takes an id that is free.                           *)
LEMMA IngestKeeps ==
  ASSUME TypeOK, Parking, NEW p \in Processes, NEW d \in Documents, Ingest(p, d)
  PROVE  RowsKept /\ StatesKept
<1> DEFINE new == [space |-> handle[p], doc |-> d, state |-> "pending", attempts |-> 0]
<1>1. PICK i \in Ids : i \notin Live /\ rows' = [rows EXCEPT ![i] = new]
  <2>1. PICK i \in Ids : (\A j \in Live : j < i) /\ rows' = [rows EXCEPT ![i] = new]
    BY DEF Ingest
  <2>2. i \notin Live
    BY <2>1, LaneAssumption DEF Ids
  <2> QED
    BY <2>1, <2>2
<1>2. new \in Row
  BY DEF Ingest, Row, States
<1>3. rows'[i] = new /\ \A j \in Ids \ {i} : rows'[j] = rows[j]
  BY <1>1 DEF TypeOK
<1>4. rows' \in [Ids -> Row \cup {NoRow}]
  BY <1>1, <1>2 DEF TypeOK
<1>5. \A j \in Live' : j = i \/ j \in Live
  BY <1>3 DEF Live
<1>6. \A j \in Live : j # i /\ j \in Ids /\ rows[j] \in Row
  BY <1>1, LiveRow
<1>7. RowsKept
  BY <1>3, <1>6 DEF RowsKept, Ingest
<1>8. Parking'
  BY <1>3, <1>5, <1>6 DEF Parking
<1> QED
  BY <1>3, <1>4, <1>5, <1>6, <1>7, <1>8 DEF StatesKept

(* An erasure removes rows with their space.                               *)
LEMMA EraseKeeps ==
  ASSUME TypeOK, Parking, NEW p \in Processes, EraseSpace(p)
  PROVE  RowsKept /\ StatesKept
<1> DEFINE erased == {i \in Live : rows[i].space = handle[p]}
<1>1. rows' = [i \in Ids |-> IF i \in erased THEN NoRow ELSE rows[i]]
  BY DEF EraseSpace
<1>2. gone' = gone \cup {handle[p]}
  BY DEF EraseSpace
<1>3. rows' \in [Ids -> Row \cup {NoRow}]
  BY <1>1 DEF TypeOK
<1>4. \A j \in Live' : j \in Live /\ rows'[j] = rows[j]
  BY <1>1 DEF Live
<1>5. RowsKept
  BY <1>1, <1>2, LiveRow DEF RowsKept
<1> QED
  BY <1>3, <1>4, <1>5 DEF StatesKept, Parking

(* Marking leaves everything but the state of one row, if it is there.     *)
LEMMA MarkDoneRows ==
  ASSUME TypeOK, Parking, NEW p \in Processes, MarkDone(p)
  PROVE  /\ RowsKept /\ Parking'
         /\ rows' \in [Ids -> Row \cup {NoRow}]
         /\ \A i \in Live' : i \in Live /\ (i # job[p].id => rows'[i] = rows[i])
<1>1. CASE job[p].id \notin Live
  BY <1>1, UntouchedKeeps DEF MarkDone, StatesKept, Live
<1>2. CASE job[p].id \in Live
  <2> DEFINE i == job[p].id
  <2>1. rows[i] \in Row /\ i \in Ids
    BY <1>2, LiveRow
  <2>2. rows' = [rows EXCEPT ![i].state = "done"]
    BY <1>2 DEF MarkDone
  <2>3. /\ rows'[i] = [rows[i] EXCEPT !.state = "done"]
        /\ \A j \in Ids \ {i} : rows'[j] = rows[j]
    BY <2>1, <2>2 DEF TypeOK
  <2>4. /\ rows'[i] \in Row /\ rows'[i].state = "done"
        /\ rows'[i].space = rows[i].space /\ rows'[i].doc = rows[i].doc
    BY <2>1, <2>3 DEF Row, States
  <2>5. rows' \in [Ids -> Row \cup {NoRow}]
    <3>1. \A j \in Ids : rows'[j] \in Row \cup {NoRow}
      BY <2>1, <2>3, <2>4 DEF TypeOK
    <3> QED
      BY <2>2, <3>1 DEF TypeOK
  <2>6. \A j \in Live' : j \in Live /\ j \in Ids
    BY <1>2, <2>3 DEF Live
  <2>7. RowsKept
    BY <2>3, <2>4, LiveRow DEF RowsKept, MarkDone
  <2>8. Parking'
    BY <2>3, <2>4, <2>6 DEF Parking
  <2> QED
    BY <2>3, <2>5, <2>6, <2>7, <2>8
<1> QED
  BY <1>1, <1>2

-----------------------------------------------------------------------------
(***************************************************************************)
(* The invariant                                                           *)
(***************************************************************************)

(* The invariant holds of an empty lane.                                   *)
LEMMA InitIInv == Init => IInv
<1> SUFFICES ASSUME Init PROVE IInv
  OBVIOUS
<1>1. Live = {}
  BY DEF Init, Live
<1>2. TypeOK
  BY DEF Init, TypeOK
<1>3. ErasersHoldASpace /\ ReadingsAreGood /\ MarkedWasRead
  BY DEF Init, ErasersHoldASpace, ReadingsAreGood, MarkedWasRead
<1>4. Parking /\ ProvenanceIsTrue /\ DoneWasRead
  BY <1>1 DEF Init, Parking, ProvenanceIsTrue, DoneWasRead
<1> QED
  BY <1>2, <1>3, <1>4 DEF IInv

(* A step that leaves the facts alone, what was read, and the done rows.   *)
LEMMA QuietKeeps ==
  ASSUME IInv, RowsKept, StatesKept, facts' = facts, read' = read
  PROVE  Parking' /\ ProvenanceIsTrue' /\ DoneWasRead'
<1>1. ProvenanceIsTrue'
  BY ProvenanceKept DEF IInv
<1>2. DoneWasRead'
  <2> SUFFICES ASSUME gone' = {}, NEW i \in Live', rows'[i].state = "done"
               PROVE  [space |-> rows'[i].space, doc |-> rows'[i].doc] \in read
    BY DEF DoneWasRead
  <2>1. i \in Live /\ rows[i].state = "done" /\ gone = {}
    BY DEF StatesKept, RowsKept
  <2>2. rows'[i].space = rows[i].space /\ rows'[i].doc = rows[i].doc
    BY <2>1 DEF RowsKept
  <2> QED
    BY <2>1, <2>2 DEF IInv, DoneWasRead
<1> QED
  BY <1>1, <1>2 DEF StatesKept

(* On to the next row: a shorter batch, and no job.                        *)
LEMMA ContinueKeeps ==
  ASSUME IInv, RowsKept, rows' \in [Ids -> Row \cup {NoRow}],
         NEW p \in Processes, NEW rest \in SUBSET batch[p], Continue(p, rest),
         handle' \in {handle, [handle EXCEPT ![p] = NoSpace]},
         UNCHANGED <<facts, gone, listed, read>>
  PROVE  TypeOK' /\ ErasersHoldASpace' /\ ReadingsAreGood' /\ MarkedWasRead'
<1> USE DEF Continue, Goto
<1>1. TypeOK'
  <2>1. rest \in SUBSET Reading
    BY DEF IInv, TypeOK
  <2>2. \E step \in {"idle", "asking"} : at' = [at EXCEPT ![p] = step]
    OBVIOUS
  <2> QED
    BY <2>1, <2>2 DEF IInv, TypeOK
<1>2. ErasersHoldASpace'
  BY DEF IInv, TypeOK, ErasersHoldASpace
<1>3. ReadingsAreGood'
  <2>1. \A q \in Processes : batch'[q] \in SUBSET batch[q]
    BY DEF IInv, TypeOK
  <2>2. \A q \in Processes : job'[q] \in {job[q], NoReading}
    BY DEF IInv, TypeOK
  <2> QED
    BY <2>1, <2>2, ReadingsKept DEF IInv
<1>4. MarkedWasRead'
  <2> SUFFICES ASSUME NEW q \in Processes, at'[q] = "marking"
               PROVE  /\ job'[q] # NoReading
                      /\ [space |-> job'[q].space, doc |-> job'[q].doc] \in read
    BY DEF MarkedWasRead
  <2>1. q # p
    BY DEF IInv, TypeOK
  <2>2. at[q] = "marking" /\ job'[q] = job[q]
    BY <2>1 DEF IInv, TypeOK
  <2> QED
    BY <2>2 DEF IInv, MarkedWasRead
<1> QED
  BY <1>1, <1>2, <1>3, <1>4

(* Steps that change no row but a new one, and read nothing in.            *)
LEMMA PrepareKeeps ==
  ASSUME IInv, NEW p \in Processes,
         \/ \E s \in Spaces : Resolve(p, s) \/ PendingEpisodes(p, s)
         \/ \E d \in Documents : Ingest(p, d)
         \/ BeginDistill(p) \/ Extract(p) \/ CompleteDistillation(p) \/ BeginErase(p)
  PROVE  IInv'
<1> USE DEF Goto, lane
<1>1. TypeOK /\ Parking
  BY DEF IInv
<1>2. RowsKept /\ StatesKept /\ facts' = facts /\ read' = read
  <2>1. CASE \E d \in Documents : Ingest(p, d)
    <3>1. PICK d \in Documents : Ingest(p, d)
      BY <2>1
    <3>2. RowsKept /\ StatesKept
      BY <1>1, <3>1, IngestKeeps
    <3> QED
      BY <3>1, <3>2 DEF Ingest
  <2>2. CASE ~\E d \in Documents : Ingest(p, d)
    <3>1. rows' = rows /\ gone' = gone /\ facts' = facts /\ read' = read
      BY <2>2 DEF Resolve, PendingEpisodes, BeginDistill, Extract, CompleteDistillation,
         BeginErase
    <3> QED
      BY <1>1, <3>1, UntouchedKeeps
  <2> QED
    BY <2>1, <2>2
<1>3. Parking' /\ ProvenanceIsTrue' /\ DoneWasRead'
  BY <1>2, QuietKeeps
<1>4. rows' \in [Ids -> Row \cup {NoRow}]
  BY <1>2 DEF StatesKept
<1>5. CASE \/ \E s \in Spaces : Resolve(p, s)
           \/ \E d \in Documents : Ingest(p, d)
           \/ BeginErase(p)
  <2>1. UNCHANGED <<facts, batch, job, reply, listed, read, gone>>
    BY <1>5 DEF Resolve, Ingest, BeginErase
  <2>2. TypeOK' /\ ErasersHoldASpace'
    BY <1>1, <1>4, <1>5, <2>1 DEF TypeOK, ErasersHoldASpace, IInv, Resolve, Ingest, BeginErase
  <2>3. ReadingsAreGood'
    BY <1>1, <1>2, <2>1, ReadingsKept DEF IInv
  <2>4. MarkedWasRead'
    BY <1>1, <1>5, <2>1 DEF MarkedWasRead, IInv, TypeOK, Resolve, Ingest, BeginErase
  <2> QED
    BY <1>3, <2>2, <2>3, <2>4 DEF IInv
<1>6. CASE BeginDistill(p)
  <2>1. /\ batch' = [batch EXCEPT ![p] = Oldest(Pending(handle[p]))]
        /\ at' = [at EXCEPT ![p] = "asking"]
        /\ UNCHANGED <<rows, facts, gone, handle, job, reply, listed, read>>
    BY <1>6 DEF BeginDistill
  <2>2. \A x \in Oldest(Pending(handle[p])) : x \in Reading /\ Good(x)
    BY <1>1, <1>6, OldestAreGood DEF BeginDistill
  <2>3. TypeOK' /\ ErasersHoldASpace'
    BY <1>1, <2>1, <2>2 DEF TypeOK, ErasersHoldASpace, IInv
  <2>4. \A q \in Processes : \A x \in batch'[q] : x \in batch[q] \/ Good(x)
    BY <1>1, <2>1, <2>2 DEF TypeOK
  <2>5. \A q \in Processes : \A x \in batch'[q] : x \in batch[q] \/ Good(x)'
    BY <1>1, <1>2, <2>4, GoodStaysGood
  <2>6. ReadingsAreGood'
    BY <1>1, <1>2, <2>1, <2>5, ReadingsKept DEF IInv
  <2>7. MarkedWasRead'
    BY <1>1, <2>1 DEF MarkedWasRead, IInv, TypeOK
  <2> QED
    BY <1>3, <2>3, <2>6, <2>7 DEF IInv
<1>7. CASE Extract(p)
  <2>1. PICK x \in batch[p] :
          /\ job' = [job EXCEPT ![p] = x]
          /\ batch' = [batch EXCEPT ![p] = @ \ {x}]
    BY <1>7 DEF Extract
  <2>2. /\ at' = [at EXCEPT ![p] = "applying"]
        /\ \E any \in BOOLEAN : reply' = [reply EXCEPT ![p] = any]
        /\ UNCHANGED <<rows, facts, gone, handle, listed, read>>
    BY <1>7 DEF Extract
  <2>3. TypeOK' /\ ErasersHoldASpace'
    BY <1>1, <2>1, <2>2 DEF TypeOK, ErasersHoldASpace, IInv
  <2>4. \A q \in Processes : batch'[q] \in SUBSET batch[q]
    BY <1>1, <2>1 DEF TypeOK
  <2>5. \A q \in Processes : job'[q] \in {job[q], NoReading} \cup batch[q] \cup listed
    BY <1>1, <2>1 DEF TypeOK
  <2>6. ReadingsAreGood'
    BY <1>1, <1>2, <2>2, <2>4, <2>5, ReadingsKept DEF IInv
  <2>7. MarkedWasRead'
    BY <1>1, <2>1, <2>2 DEF MarkedWasRead, IInv, TypeOK
  <2> QED
    BY <1>3, <2>3, <2>6, <2>7 DEF IInv
<1>8. CASE \E s \in Spaces : PendingEpisodes(p, s)
  <2>1. PICK s \in Spaces : listed' = listed \cup Oldest(Pending(s))
    BY <1>8 DEF PendingEpisodes
  <2>2. UNCHANGED <<rows, facts, gone, handle, at, batch, job, reply, read>>
    BY <1>8 DEF PendingEpisodes
  <2>3. \A x \in Oldest(Pending(s)) : x \in Reading /\ Good(x)
    BY <1>1, OldestAreGood
  <2>4. TypeOK' /\ ErasersHoldASpace'
    BY <1>1, <2>1, <2>2, <2>3 DEF TypeOK, ErasersHoldASpace, IInv
  <2>5. \A x \in listed' : x \in listed \/ Good(x)'
    BY <1>1, <1>2, <2>1, <2>3, GoodStaysGood
  <2>6. ReadingsAreGood'
    BY <1>1, <1>2, <2>2, <2>5, ReadingsKept DEF IInv
  <2>7. MarkedWasRead'
    BY <1>1, <2>2 DEF MarkedWasRead, IInv
  <2> QED
    BY <1>3, <2>4, <2>6, <2>7 DEF IInv
<1>9. CASE CompleteDistillation(p)
  <2>1. PICK x \in listed : job' = [job EXCEPT ![p] = x]
    BY <1>9 DEF CompleteDistillation
  <2>2. /\ at' = [at EXCEPT ![p] = "submitting"]
        /\ \E any \in BOOLEAN : reply' = [reply EXCEPT ![p] = any]
        /\ UNCHANGED <<rows, facts, gone, handle, batch, listed, read>>
    BY <1>9 DEF CompleteDistillation
  <2>3. TypeOK' /\ ErasersHoldASpace'
    BY <1>1, <2>1, <2>2 DEF TypeOK, ErasersHoldASpace, IInv
  <2>4. \A q \in Processes : job'[q] \in {job[q], NoReading} \cup batch[q] \cup listed
    BY <1>1, <2>1 DEF TypeOK
  <2>5. ReadingsAreGood'
    BY <1>1, <1>2, <2>2, <2>4, ReadingsKept DEF IInv
  <2>6. MarkedWasRead'
    BY <1>1, <2>1, <2>2 DEF MarkedWasRead, IInv, TypeOK
  <2> QED
    BY <1>3, <2>3, <2>5, <2>6 DEF IInv
<1> QED
  BY <1>5, <1>6, <1>7, <1>8, <1>9

(* Failures, of the model, of the transaction, and of the process.         *)
LEMMA FailuresKeep ==
  ASSUME IInv, NEW p \in Processes,
         ExtractFails(p) \/ ApplyFails(p) \/ SubmitFails(p) \/ Crash(p)
  PROVE  IInv'
<1>1. TypeOK /\ Parking
  BY DEF IInv
<1>2. RowsKept /\ StatesKept
  <2>1. CASE ExtractFails(p)
    <3>1. PICK x \in batch[p] : rows' = [rows EXCEPT ![x.id] = AfterFailure(x.id)]
      BY <2>1 DEF ExtractFails
    <3>2. x.id \in Ids
      BY <1>1, <3>1, ReadingIsSome DEF TypeOK
    <3> QED
      BY <1>1, <2>1, <3>1, <3>2, FailureKeeps DEF ExtractFails
  <2>2. CASE ApplyFails(p)
    <3>1. rows' = [rows EXCEPT ![job[p].id] = AfterFailure(job[p].id)] /\ gone' = gone
      BY <2>2 DEF ApplyFails
    <3>2. CASE job[p].id \in Ids
      BY <1>1, <3>1, <3>2, FailureKeeps
    <3>3. CASE job[p].id \notin Ids
      BY <1>1, <3>1, <3>3, UntouchedKeeps DEF TypeOK
    <3> QED
      BY <3>2, <3>3
  <2>3. CASE SubmitFails(p) \/ Crash(p)
    BY <1>1, <2>3, UntouchedKeeps DEF SubmitFails, Crash
  <2> QED
    BY <2>1, <2>2, <2>3
<1>3. UNCHANGED <<facts, gone, listed, read>>
  BY DEF ExtractFails, ApplyFails, SubmitFails, Crash
<1>4. Parking' /\ ProvenanceIsTrue' /\ DoneWasRead'
  BY <1>2, <1>3, QuietKeeps
<1>5. handle' \in {handle, [handle EXCEPT ![p] = NoSpace]}
  BY DEF ExtractFails, ApplyFails, SubmitFails, Crash
<1>6. PICK rest \in SUBSET batch[p] : Continue(p, rest)
  BY DEF ExtractFails, ApplyFails, SubmitFails, Crash
<1>7. TypeOK' /\ ErasersHoldASpace' /\ ReadingsAreGood' /\ MarkedWasRead'
  BY <1>2, <1>3, <1>5, <1>6, ContinueKeeps DEF StatesKept
<1> QED
  BY <1>4, <1>7 DEF IInv

(* A fact that is written from a good reading has a true provenance.       *)
LEMMA ApplyKeeps ==
  ASSUME IInv, NEW p \in Processes, Apply(p)
  PROVE  IInv'
<1> USE DEF Goto
<1>1. TypeOK /\ Parking
  BY DEF IInv
<1> DEFINE x == job[p]
           fact == [space |-> x.space, source |-> x.id, told |-> x.doc]
<1>2. x \in Reading /\ x # NoReading /\ Good(x)
  <2>1. x.id \in Ids
    BY DEF Apply, Live
  <2>2. x # NoReading
    BY <1>1, <2>1, JobOfLiveRow
  <2> QED
    BY <1>1, <2>2, JobIsReading DEF IInv, ReadingsAreGood
<1>3. x.id \in Ids /\ x.space \in Spaces /\ x.doc \in Documents
  BY <1>2 DEF Reading
<1>4. /\ facts' = facts \/ facts' = facts \cup {fact}
      /\ read' = read \cup {[space |-> x.space, doc |-> x.doc]}
      /\ at' = [at EXCEPT ![p] = "marking"]
      /\ UNCHANGED <<rows, gone, handle, batch, job, reply, listed>>
  BY DEF Apply
<1>5. RowsKept /\ StatesKept
  BY <1>1, <1>4, UntouchedKeeps
<1>6. TypeOK' /\ ErasersHoldASpace'
  BY <1>1, <1>3, <1>4 DEF TypeOK, ErasersHoldASpace, IInv
<1>7. ReadingsAreGood'
  BY <1>1, <1>4, <1>5, ReadingsKept DEF IInv
<1>8. MarkedWasRead'
  BY <1>1, <1>2, <1>4 DEF MarkedWasRead, IInv, TypeOK
<1>9. ProvenanceIsTrue'
  BY <1>2, <1>4 DEF IInv, ProvenanceIsTrue, Good, Live
<1>10. DoneWasRead'
  BY <1>4 DEF IInv, DoneWasRead, Live
<1> QED
  BY <1>5, <1>6, <1>7, <1>8, <1>9, <1>10 DEF IInv, StatesKept

(* While no space is deleted, the row that is marked is the one read.      *)
LEMMA MarkDoneKeeps ==
  ASSUME IInv, NEW p \in Processes, MarkDone(p)
  PROVE  IInv'
<1>1. TypeOK /\ Parking
  BY DEF IInv
<1>2. /\ RowsKept /\ Parking'
      /\ rows' \in [Ids -> Row \cup {NoRow}]
      /\ \A i \in Live' : i \in Live /\ (i # job[p].id => rows'[i] = rows[i])
  BY <1>1, MarkDoneRows
<1>3. UNCHANGED <<facts, gone, handle, listed, read>> /\ Continue(p, batch[p])
  BY DEF MarkDone
<1>4. TypeOK' /\ ErasersHoldASpace' /\ ReadingsAreGood' /\ MarkedWasRead'
  BY <1>2, <1>3, ContinueKeeps
<1>5. ProvenanceIsTrue'
  BY <1>1, <1>2, <1>3, ProvenanceKept DEF IInv
<1>6. DoneWasRead'
  <2> SUFFICES ASSUME gone' = {}, NEW i \in Live', rows'[i].state = "done"
               PROVE  [space |-> rows'[i].space, doc |-> rows'[i].doc] \in read
    BY <1>3 DEF DoneWasRead
  <2>1. i \in Live /\ rows'[i].space = rows[i].space /\ rows'[i].doc = rows[i].doc
    BY <1>2 DEF RowsKept
  <2>2. CASE i = job[p].id
    <3>1. job[p] # NoReading /\ [space |-> job[p].space, doc |-> job[p].doc] \in read
      BY DEF MarkDone, IInv, MarkedWasRead
    <3>2. Good(job[p]) /\ gone = {}
      BY <1>3, <3>1 DEF IInv, ReadingsAreGood
    <3> QED
      BY <2>1, <2>2, <3>1, <3>2 DEF Good
  <2>3. CASE i # job[p].id
    BY <1>2, <1>3, <2>1, <2>3 DEF IInv, DoneWasRead
  <2> QED
    BY <2>2, <2>3
<1> QED
  BY <1>2, <1>4, <1>5, <1>6 DEF IInv

(* Deleting a space takes nothing from what another one's facts rest on.   *)
LEMMA EraseSpaceKeeps ==
  ASSUME IInv, NEW p \in Processes, EraseSpace(p)
  PROVE  IInv'
<1> USE DEF Goto
<1>1. TypeOK /\ Parking
  BY DEF IInv
<1> DEFINE erased == {i \in Live : rows[i].space = handle[p]}
           left(f) == [f EXCEPT !.source = IF @ \in erased THEN 0 ELSE @]
<1>2. RowsKept /\ StatesKept
  BY <1>1, EraseKeeps
<1>3. /\ gone' = gone \cup {handle[p]} /\ handle[p] \in Spaces
      /\ handle' = [handle EXCEPT ![p] = NoSpace]
      /\ at' = [at EXCEPT ![p] = "idle"]
      /\ UNCHANGED <<batch, job, reply, listed, read>>
  BY DEF EraseSpace, IInv, ErasersHoldASpace
<1>4. \A g \in facts' : \E f \in facts : f.space # handle[p] /\ g = left(f)
  BY DEF EraseSpace
<1>5. ASSUME NEW g \in facts'
      PROVE  /\ g \in [space : Spaces, source : Ids \cup {0}, told : Documents]
             /\ g \in facts \/ g.space \in gone'
  <2>1. PICK f \in facts : f.space # handle[p] /\ g = left(f)
    BY <1>4
  <2>2. f \in [space : Spaces, source : Ids \cup {0}, told : Documents]
    BY <1>1 DEF TypeOK
  <2>3. CASE f.source \notin erased
    <3>1. g = f
      BY <2>1, <2>2, <2>3
    <3> QED
      BY <2>2, <3>1
  <2>4. CASE f.source \in erased
    <3>1. f.space \in gone
      BY <2>1, <2>4 DEF IInv, ProvenanceIsTrue
    <3>2. g = [f EXCEPT !.source = 0]
      BY <2>1, <2>4
    <3> QED
      BY <1>3, <2>2, <3>1, <3>2
  <2> QED
    BY <2>3, <2>4
<1>6. TypeOK' /\ ErasersHoldASpace'
  BY <1>1, <1>2, <1>3, <1>5 DEF TypeOK, ErasersHoldASpace, IInv, StatesKept
<1>7. ReadingsAreGood'
  BY <1>1, <1>2, <1>3, ReadingsKept DEF IInv
<1>8. MarkedWasRead'
  BY <1>1, <1>3 DEF MarkedWasRead, IInv, TypeOK
<1>9. ProvenanceIsTrue'
  BY <1>1, <1>2, <1>5, ProvenanceKept DEF IInv
<1>10. DoneWasRead'
  BY <1>3 DEF DoneWasRead
<1> QED
  BY <1>2, <1>6, <1>7, <1>8, <1>9, <1>10 DEF IInv, StatesKept

(* Every step keeps the invariant.                                         *)
LEMMA NextIInv == IInv /\ [Next]_vars => IInv'
<1> SUFFICES ASSUME IInv, [Next]_vars PROVE IInv'
  OBVIOUS
<1>1. CASE UNCHANGED vars
  BY <1>1 DEF vars, IInv, TypeOK, ErasersHoldASpace, ReadingsAreGood, Good, Live,
     MarkedWasRead, Parking, ProvenanceIsTrue, DoneWasRead
<1>2. CASE Next
  BY <1>2, PrepareKeeps, FailuresKeep, ApplyKeeps, MarkDoneKeeps, EraseSpaceKeeps
     DEF Next, Distill, Agent
<1> QED
  BY <1>1, <1>2

-----------------------------------------------------------------------------
(***************************************************************************)
(* Theorems                                                                *)
(***************************************************************************)

(* The queue, the readings and the ledger's provenance agree.              *)
THEOREM LaneInvariant == Spec => []IInv
BY InitIInv, NextIInv, PTL DEF Spec

(* Type correctness of the lane.                                           *)
THEOREM LaneTypeCorrect == Spec => []TypeOK
<1>1. IInv => TypeOK
  BY DEF IInv
<1> QED
  BY <1>1, LaneInvariant, PTL

(* Every fact of a living space comes from an episode of that space, and   *)
(* was read in its text: for any number of distillers and agents that      *)
(* overlap, die and submit late, while spaces are deleted and ids return.  *)
THEOREM ProvenanceStaysTrue == Spec => []ProvenanceIsTrue
<1>1. IInv => ProvenanceIsTrue
  BY DEF IInv
<1> QED
  BY <1>1, LaneInvariant, PTL

(* Until a space is deleted, no row is done that nobody has read.          *)
THEOREM DoneRowsWereRead == Spec => []DoneWasRead
<1>1. IInv => DoneWasRead
  BY DEF IInv
<1> QED
  BY <1>1, LaneInvariant, PTL

(* A row that has failed three times stays parked, however many other      *)
(* distillers still fail on it, until one that has read it marks it.       *)
THEOREM ParkedStaysParked == Spec => ParkedIsLeftAlone
<1> DEFINE Left(i) ==
      \/ rows'[i] = NoRow
      \/ rows'[i].state = "failed"
      \/ rows'[i].state = "done" /\ \E p \in Processes : at[p] = "marking" /\ job[p].id = i
<1>1. ASSUME IInv, [Next]_vars, NEW i \in Live, rows[i].state = "failed"
      PROVE  Left(i)
  <2>1. TypeOK /\ i \in Ids /\ rows[i] \in Row /\ rows[i].attempts >= 3
    BY <1>1, LiveRow DEF IInv, Parking
  <2>2. CASE rows' = rows
    BY <1>1, <2>2
  <2>3. ASSUME NEW j, rows' = [rows EXCEPT ![j] = AfterFailure(j)]
        PROVE  Left(i)
    <3>1. CASE i # j
      BY <1>1, <2>1, <2>3, <3>1 DEF TypeOK
    <3>2. CASE i = j
      <4>1. AfterFailure(i).state = "failed"
        BY <1>1, <2>1, FailureRow DEF Row
      <4> QED
        BY <2>1, <2>3, <3>2, <4>1 DEF TypeOK
    <3> QED
      BY <3>1, <3>2
  <2>4. ASSUME NEW p \in Processes, ExtractFails(p) \/ ApplyFails(p)
        PROVE  Left(i)
    BY <2>3, <2>4 DEF ExtractFails, ApplyFails
  <2>5. ASSUME NEW p \in Processes, MarkDone(p)
        PROVE  Left(i)
    <3>1. CASE job[p].id \notin Live
      BY <2>2, <2>5, <3>1 DEF MarkDone
    <3>2. CASE job[p].id \in Live
      <4>1. at[p] = "marking" /\ rows' = [rows EXCEPT ![job[p].id].state = "done"]
        BY <2>5, <3>2 DEF MarkDone
      <4>2. CASE i # job[p].id
        BY <1>1, <2>1, <4>1, <4>2 DEF TypeOK
      <4>3. CASE i = job[p].id
        <5>1. rows'[i] = [rows[i] EXCEPT !.state = "done"]
          BY <2>1, <4>1, <4>3 DEF TypeOK
        <5>2. rows'[i].state = "done"
          BY <2>1, <5>1 DEF Row
        <5> QED
          BY <4>1, <4>3, <5>2
      <4> QED
        BY <4>2, <4>3
    <3> QED
      BY <3>1, <3>2
  <2>6. ASSUME NEW p \in Processes, NEW d \in Documents, Ingest(p, d)
        PROVE  Left(i)
    <3>1. PICK j \in Ids : (\A k \in Live : k < j) /\ \E new : rows' = [rows EXCEPT ![j] = new]
      BY <2>6 DEF Ingest
    <3>2. i # j
      BY <2>1, <3>1, LaneAssumption DEF Ids
    <3> QED
      BY <1>1, <2>1, <3>1, <3>2 DEF TypeOK
  <2>7. ASSUME NEW p \in Processes, EraseSpace(p)
        PROVE  Left(i)
    <3>1. rows'[i] = NoRow \/ rows'[i] = rows[i]
      BY <2>1, <2>7 DEF EraseSpace
    <3> QED
      BY <1>1, <3>1
  <2>8. CASE UNCHANGED vars
    BY <2>2, <2>8 DEF vars
  <2>9. ASSUME NEW p \in Processes,
               \/ \E s \in Spaces : Resolve(p, s) \/ PendingEpisodes(p, s)
               \/ BeginDistill(p) \/ Extract(p) \/ Apply(p)
               \/ CompleteDistillation(p) \/ SubmitFails(p) \/ BeginErase(p) \/ Crash(p)
        PROVE  Left(i)
    BY <2>2, <2>9 DEF Resolve, PendingEpisodes, BeginDistill, Extract, Apply,
       CompleteDistillation, SubmitFails, BeginErase, Crash
  <2> HIDE DEF Left
  <2> QED
    BY <1>1, <2>4, <2>5, <2>6, <2>7, <2>8, <2>9 DEF Next, Distill, Agent
<1>2. IInv /\ [Next]_vars =>
        \A i \in Live : rows[i].state = "failed" => Left(i)
  BY <1>1
<1> QED
  BY <1>2, LaneInvariant, PTL DEF Spec, ParkedIsLeftAlone

-----------------------------------------------------------------------------
(***************************************************************************)
(* How often a row can fail                                                *)
(***************************************************************************)

(* A process can fail row i while it has it in its snapshot, or is about   *)
(* to apply what it read there.                                            *)
CanFail(p, i) ==
  \/ \E x \in batch[p] : x.id = i
  \/ at[p] = "applying" /\ job[p].id = i

Failing(i) == {p \in Processes : CanFail(p, i)}

(* A process holds a row once: a failure is its last on it.                *)
HoldsOnce(p) ==
  /\ \A x, y \in batch[p] : x.id = y.id => x = y
  /\ at[p] = "applying" => \A x \in batch[p] : x.id # job[p].id

(* Past its third failure a row is in no new snapshot, so that those who   *)
(* can still fail it only become fewer.                                    *)
FailuresLeft(i) ==
  rows[i].attempts >= 3 =>
    rows[i].attempts + Cardinality(Failing(i)) <= 2 + Cardinality(Processes)

BInv ==
  /\ IInv
  /\ \A p \in Processes : HoldsOnce(p)
  /\ \A i \in Live : FailuresLeft(i)

(* Who continues with a part of its snapshot can fail no more than before. *)
LEMMA ContinueHolds ==
  ASSUME TypeOK, NEW p \in Processes, NEW rest \in SUBSET batch[p], Continue(p, rest),
         HoldsOnce(p)
  PROVE  /\ HoldsOnce(p)'
         /\ \A i : CanFail(p, i)' => \E x \in rest : x.id = i
         /\ \A q \in Processes \ {p} : /\ batch'[q] = batch[q] /\ job'[q] = job[q]
                                       /\ at'[q] = at[q]
<1>1. /\ batch'[p] = rest /\ at'[p] # "applying"
      /\ \A q \in Processes \ {p} : /\ batch'[q] = batch[q] /\ job'[q] = job[q]
                                    /\ at'[q] = at[q]
  BY DEF TypeOK, Continue, Goto
<1> QED
  BY <1>1 DEF HoldsOnce, CanFail

(* The steps after which a process can fail a row it could not fail: only  *)
(* a new snapshot, and of pending rows.                                    *)
LEMMA HoldersOnlyLeave ==
  ASSUME BInv, [Next]_vars, NEW q \in Processes
  PROVE  /\ HoldsOnce(q)'
         /\ \A i : CanFail(q, i)' =>
              \/ CanFail(q, i)
              \/ i \in Live /\ rows[i].state = "pending" /\ rows' = rows
<1> DEFINE Fewer ==
      /\ HoldsOnce(q)'
      /\ \A i : CanFail(q, i)' =>
           \/ CanFail(q, i)
           \/ i \in Live /\ rows[i].state = "pending" /\ rows' = rows
<1> USE DEF Goto
<1>1. TypeOK /\ HoldsOnce(q)
  BY DEF BInv, IInv
<1>2. CASE batch'[q] = batch[q] /\ job'[q] = job[q] /\ (at'[q] = "applying" => at[q] = "applying")
  BY <1>1, <1>2 DEF HoldsOnce, CanFail
<1>3. ASSUME NEW p \in Processes, NEW rest \in SUBSET batch[p], Continue(p, rest)
      PROVE  Fewer
  <2>1. CASE q = p
    BY <1>1, <1>3, <2>1, ContinueHolds DEF CanFail
  <2>2. CASE q # p
    <3>1. batch'[q] = batch[q] /\ job'[q] = job[q] /\ at'[q] = at[q]
      BY <1>1, <1>3, <2>2 DEF TypeOK, Continue
    <3> QED
      BY <1>2, <3>1
  <2> QED
    BY <2>1, <2>2
<1>4. ASSUME NEW p \in Processes, BeginDistill(p)
      PROVE  Fewer
  <2>1. CASE q = p
    <3>1. batch'[p] = Oldest(Pending(handle[p])) /\ at'[p] = "asking" /\ rows' = rows
      BY <1>1, <1>4 DEF TypeOK, BeginDistill
    <3>2. \A x \in batch'[p] : \E i \in Live : x = AsRead(i, handle[p]) /\ rows[i].state = "pending"
      BY <3>1 DEF Oldest, Pending
    <3> QED
      BY <2>1, <3>1, <3>2 DEF HoldsOnce, CanFail, AsRead
  <2>2. CASE q # p
    <3>1. batch'[q] = batch[q] /\ job'[q] = job[q] /\ at'[q] = at[q]
      BY <1>1, <1>4, <2>2 DEF TypeOK, BeginDistill
    <3> QED
      BY <1>2, <3>1
  <2> QED
    BY <2>1, <2>2
<1>5. ASSUME NEW p \in Processes, Extract(p)
      PROVE  Fewer
  <2>1. CASE q = p
    <3>1. PICK x \in batch[p] : job' = [job EXCEPT ![p] = x] /\ batch' = [batch EXCEPT ![p] = @ \ {x}]
      BY <1>5 DEF Extract
    <3>2. job'[p] = x /\ batch'[p] = batch[p] \ {x}
      BY <1>1, <3>1 DEF TypeOK
    <3> QED
      BY <1>1, <2>1, <3>2 DEF HoldsOnce, CanFail
  <2>2. CASE q # p
    <3>1. batch'[q] = batch[q] /\ job'[q] = job[q] /\ at'[q] = at[q]
      BY <1>1, <1>5, <2>2 DEF TypeOK, Extract
    <3> QED
      BY <1>2, <3>1
  <2> QED
    BY <2>1, <2>2
<1>6. ASSUME NEW p \in Processes, CompleteDistillation(p)
      PROVE  Fewer
  <2>1. at'[q] # "applying" \/ q # p
    BY <1>1, <1>6 DEF TypeOK, CompleteDistillation
  <2>2. batch' = batch /\ (q # p => job'[q] = job[q] /\ at'[q] = at[q])
    BY <1>1, <1>6 DEF TypeOK, CompleteDistillation
  <2> QED
    BY <1>1, <2>1, <2>2 DEF HoldsOnce, CanFail
<1>7. ASSUME NEW p \in Processes, ExtractFails(p) \/ ApplyFails(p) \/ MarkDone(p)
                                  \/ SubmitFails(p) \/ Crash(p)
      PROVE  Fewer
  <2>1. \E rest \in SUBSET batch[p] : Continue(p, rest)
    BY <1>7 DEF ExtractFails, ApplyFails, MarkDone, SubmitFails, Crash
  <2> QED
    BY <1>3, <2>1
<1>8. ASSUME NEW p \in Processes,
             \/ \E s \in Spaces : Resolve(p, s) \/ PendingEpisodes(p, s)
             \/ \E d \in Documents : Ingest(p, d)
             \/ Apply(p) \/ BeginErase(p) \/ EraseSpace(p)
      PROVE  Fewer
  <2>1. batch' = batch /\ job' = job /\ (at'[q] = "applying" => at[q] = "applying")
    BY <1>1, <1>8 DEF TypeOK, Resolve, PendingEpisodes, Ingest, lane, Apply, BeginErase, EraseSpace
  <2> QED
    BY <1>2, <2>1
<1>9. CASE UNCHANGED vars
  BY <1>2, <1>9 DEF vars
<1> HIDE DEF Fewer
<1> QED
  <2>1. ASSUME NEW p \in Processes, Distill(p) \/ Agent(p)
        PROVE  Fewer
    BY <1>4, <1>5, <1>6, <1>7, <1>8, <2>1 DEF Distill, Agent
  <2>2. ASSUME Next PROVE Fewer
    <3>1. PICK p \in Processes :
            \/ Distill(p) \/ Agent(p) \/ BeginErase(p) \/ EraseSpace(p) \/ Crash(p)
            \/ \E s \in Spaces : Resolve(p, s)
            \/ \E d \in Documents : Ingest(p, d)
      BY <2>2 DEF Next
    <3> QED
      BY <1>7, <1>8, <2>1, <3>1
  <2> QED
    BY <1>9, <2>2 DEF Fewer

(* What a step does to the attempts of a row: a new row has none, and who  *)
(* adds one is not among those who can, any more.                          *)
LEMMA OneFailureEach ==
  ASSUME BInv, [Next]_vars, NEW i \in Live'
  PROVE  \/ rows'[i].attempts = 0
         \/ i \in Live /\ rows'[i].attempts = rows[i].attempts
         \/ /\ i \in Live /\ rows'[i].attempts = rows[i].attempts + 1 /\ rows' # rows
            /\ \E p \in Processes : CanFail(p, i) /\ ~ CanFail(p, i)'
<1> DEFINE Failed(p) == CanFail(p, i) /\ ~ CanFail(p, i)'
           Counted ==
             \/ rows'[i].attempts = 0
             \/ i \in Live /\ rows'[i].attempts = rows[i].attempts
             \/ /\ i \in Live /\ rows'[i].attempts = rows[i].attempts + 1 /\ rows' # rows
                /\ \E p \in Processes : Failed(p)
<1>1. /\ TypeOK /\ i \in Ids /\ (\A p \in Processes : HoldsOnce(p))
      /\ i \in Live => rows[i] \in Row
  BY LiveRow DEF BInv, IInv, Live
<1>2. CASE rows' = rows
  BY <1>2 DEF Live
<1>3. ASSUME NEW p \in Processes, NEW j, rows' = [rows EXCEPT ![j] = AfterFailure(j)],
             j = i => Failed(p)
      PROVE  Counted
  <2>1. CASE i # j
    BY <1>1, <1>3, <2>1 DEF TypeOK, Live
  <2>2. CASE i = j
    <3>1. rows'[i] = AfterFailure(i)
      BY <1>1, <1>3, <2>2 DEF TypeOK
    <3>2. i \in Live
      BY <1>1, <3>1 DEF AfterFailure, Live
    <3>3. rows'[i].attempts = rows[i].attempts + 1 /\ rows[i].attempts \in Nat
      BY <1>1, <3>1, <3>2, FailureRow DEF Row
    <3> QED
      BY <1>3, <2>2, <3>2, <3>3
  <2> QED
    BY <2>1, <2>2
<1>4. ASSUME NEW p \in Processes, ExtractFails(p)
      PROVE  Counted
  <2>1. PICK x \in batch[p] : /\ rows' = [rows EXCEPT ![x.id] = AfterFailure(x.id)]
                              /\ Continue(p, batch[p] \ {x})
    BY <1>4 DEF ExtractFails
  <2>2. \A k : CanFail(p, k)' => \E y \in batch[p] \ {x} : y.id = k
    BY <1>1, <2>1, ContinueHolds
  <2>3. CanFail(p, x.id) /\ ~ CanFail(p, x.id)'
    BY <1>1, <2>2 DEF HoldsOnce, CanFail
  <2> HIDE DEF Counted
  <2> QED
    BY <1>3, <2>1, <2>3
<1>5. ASSUME NEW p \in Processes, ApplyFails(p)
      PROVE  Counted
  <2>1. PICK j : j = job[p].id
    OBVIOUS
  <2>2. /\ at[p] = "applying" /\ Continue(p, batch[p])
        /\ rows' = [rows EXCEPT ![j] = AfterFailure(j)]
    BY <1>5, <2>1 DEF ApplyFails
  <2>3. \A k : CanFail(p, k)' => \E y \in batch[p] : y.id = k
    BY <1>1, <2>2, ContinueHolds
  <2>4. CanFail(p, j) /\ ~ CanFail(p, j)'
    BY <1>1, <2>1, <2>2, <2>3 DEF HoldsOnce, CanFail
  <2> HIDE DEF Counted
  <2> QED
    BY <1>3, <2>2, <2>4
<1>6. ASSUME NEW p \in Processes, MarkDone(p)
      PROVE  Counted
  <2>1. CASE job[p].id \notin Live
    BY <1>2, <1>6, <2>1 DEF MarkDone
  <2>2. CASE job[p].id \in Live
    <3>1. rows' = [rows EXCEPT ![job[p].id].state = "done"]
      BY <1>6, <2>2 DEF MarkDone
    <3>2. CASE i # job[p].id
      BY <1>1, <3>1, <3>2 DEF TypeOK, Live
    <3>3. CASE i = job[p].id
      <4>1. rows'[i] = [rows[i] EXCEPT !.state = "done"] /\ rows[i] \in Row /\ i \in Live
        BY <1>1, <2>2, <3>1, <3>3 DEF TypeOK
      <4>2. rows'[i].attempts = rows[i].attempts
        BY <4>1 DEF Row
      <4> QED
        BY <4>1, <4>2
    <3> QED
      BY <3>2, <3>3
  <2> QED
    BY <2>1, <2>2
<1>7. ASSUME NEW p \in Processes, NEW d \in Documents, Ingest(p, d)
      PROVE  Counted
  <2>1. PICK j \in Ids :
          rows' = [rows EXCEPT ![j] = [space |-> handle[p], doc |-> d,
                                       state |-> "pending", attempts |-> 0]]
    BY <1>7 DEF Ingest
  <2> QED
    BY <1>1, <2>1 DEF TypeOK, Live
<1>8. ASSUME NEW p \in Processes, EraseSpace(p)
      PROVE  Counted
  <2>1. rows'[i] = NoRow \/ rows'[i] = rows[i]
    BY <1>1, <1>8 DEF EraseSpace
  <2> QED
    BY <2>1 DEF Live
<1>9. ASSUME NEW p \in Processes,
             \/ \E s \in Spaces : Resolve(p, s) \/ PendingEpisodes(p, s)
             \/ BeginDistill(p) \/ Extract(p) \/ Apply(p)
             \/ CompleteDistillation(p) \/ SubmitFails(p) \/ BeginErase(p) \/ Crash(p)
      PROVE  Counted
  BY <1>2, <1>9 DEF Resolve, PendingEpisodes, BeginDistill, Extract, Apply,
     CompleteDistillation, SubmitFails, BeginErase, Crash
<1>10. CASE UNCHANGED vars
  BY <1>2, <1>10 DEF vars
<1> HIDE DEF Counted
<1>11. ASSUME NEW p \in Processes, Distill(p) \/ Agent(p)
       PROVE  Counted
  BY <1>4, <1>5, <1>6, <1>9, <1>11 DEF Distill, Agent
<1>12. ASSUME Next PROVE Counted
  <2>1. PICK p \in Processes :
          \/ Distill(p) \/ Agent(p) \/ BeginErase(p) \/ EraseSpace(p) \/ Crash(p)
          \/ \E s \in Spaces : Resolve(p, s)
          \/ \E d \in Documents : Ingest(p, d)
    BY <1>12 DEF Next
  <2> QED
    BY <1>7, <1>8, <1>9, <1>11, <2>1
<1> QED
  BY <1>10, <1>12 DEF Counted

(* There are as many processes as there are, and each can fail a row once  *)
(* after it was parked.                                                    *)
LEMMA NextBInv ==
  ASSUME IsFiniteSet(Processes), BInv, [Next]_vars
  PROVE  BInv'
<1>1. IInv' /\ \A p \in Processes : HoldsOnce(p)'
  BY NextIInv, HoldersOnlyLeave DEF BInv
<1>2. ASSUME NEW i \in Live'
      PROVE  FailuresLeft(i)'
  <2> SUFFICES ASSUME rows'[i].attempts >= 3
               PROVE  rows'[i].attempts + Cardinality(Failing(i)') <= 2 + Cardinality(Processes)
    BY DEF FailuresLeft
  <2> DEFINE before == Failing(i)
             after == Failing(i)'
  <2>1. /\ IsFiniteSet(before) /\ IsFiniteSet(after)
        /\ before \subseteq Processes /\ after \subseteq Processes
        /\ Cardinality(before) \in Nat /\ Cardinality(after) \in Nat
        /\ Cardinality(Processes) \in Nat
    <3>1. before \subseteq Processes /\ after \subseteq Processes
      BY DEF Failing
    <3> HIDE DEF before, after
    <3> QED
      BY <3>1, FS_Subset, FS_CardinalityType
  <2>2. i \in Live /\ rows[i] \in Row /\ rows[i].attempts \in Nat
    <3>1. rows'[i].attempts # 0
      OBVIOUS
    <3>2. i \in Live
      BY <3>1, OneFailureEach
    <3> QED
      BY <3>2, LiveRow DEF BInv, IInv, Row
  <2>3. CASE rows'[i].attempts = rows[i].attempts
    <3>1. rows[i].state # "pending"
      BY <2>2, <2>3 DEF BInv, IInv, Parking
    <3>2. after \subseteq before
      BY <3>1, HoldersOnlyLeave DEF Failing
    <3>3. Cardinality(after) <= Cardinality(before)
      <4> HIDE DEF before, after
      <4> QED
        BY <2>1, <3>2, FS_Subset
    <3>4. rows[i].attempts + Cardinality(before) <= 2 + Cardinality(Processes)
      BY <2>2, <2>3 DEF BInv, FailuresLeft
    <3> HIDE DEF before
    <3> QED
      BY <2>1, <2>2, <2>3, <3>3, <3>4
  <2>4. ASSUME rows'[i].attempts = rows[i].attempts + 1, rows' # rows,
               NEW p \in Processes, CanFail(p, i), ~ CanFail(p, i)'
        PROVE  rows'[i].attempts + Cardinality(after) <= 2 + Cardinality(Processes)
    <3>1. after \subseteq before \ {p} /\ p \in before
      BY <2>4, HoldersOnlyLeave DEF Failing
    <3>2. /\ Cardinality(before \ {p}) = Cardinality(before) - 1
          /\ Cardinality(Processes \ {p}) = Cardinality(Processes) - 1
          /\ IsFiniteSet(before \ {p}) /\ IsFiniteSet(Processes \ {p})
      <4> HIDE DEF before, after
      <4> QED
        BY <2>1, <3>1, FS_RemoveElement
    <3>3. /\ Cardinality(after) <= Cardinality(before) - 1
          /\ Cardinality(after) <= Cardinality(Processes) - 1
      <4> HIDE DEF before, after
      <4>1. after \subseteq Processes \ {p}
        BY <2>1, <3>1
      <4> QED
        BY <3>1, <3>2, <4>1, FS_Subset
    <3>4. rows[i].attempts >= 3 =>
            rows[i].attempts + Cardinality(before) <= 2 + Cardinality(Processes)
      BY <2>2 DEF BInv, FailuresLeft
    <3> HIDE DEF before, after
    <3> QED
      BY <2>1, <2>2, <2>4, <3>3, <3>4
  <2>5. \/ rows'[i].attempts = rows[i].attempts
        \/ /\ rows'[i].attempts = rows[i].attempts + 1 /\ rows' # rows
           /\ \E p \in Processes : CanFail(p, i) /\ ~ CanFail(p, i)'
    <3>1. rows'[i].attempts # 0
      OBVIOUS
    <3> QED
      BY <3>1, OneFailureEach
  <2> QED
    BY <2>3, <2>4, <2>5
<1> QED
  BY <1>1, <1>2 DEF BInv

(* However many distillers hold a row in their snapshots, it is parked by  *)
(* its third failure, and after that each of the others adds one failure   *)
(* at most.  (There are finitely many processes.)                          *)
THEOREM FailuresAreBounded ==
  ASSUME IsFiniteSet(Processes)
  PROVE  Spec => []AttemptsAreBounded
<1>1. Init => BInv
  BY InitIInv DEF Init, BInv, HoldsOnce, Live
<1>2. BInv => AttemptsAreBounded
  <2> SUFFICES ASSUME BInv, NEW i \in Live
               PROVE  /\ rows[i].state = "pending" => rows[i].attempts < 3
                      /\ rows[i].attempts <= 2 + Cardinality(Processes)
    BY DEF AttemptsAreBounded
  <2>1. rows[i].attempts \in Nat /\ (rows[i].state = "pending" => rows[i].attempts < 3)
    BY LiveRow DEF BInv, IInv, Parking, Row
  <2>2. Cardinality(Failing(i)) \in Nat /\ Cardinality(Processes) \in Nat
    BY FS_Subset, FS_CardinalityType DEF Failing
  <2>3. rows[i].attempts >= 3 =>
          rows[i].attempts + Cardinality(Failing(i)) <= 2 + Cardinality(Processes)
    BY DEF BInv, FailuresLeft
  <2> QED
    BY <2>1, <2>2, <2>3
<1> QED
  BY <1>1, <1>2, NextBInv, PTL DEF Spec

-----------------------------------------------------------------------------
(***************************************************************************)
(* What the documentation says holds where nobody uses what is erased      *)
(***************************************************************************)

(* A space is erased when no other process has resolved it, and none is    *)
(* about to apply what it read there.                                      *)
ErasedUnused ==
  \A p, q \in Processes :
    EraseSpace(p) /\ p # q =>
      /\ handle[q] # handle[p]
      /\ job[q] # NoReading => job[q].space # handle[p]

(* Then all work is on living spaces, and only for them are facts stored.  *)
WorksOnLiving(p) ==
  /\ handle[p] \notin gone
  /\ \A x \in batch[p] : x.space = handle[p]
  /\ job[p] # NoReading => job[p].space \notin gone
  /\ at[p] \in {"idle", "erasing"} => batch[p] = {} /\ job[p] = NoReading

LivingInv ==
  /\ \A p \in Processes : WorksOnLiving(p)
  /\ NothingRecreatesWhatWasErased

(* While no space is deleted and no fact is stored, one process's place    *)
(* concerns no other.                                                      *)
LEMMA OthersWorkOn ==
  ASSUME IInv, LivingInv, NEW p \in Processes, gone' = gone, facts' = facts,
         \A q \in Processes \ {p} : /\ handle'[q] = handle[q] /\ batch'[q] = batch[q]
                                    /\ job'[q] = job[q] /\ at'[q] = at[q],
         WorksOnLiving(p)'
  PROVE  LivingInv'
<1>1. \A q \in Processes \ {p} : WorksOnLiving(q)'
  BY DEF LivingInv, WorksOnLiving
<1> QED
  BY <1>1 DEF LivingInv, NothingRecreatesWhatWasErased

(* A process that goes on to the rest of its batch, or ends.               *)
LEMMA ContinuesOnLiving ==
  ASSUME IInv, LivingInv, NEW p \in Processes, NEW rest, rest \subseteq batch[p],
         Continue(p, rest), gone' = gone, facts' = facts,
         \/ handle' = handle
         \/ handle' = [handle EXCEPT ![p] = NoSpace] /\ rest = {}
  PROVE  LivingInv'
<1>1. TypeOK
  BY DEF IInv
<1>2. /\ batch'[p] = rest /\ job'[p] = NoReading
      /\ at'[p] = IF rest = {} THEN "idle" ELSE "asking"
      /\ \A q \in Processes \ {p} : /\ batch'[q] = batch[q] /\ job'[q] = job[q]
                                    /\ at'[q] = at[q]
  BY <1>1 DEF Continue, Goto, TypeOK
<1>3. /\ \A q \in Processes \ {p} : handle'[q] = handle[q]
      /\ \/ handle'[p] = handle[p]
         \/ handle'[p] = NoSpace /\ rest = {}
  <2>1. CASE handle' = handle
    BY <2>1
  <2>2. CASE handle' = [handle EXCEPT ![p] = NoSpace] /\ rest = {}
    BY <1>1, <2>2 DEF TypeOK
  <2> QED
    BY <2>1, <2>2
<1>4. WorksOnLiving(p)'
  <2>1. NoSpace \notin gone
    BY <1>1, LaneAssumption DEF TypeOK
  <2> QED
    BY <1>2, <1>3, <2>1 DEF LivingInv, WorksOnLiving
<1> QED
  BY <1>2, <1>3, <1>4, OthersWorkOn

(* A distiller works on the space it resolved.                             *)
LEMMA DistillOnLiving ==
  ASSUME IInv, LivingInv, NEW p \in Processes, Distill(p)
  PROVE  LivingInv'
<1>1. TypeOK
  BY DEF IInv
<1>2. CASE BeginDistill(p)
  <2>1. /\ batch'[p] = Oldest(Pending(handle[p])) /\ at'[p] = "asking"
        /\ gone' = gone /\ facts' = facts /\ handle' = handle /\ job' = job
        /\ \A q \in Processes \ {p} : batch'[q] = batch[q] /\ at'[q] = at[q]
    BY <1>1, <1>2 DEF BeginDistill, Goto, TypeOK
  <2>2. \A x \in Oldest(Pending(handle[p])) : x.space = handle[p]
    BY DEF Oldest, Pending, AsRead
  <2>3. WorksOnLiving(p)'
    BY <2>1, <2>2 DEF LivingInv, WorksOnLiving
  <2> QED
    BY <2>1, <2>3, OthersWorkOn
<1>3. CASE Extract(p)
  <2>1. PICK x \in batch[p] : /\ job' = [job EXCEPT ![p] = x]
                              /\ batch' = [batch EXCEPT ![p] = @ \ {x}]
    BY <1>3 DEF Extract
  <2>2. /\ job'[p] = x /\ batch'[p] = batch[p] \ {x} /\ at'[p] = "applying"
        /\ gone' = gone /\ facts' = facts /\ handle' = handle
        /\ \A q \in Processes \ {p} : /\ batch'[q] = batch[q] /\ at'[q] = at[q]
                                      /\ job'[q] = job[q]
    BY <1>1, <1>3, <2>1 DEF Extract, Goto, TypeOK
  <2>3. x.space = handle[p] /\ handle[p] \notin gone
    BY <2>1 DEF LivingInv, WorksOnLiving
  <2>4. WorksOnLiving(p)'
    BY <2>2, <2>3 DEF LivingInv, WorksOnLiving
  <2> QED
    BY <2>2, <2>4, OthersWorkOn
<1>4. CASE ExtractFails(p)
  <2>1. PICK x \in batch[p] : Continue(p, batch[p] \ {x})
    BY <1>4 DEF ExtractFails
  <2> QED
    BY <1>4, <2>1, ContinuesOnLiving DEF ExtractFails
<1>5. CASE Apply(p)
  <2>1. /\ at'[p] = "marking" /\ gone' = gone /\ handle' = handle /\ batch' = batch /\ job' = job
        /\ \A q \in Processes \ {p} : at'[q] = at[q]
    BY <1>1, <1>5 DEF Apply, Goto, TypeOK
  <2>2. job[p] # NoReading
    BY <1>1, <1>5, JobOfLiveRow DEF Apply, Live
  <2>3. NothingRecreatesWhatWasErased'
    <3>1. job[p].space \notin gone
      BY <2>2 DEF LivingInv, WorksOnLiving
    <3>2. ASSUME NEW f \in facts' PROVE f \in facts \/ f.space = job[p].space
      BY <1>5, <3>2 DEF Apply
    <3> QED
      BY <2>1, <3>1, <3>2 DEF LivingInv, NothingRecreatesWhatWasErased
  <2>4. \A q \in Processes : WorksOnLiving(q)'
    BY <2>1 DEF LivingInv, WorksOnLiving
  <2> QED
    BY <2>3, <2>4 DEF LivingInv
<1>6. CASE ApplyFails(p)
  BY <1>6, ContinuesOnLiving DEF ApplyFails
<1>7. CASE MarkDone(p)
  BY <1>7, ContinuesOnLiving DEF MarkDone
<1> QED
  BY <1>2, <1>3, <1>4, <1>5, <1>6, <1>7 DEF Distill

(* So do those who resolve, ingest and submit.                             *)
LEMMA AgentOnLiving ==
  ASSUME IInv, LivingInv, NEW p \in Processes,
         \/ \E s \in Spaces : Resolve(p, s)
         \/ \E d \in Documents : Ingest(p, d)
         \/ Agent(p) \/ BeginErase(p) \/ Crash(p)
  PROVE  LivingInv'
<1>1. TypeOK
  BY DEF IInv
<1>2. ASSUME NEW s \in Spaces, Resolve(p, s) PROVE LivingInv'
  <2>1. /\ at[p] = "idle" /\ handle'[p] = s /\ s \notin gone
        /\ gone' = gone /\ facts' = facts /\ batch' = batch /\ job' = job /\ at' = at
        /\ \A q \in Processes \ {p} : handle'[q] = handle[q]
    BY <1>1, <1>2 DEF Resolve, TypeOK
  <2>2. WorksOnLiving(p)'
    BY <2>1 DEF LivingInv, WorksOnLiving
  <2> QED
    BY <2>1, <2>2, OthersWorkOn
<1>3. ASSUME NEW d \in Documents, Ingest(p, d) PROVE LivingInv'
  BY <1>3 DEF Ingest, lane, LivingInv, WorksOnLiving, NothingRecreatesWhatWasErased
<1>4. ASSUME NEW s \in Spaces, PendingEpisodes(p, s) PROVE LivingInv'
  BY <1>4 DEF PendingEpisodes, LivingInv, WorksOnLiving, NothingRecreatesWhatWasErased
<1>5. CASE CompleteDistillation(p)
  <2>1. PICK x \in listed : x.space \notin gone /\ job' = [job EXCEPT ![p] = x]
    BY <1>5 DEF CompleteDistillation
  <2>2. /\ at[p] = "idle" /\ job'[p] = x /\ at'[p] = "submitting"
        /\ gone' = gone /\ facts' = facts /\ handle' = handle /\ batch' = batch
        /\ \A q \in Processes \ {p} : job'[q] = job[q] /\ at'[q] = at[q]
    BY <1>1, <1>5, <2>1 DEF CompleteDistillation, Goto, TypeOK
  <2>3. WorksOnLiving(p)'
    BY <2>1, <2>2 DEF LivingInv, WorksOnLiving
  <2> QED
    BY <2>2, <2>3, OthersWorkOn
<1>6. CASE SubmitFails(p)
  <2>1. {} \subseteq batch[p]
    OBVIOUS
  <2> QED
    BY <1>6, <2>1, ContinuesOnLiving DEF SubmitFails
<1>7. CASE BeginErase(p)
  <2>1. /\ at[p] = "idle" /\ at'[p] = "erasing"
        /\ gone' = gone /\ facts' = facts /\ handle' = handle /\ batch' = batch /\ job' = job
        /\ \A q \in Processes \ {p} : at'[q] = at[q]
    BY <1>1, <1>7 DEF BeginErase, Goto, TypeOK
  <2>2. WorksOnLiving(p)'
    BY <2>1 DEF LivingInv, WorksOnLiving
  <2> QED
    BY <2>1, <2>2, OthersWorkOn
<1>8. CASE Crash(p)
  <2>1. {} \subseteq batch[p]
    OBVIOUS
  <2> QED
    BY <1>8, <2>1, ContinuesOnLiving DEF Crash
<1> QED
  BY <1>2, <1>3, <1>4, <1>5, <1>6, <1>7, <1>8 DEF Agent

(* An erasure leaves nobody with the space that is gone.                   *)
LEMMA EraseUnused ==
  ASSUME IInv, LivingInv, ErasedUnused, NEW p \in Processes, EraseSpace(p)
  PROVE  LivingInv'
<1>1. TypeOK
  BY DEF IInv
<1>2. /\ at[p] = "erasing" /\ gone' = gone \cup {handle[p]} /\ batch' = batch /\ job' = job
      /\ handle'[p] = NoSpace /\ at'[p] = "idle" /\ handle[p] \in Spaces
      /\ \A q \in Processes \ {p} : handle'[q] = handle[q] /\ at'[q] = at[q]
  BY <1>1 DEF EraseSpace, Goto, TypeOK, IInv, ErasersHoldASpace
<1>3. WorksOnLiving(p)'
  <2>1. NoSpace \notin gone'
    BY <1>1, <1>2, LaneAssumption DEF TypeOK
  <2> QED
    BY <1>2, <2>1 DEF LivingInv, WorksOnLiving
<1>4. ASSUME NEW q \in Processes \ {p} PROVE WorksOnLiving(q)'
  BY <1>2, <1>4 DEF LivingInv, WorksOnLiving, ErasedUnused
<1>5. NothingRecreatesWhatWasErased'
  <2>1. ASSUME NEW f \in facts' PROVE f.space \notin gone'
    <3>1. PICK g \in facts : g.space # handle[p] /\ \E i : f = [g EXCEPT !.source = i]
      BY <2>1 DEF EraseSpace
    <3>2. g \in [space : Spaces, source : Ids \cup {0}, told : Documents]
      BY <1>1, <3>1 DEF TypeOK
    <3>3. f.space = g.space
      BY <3>1, <3>2
    <3> QED
      BY <1>2, <3>1, <3>3 DEF LivingInv, NothingRecreatesWhatWasErased
  <2> QED
    BY <2>1 DEF NothingRecreatesWhatWasErased
<1> QED
  BY <1>3, <1>4, <1>5 DEF LivingInv

(* Where no space is erased while another process works with it, what      *)
(* auth::resolve says is so: no fact of an erased space is ever stored     *)
(* again, whoever distills, submits late, fails or dies.                   *)
THEOREM ErasedUnusedStaysErased ==
  Spec /\ [][ErasedUnused]_vars => []NothingRecreatesWhatWasErased
<1>1. Init => LivingInv
  BY LaneAssumption DEF Init, LivingInv, WorksOnLiving, NothingRecreatesWhatWasErased
<1>2. IInv /\ LivingInv /\ [Next]_vars /\ [ErasedUnused]_vars => LivingInv'
  <2>1. SUFFICES ASSUME IInv, LivingInv, [Next]_vars, [ErasedUnused]_vars
                 PROVE  LivingInv'
    OBVIOUS
  <2>2. CASE UNCHANGED vars
    BY <2>1, <2>2 DEF vars, LivingInv, WorksOnLiving, NothingRecreatesWhatWasErased
  <2>3. CASE Next /\ ErasedUnused
    <3>1. PICK p \in Processes :
            \/ \E s \in Spaces : Resolve(p, s)
            \/ \E d \in Documents : Ingest(p, d)
            \/ Distill(p) \/ Agent(p) \/ BeginErase(p) \/ EraseSpace(p) \/ Crash(p)
      BY <2>3 DEF Next
    <3> QED
      BY <2>1, <2>3, <3>1, DistillOnLiving, AgentOnLiving, EraseUnused
  <2> QED
    BY <2>1, <2>2, <2>3
<1>3. LivingInv => NothingRecreatesWhatWasErased
  BY DEF LivingInv
<1> QED
  BY <1>1, <1>2, <1>3, LaneInvariant, PTL DEF Spec

=============================================================================
