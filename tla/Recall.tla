------------------------------- MODULE Recall -------------------------------
(***************************************************************************)
(* One recall (recall.rs) of one process, while another process deletes    *)
(* spaces and ingests.  The lanes are searched in this process's indexes;  *)
(* each candidate is then read from the store by its id, one statement per *)
(* candidate, and each kept item is widened by another statement.  No      *)
(* transaction holds these statements together, and SQLite uses the ids of *)
(* deleted rows again.                                                     *)
(***************************************************************************)
EXTENDS RecallSelect

CONSTANTS
  Spaces,
  Bodies,         \* what an episode may say
  Passages,       \* Passages[b]: the chunks of body b, in their order
  Stored,         \* the episodes, <<space, body>>, stored before the recall
  MaxChunkId,     \* bound: the largest chunk id
  MaxOther,       \* bound: what the other process does during the recall
  Window,         \* CANDIDATES_PER_GENERATOR
  Requests,       \* what is asked (RecallOpts)
  Cosine,         \* Cosine[<<q, x>>] of query (or clause) q and passage x
  Terms,          \* Terms[q]: the passages that share a word with q
  Recency,        \* Recency[b], 0 to 100: the age of body b's episode
  Dated,          \* the bodies in a date window that the query names
  Rating,         \* Rating[x]: the reranker's score of passage x
  FactBytes,      \* the length of the facts that are returned
  NoRequest, NoBudget

Texts == UNION {ToSet(Passages[b]) : b \in Bodies}

ASSUME RecallAssumption ==
  /\ DOMAIN Passages = Bodies /\ \A b \in Bodies : Passages[b] \in Seq(Texts)
  /\ Stored \in Seq(Spaces \X Bodies)
  /\ Window \in Nat
  /\ Recency \in [Bodies -> Nat] /\ Rating \in [Texts -> Int]
  /\ Cosine \in [{"whole", "clause"} \X Texts -> Int]
  /\ Like \in [Texts \X Texts -> Int] /\ NoCosine \notin Int
  /\ Bytes \in [Texts -> Nat \ {0}] /\ FactBytes \in Nat
  /\ \A o \in Requests :
       o.limit \in Nat /\ o.diversity \in 0 .. 10 /\ o.budget \in Nat \cup {NoBudget}

VARIABLES
  rows,        \* chunks joined with episodes: id |-> row
  known,       \* this process's indexes: id |-> [space, text]
  request,     \* the recall's arguments, or NoRequest
  stage,       \* how far it has come
  cosine,      \* id |-> its best cosine, or NoCosine
  fused,       \* id |-> its fused score: the candidates
  unread,      \* the candidates that are not verified yet
  items,       \* the verified candidates
  picked,      \* the items that have a place, best first
  place,       \* the next of them to widen
  answer,      \* the items so far returned
  held,        \* history: the <<space, body>> pairs that were ever stored
  reused,      \* history: a verified candidate's id went to a new chunk
  others       \* how much the other process has done

stored == <<rows, known, held, reused, others>>
search == <<cosine, fused, unread>>
recallVars == <<stored, search, request, stage, items, picked, place, answer>>

-----------------------------------------------------------------------------
(* The store.                                                              *)

PassageOf(row) == Passages[row.body][row.pos]

(* A space stores a body once; chunk and episode ids follow the largest.   *)
CanStore(r, s, b) ==
  /\ ~ \E c \in DOMAIN r : r[c].space = s /\ r[c].body = b
  /\ Max({0} \cup DOMAIN r) + Len(Passages[b]) <= MaxChunkId

WithEpisode(r, s, b) ==
  LET last == Max({0} \cup DOMAIN r)
      e == 1 + Max({0} \cup {r[c].episode : c \in DOMAIN r})
  IN  [c \in DOMAIN r \cup (last + 1 .. last + Len(Passages[b])) |->
         IF c \in DOMAIN r THEN r[c]
         ELSE [space |-> s, episode |-> e, body |-> b, pos |-> c - last]]

(* The rows after each of the episodes of Stored. *)
RowsAfter[n \in 0 .. Len(Stored)] ==
  IF n = 0 THEN <<>> ELSE WithEpisode(RowsAfter[n - 1], Stored[n][1], Stored[n][2])

RecallInit ==
  /\ rows = RowsAfter[Len(Stored)]
  /\ known = [c \in DOMAIN rows |-> [space |-> rows[c].space, text |-> PassageOf(rows[c])]]
  /\ request = NoRequest /\ stage = "idle"
  /\ cosine = <<>> /\ fused = <<>>
  /\ unread = {} /\ items = {}
  /\ picked = <<>> /\ place = 1 /\ answer = <<>>
  /\ held = ToSet(Stored) /\ reused = FALSE /\ others = 0

-----------------------------------------------------------------------------
(* The request.                                                            *)

Lanes == {"vector", "text"}

(* asked_lanes, phrases::check, and the settings cutoff and diversity were *)
(* measured in.                                                            *)
Accepted(o) ==
  /\ o.lanes # {} /\ o.lanes \subseteq Lanes
  /\ o.require \cap o.exclude = {}
  /\ o.cutoff => o.lanes = {"vector"} /\ ~ o.rerank /\ ~ o.decompose
  /\ o.diversity > 0 => ~ o.rerank

Ask(o) ==
  /\ stage = "idle"
  /\ request' = o
  /\ stage' = IF Accepted(o) THEN "search" ELSE "refused"
  /\ UNCHANGED <<stored, search, items, picked, place, answer>>

-----------------------------------------------------------------------------
(* The lanes.                                                              *)

(* The question, and its clause at half the weight.                        *)
Queries == IF request.decompose THEN <<"whole", "clause">> ELSE <<"whole">>

SubQueryWeight == 1     \* W_SUBQUERY, against 2 for the question

RrfK == 60

(* The nearest passages of the whole index, whichever space they are of.   *)
VectorHits(q) ==
  IF "vector" \notin request.lanes THEN <<>>
  ELSE LET ids == DOMAIN known
           nearness == [c \in ids |-> Cosine[<<q, known[c].text>>]]
           hits == InOrderBy(ids, {p \in ids \X ids :
                               \/ nearness[p[1]] > nearness[p[2]]
                               \/ nearness[p[1]] = nearness[p[2]] /\ p[1] < p[2]})
       IN  SubSeq(hits, 1, Min({Window, Len(hits)}))

(* The passages of this space that share a word; none if the search fails. *)
TextHits(q, fails) ==
  IF "text" \notin request.lanes \/ fails THEN <<>>
  ELSE LET matches == {c \in DOMAIN known : /\ known[c].space = request.space
                                            /\ known[c].text \in Terms[q]}
           hits == Increasing(matches)
       IN  SubSeq(hits, 1, Min({Window, Len(hits)}))

(* Reciprocal-rank fusion over the lanes and the queries.                  *)
Share(hits, weight, c) ==
  IF c \notin ToSet(hits) THEN 0
  ELSE (10000 * weight) \div (RrfK + CHOOSE k \in DOMAIN hits : hits[k] = c)

Search(textFails) ==
  /\ stage = "search"
  /\ textFails => "text" \in request.lanes
  /\ LET qs == DOMAIN Queries
         vector == [i \in qs |-> VectorHits(Queries[i])]
         text == [i \in qs |-> TextHits(Queries[i], textFails)]
         Found(i, weight, c) == Share(vector[i], weight, c) + Share(text[i], weight, c)
         found == UNION {ToSet(vector[i]) \cup ToSet(text[i]) : i \in qs}
         Cosines(c) == {Cosine[<<Queries[i], known[c].text>>] :
                          i \in {j \in qs : c \in ToSet(vector[j])}}
     IN  IF request.lanes = {"text"} /\ textFails
         THEN stage' = "refused" /\ UNCHANGED <<cosine, fused, unread>>
         ELSE /\ stage' = "verify"
              /\ fused' = [c \in found |->
                   Found(1, 2, c) + (IF 2 \in qs THEN Found(2, SubQueryWeight, c) ELSE 0)]
              /\ cosine' = [c \in found |->
                   IF Cosines(c) = {} THEN NoCosine ELSE Max(Cosines(c))]
              /\ unread' = found
  /\ UNCHANGED <<stored, request, items, picked, place, answer>>

-----------------------------------------------------------------------------
(* Seeded fault: the candidates of the text lane are in the space, and     *)
(* those of the vector lane are taken to be.                               *)
AnswersByFilter(row) == row.body \in request.within

(* Truth: a candidate materializes from the store, in the space and within *)
(* the filters that are asked for, or not at all.                          *)
Answers(row) == row.space = request.space /\ row.body \in request.within

Best == Max({1} \cup {fused[c] : c \in DOMAIN fused})

(* Eight tenths of the fused score, two of recency, and four for a date.   *)
Score(c, row) ==
  (80 * fused[c]) \div Best + (20 * Recency[row.body]) \div 100
  + (IF row.body \in Dated THEN 40 ELSE 0)

Item(c, row) ==
  [chunk |-> c, episode |-> row.episode, text |-> {PassageOf(row)},
   score |-> Score(c, row), similarity |-> cosine[c]]

Verify(c) ==
  /\ stage = "verify" /\ c \in unread
  /\ unread' = unread \ {c}
  /\ items' = items \cup {Item(d, rows[d]) : d \in {d \in {c} \cap DOMAIN rows : Answers(rows[d])}}
  /\ UNCHANGED <<stored, request, stage, cosine, fused, picked, place, answer>>

-----------------------------------------------------------------------------
(* The places.                                                             *)

Survivors == {i \in items : Wanted(i, request.require, request.exclude)}

RatingOf(item) == Max({Rating[x] : x \in item.text})

(* A reranker or a diversity that fails leaves the order as it was.        *)
InOrder(rerankFails, diversityFails) ==
  LET scored == IF request.rerank /\ Survivors # {} /\ ~ rerankFails
                THEN Reranked(Survivors, [i \in Survivors |-> RatingOf(i)])
                ELSE Survivors
      ranked == Ordered(scored)
  IN  IF request.diversity > 0 /\ ~ diversityFails
      THEN MostDiverse(ranked, request.diversity, 2 * request.limit)
      ELSE ranked

(* The vector lane's own cosines, best first, before phrases or the limit. *)
LaneCosines ==
  LET heard == {i \in items : i.similarity # NoCosine}
      best == InOrderBy(heard, {p \in heard \X heard :
                          \/ p[1].similarity > p[2].similarity
                          \/ p[1].similarity = p[2].similarity /\ p[1].chunk < p[2].chunk})
  IN  [k \in DOMAIN best |-> best[k].similarity]

AboveTheCut(seq) ==
  LET floor == Threshold(LaneCosines, request.limit)
      Keeps(x) == floor = NoCosine \/ (x # NoCosine /\ x >= floor)
      above == {k \in DOMAIN seq : Keeps(seq[k].similarity)}
  IN  IF request.cutoff THEN Along(seq, Increasing(above)) ELSE seq

(* Seeded fault: the phrases are checked on the passages that have places. *)
PlacedThenChecked(seq) ==
  SelectSeq(Picked(Ordered(items), request.limit),
            LAMBDA i : Wanted(i, request.require, request.exclude))

Placed(seq) == Picked(seq, request.limit)

Select(rerankFails, diversityFails) ==
  /\ stage = "verify" /\ unread = {}
  /\ rerankFails => request.rerank
  /\ diversityFails => request.diversity > 0
  /\ picked' = AboveTheCut(Placed(InOrder(rerankFails, diversityFails)))
  /\ stage' = "expand"
  /\ UNCHANGED <<stored, search, request, items, place, answer>>

-----------------------------------------------------------------------------
(* Neighbours and the budget.                                              *)

(* The chunk and those next to it in its episode, as the store has them at *)
(* this moment; the item's own text if the chunk is no longer there.       *)
Widened(item) ==
  IF item.chunk \notin DOMAIN rows THEN item.text
  ELSE LET row == rows[item.chunk]
       IN  {PassageOf(rows[c]) : c \in
              {d \in DOMAIN rows : /\ rows[d].episode = row.episode
                                   /\ rows[d].pos \in row.pos - 1 .. row.pos + 1}}

Expand ==
  /\ stage = "expand" /\ place <= Len(picked)
  /\ LET item == picked[place]
         wider == IF request.expand THEN [item EXCEPT !.text = Widened(item)] ELSE item
         redundant == /\ request.expand
                      /\ \E k \in DOMAIN answer : /\ answer[k].episode = item.episode
                                                  /\ wider.text \subseteq answer[k].text
     IN  answer' = IF redundant THEN answer ELSE Append(answer, wider)
  /\ place' = place + 1
  /\ UNCHANGED <<stored, search, request, stage, items, picked>>

(* The items alone are held to the budget, then what the facts leave of it.*)
Packed(seq) ==
  IF request.budget = NoBudget THEN seq
  ELSE Budgeted(Budgeted(seq, request.budget),
                Max({0, request.budget - FactBytes}))

Pack ==
  /\ stage = "expand" /\ place > Len(picked)
  /\ answer' = Packed(answer)
  /\ stage' = "answered"
  /\ UNCHANGED <<stored, search, request, items, picked, place>>

(* A statement or a model fails, and the recall with it.                   *)
Fail ==
  /\ stage \in {"search", "verify", "expand"}
  /\ stage' = "refused"
  /\ UNCHANGED <<stored, search, request, items, picked, place, answer>>

-----------------------------------------------------------------------------
(* The other process.  The search reads no rows, so what is done before it *)
(* might as well be done after it.                                         *)

OtherActs ==
  /\ stage \in {"verify", "expand"}
  /\ others < MaxOther
  /\ others' = others + 1

OtherDeletes(s) ==
  /\ OtherActs
  /\ \E c \in DOMAIN rows : rows[c].space = s
  /\ rows' = [c \in {d \in DOMAIN rows : rows[d].space # s} |-> rows[c]]
  /\ UNCHANGED <<known, held, reused, search, request, stage, items, picked, place, answer>>

OtherIngests(s, b) ==
  /\ OtherActs
  /\ CanStore(rows, s, b)
  /\ rows' = WithEpisode(rows, s, b)
  /\ reused' = (reused \/ (DOMAIN rows' \ DOMAIN rows) \cap {i.chunk : i \in items} # {})
  /\ held' = held \cup {<<s, b>>}
  /\ UNCHANGED <<known, search, request, stage, items, picked, place, answer>>

RecallNext ==
  \/ \E o \in Requests : Ask(o)
  \/ \E fails \in BOOLEAN : Search(fails)
  \/ \E c \in unread : Verify(c)
  \/ \E r, d \in BOOLEAN : Select(r, d)
  \/ Expand
  \/ Pack
  \/ Fail
  \/ \E s \in Spaces : OtherDeletes(s)
  \/ \E s \in Spaces, b \in Bodies : OtherIngests(s, b)

RecallSpec == RecallInit /\ [][RecallNext]_recallVars

-----------------------------------------------------------------------------
(* What an answer owes.                                                    *)

Answered == stage = "answered"

(* Every passage of an answer was at some time stored in the space that    *)
(* was asked, although the vector lane ranks the passages of all spaces    *)
(* (recall.rs:407) and ids are used again while the recall runs.  The one  *)
(* exception: a candidate that is verified already is deleted and its id   *)
(* goes to a new chunk, which the statement that widens an item then reads *)
(* without asking for its space (recall.rs:690).                           *)
AnswerIsOfTheSpace ==
  Answered /\ ~ reused =>
    \A k \in DOMAIN answer : \A x \in answer[k].text :
      \E b \in Bodies : x \in ToSet(Passages[b]) /\ <<request.space, b>> \in held

Unbounded == ~ request.cutoff /\ ~ request.expand /\ request.budget = NoBudget

(* A passage that fails a phrase gives its place to one that holds         *)
(* (RecallOpts.require): no passage of the answer fails, and the answer is *)
(* short of the limit only when no other verified passage would do.        *)
PhrasesDecideBeforePlaces ==
  Answered /\ Unbounded =>
    /\ \A k \in DOMAIN answer : Wanted(answer[k], request.require, request.exclude)
    /\ request.limit > 0 =>
         Len(answer) = Min({request.limit, Cardinality(Survivors)})

(* One strong episode does not hog the answer: it has more than two places *)
(* only when no passage without a place is of an episode that has fewer    *)
(* than two (MAX_CHUNKS_PER_EPISODE and the overflow).                     *)
EpisodesShareTheAnswer ==
  Answered /\ ~ request.cutoff =>
    \A i, j \in Survivors :
      /\ OfEpisode(picked, i.episode) > MaxPerEpisode
      /\ \A k \in DOMAIN picked : picked[k].chunk # j.chunk
      => OfEpisode(picked, j.episode) >= MaxPerEpisode

(* The pinned budget rule: the best passage always survives, and any other *)
(* only while passages and facts together fit the budget.                  *)
BudgetKeepsTheTop ==
  Answered /\ request.budget # NoBudget /\ picked # <<>> =>
    /\ answer # <<>> /\ answer[1].chunk = picked[1].chunk
    /\ Len(answer) > 1 =>
         LengthOf(answer, Len(answer)) + FactBytes <= request.budget

(* A cut falls where the cosines fall: between a passage that it keeps and *)
(* one that had a place and is dropped lie at least MIN_GAP of the spread  *)
(* of the best limit + 1 cosines.                                          *)
CutFallsInADrop ==
  Answered /\ request.cutoff =>
    LET spread == LaneCosines[1] - LaneCosines[Min({Len(LaneCosines), request.limit + 1})]
    IN  \E diversityFails \in BOOLEAN :
          LET placed == ToSet(Placed(InOrder(FALSE, diversityFails)))
          IN  /\ ToSet(picked) \subseteq placed
              /\ \A i \in ToSet(picked), j \in placed \ ToSet(picked) :
                   100 * (i.similarity - j.similarity) >= MinGap * spread

=============================================================================
