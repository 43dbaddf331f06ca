------------------------------ MODULE Temporal ------------------------------
(***************************************************************************)
(* Questions about dates that are computed (temporal.rs): the plan that is *)
(* read from a question, the episodes its phrases are grounded to, and the *)
(* answer, or none.  A question is a record of what its words show; an     *)
(* anchor is a passage that recall returned, with its episode, day and     *)
(* cosine (NoMatch when the vector lane did not return it), which is never *)
(* too low: there is none to compare.                                      *)
(***************************************************************************)
EXTENDS Calendar, SequencesExt

NoPlan == [kind |-> "none"]
NoAnswer == [kind |-> "declined"]

Cosines == -100 .. 100       \* in hundredths
NoMatch == -1000             \* f32::MIN: ranked below every cosine

MinAnchorSimilarity == 45    \* MIN_ANCHOR_SIMILARITY, in hundredths

(* plan: an order that the question lists, a category to order, a span, an *)
(* interval, a distance from now; the first that fits.                     *)
PlanOf(q) ==
  IF q.orders /\ Len(q.listed) >= 2 THEN [kind |-> "order", events |-> q.listed]
  ELSE IF q.category THEN [kind |-> "category", expected |-> q.stated]
  ELSE IF q.unit = "none" THEN NoPlan
  ELSE IF q.took THEN [kind |-> "span"]
  ELSE IF q.between THEN [kind |-> "interval"]
  ELSE IF q.fromNow THEN [kind |-> "since"]
  ELSE NoPlan

Close(a) == a.similarity = NoMatch \/ a.similarity >= MinAnchorSimilarity

(* Seeded fault: the best-ranked passage, whatever its cosine. *)
GroundFirst(pack) ==
  IF pack # <<>> /\ Close(pack[1]) THEN {pack[1]} ELSE {}

(* ground: the closest passage of three, not the best-ranked; the last of  *)
(* equals.  None when nothing is close enough.                             *)
Ground(pack) ==
  LET best == CHOOSE k \in DOMAIN pack : \A j \in DOMAIN pack :
                \/ pack[k].similarity > pack[j].similarity
                \/ pack[k].similarity = pack[j].similarity /\ k >= j
  IN  IF pack # <<>> /\ Close(pack[best]) THEN {pack[best]} ELSE {}

(* ground_many: the best-ranked passage of each episode, by its place in   *)
(* the pack, until there are enough.                                       *)
FirstOfEpisode(pack) ==
  {k \in DOMAIN pack :
     /\ Close(pack[k])
     /\ \A j \in 1 .. k - 1 : Close(pack[j]) => pack[j].episode # pack[k].episode}

GroundMany(pack, limit) ==
  {k \in FirstOfEpisode(pack) : Cardinality({j \in FirstOfEpisode(pack) : j < k}) < limit}

Distance(unit, days) == [kind |-> "distance", unit |-> unit, value |-> FromDays(unit, days)]

(* The episodes of the anchors found[k], by day, and those of one day by   *)
(* their place (sort_by is stable).                                        *)
Sooner(found, j, k) ==
  \/ found[j].day < found[k].day
  \/ found[j].day = found[k].day /\ j < k

Place(found, k) == Cardinality({j \in DOMAIN found : Sooner(found, j, k)}) + 1

InOrderOf(found) ==
  [kind |-> "order",
   episodes |-> [n \in 1 .. Cardinality(DOMAIN found) |->
                   found[CHOOSE k \in DOMAIN found : Place(found, k) = n].episode]]

AnswerSince(pack, unit, now) ==
  LET found == Ground(pack)
  IN  IF \E a \in found : a.day <= now
      THEN Distance(unit, now - (CHOOSE a \in found : TRUE).day)
      ELSE NoAnswer

AnswerInterval(packs, unit) ==
  LET from == Ground(packs[1])
      to == Ground(packs[2])
  IN  IF \E a \in from, b \in to : a.episode # b.episode
      THEN LET a == CHOOSE a \in from : TRUE
               b == CHOOSE b \in to : TRUE
           IN  Distance(unit, IF a.day <= b.day THEN b.day - a.day ELSE a.day - b.day)
      ELSE NoAnswer

AnswerSpan(pack, unit) ==
  LET found == GroundMany(pack, 8)
      first == CHOOSE k \in found : \A j \in found : pack[k].day <= pack[j].day
      last == CHOOSE k \in found : \A j \in found : pack[j].day <= pack[k].day
  IN  IF Cardinality(found) >= 2 /\ pack[last].day > pack[first].day
      THEN Distance(unit, pack[last].day - pack[first].day)
      ELSE NoAnswer

(* A stated number must be what is found; three are looked for otherwise.  *)
AnswerCategory(pack, expected) ==
  LET want == IF expected = 0 THEN 3 ELSE IF expected > 8 THEN 8 ELSE expected
      found == [k \in GroundMany(pack, want + 2) |-> pack[k]]
      count == Cardinality(DOMAIN found)
  IN  IF (expected > 0 /\ count = expected) \/ (expected = 0 /\ count >= 2)
      THEN InOrderOf(found)
      ELSE NoAnswer

(* Every event has its own episode, or there is no answer.                 *)
AnswerOrder(packs) ==
  LET found == [k \in DOMAIN packs |-> Ground(packs[k])]
      anchors == [k \in DOMAIN packs |-> CHOOSE a \in found[k] : TRUE]
  IN  IF /\ \A k \in DOMAIN packs : found[k] # {}
         /\ \A j, k \in DOMAIN packs : j # k => anchors[j].episode # anchors[k].episode
      THEN InOrderOf(anchors)
      ELSE NoAnswer

(* answer_temporally.  packs[k] is what recall returned for the k-th event *)
(* of the plan, or for its subject; asked holds the day of the question,   *)
(* if it has one.                                                          *)
AnswerTemporally(q, packs, asked) ==
  LET p == PlanOf(q)
  IN  IF p.kind = "since" /\ asked # {}
      THEN AnswerSince(packs[1], q.unit, CHOOSE day \in asked : TRUE)
      ELSE IF p.kind = "interval" THEN AnswerInterval(packs, q.unit)
      ELSE IF p.kind = "span" THEN AnswerSpan(packs[1], q.unit)
      ELSE IF p.kind = "category" THEN AnswerCategory(packs[1], p.expected)
      ELSE IF p.kind = "order" THEN AnswerOrder(packs)
      ELSE NoAnswer

=============================================================================
