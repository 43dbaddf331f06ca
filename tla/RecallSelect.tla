---------------------------- MODULE RecallSelect ----------------------------
(***************************************************************************)
(* What recall (recall.rs) does with the passages it has verified: which   *)
(* of them it keeps, in which order, and how many.  Nothing here has state.*)
(*                                                                         *)
(* A passage is an item, a record with the fields below.  Scores and       *)
(* cosines are integers (hundredths), and a comparison of two quotients is *)
(* written as one of products.                                             *)
(*                                                                         *)
(*   chunk, episode   the ids of its row      score      after fusion      *)
(*   similarity       cosine or NoCosine      text       a set of passages *)
(***************************************************************************)
EXTENDS Integers, SequencesExt

CONSTANTS
  Phrases,      \* the phrases a request may ask for
  Holds,        \* Holds[x]: the phrases that passage x holds
  Bytes,        \* Bytes[x]: the length of passage x
  Like,         \* Like[<<x, y>>]: how alike two passages are, 0 to 100
  NoCosine      \* RecallItem.similarity is None

(* A finite set in the order of a strict total order.                      *)
InOrderBy(S, Before) ==
  [k \in 1 .. Cardinality(S) |->
     CHOOSE a \in S : Cardinality({b \in S : <<b, a>> \in Before}) = k - 1]

Increasing(K) == InOrderBy(K, {p \in K \X K : p[1] < p[2]})

(* The items at these places, in this turn. *)
Along(items, turn) == [k \in DOMAIN turn |-> items[turn[k]]]

AtMost(a, b) == IF a <= b THEN a ELSE b

(* The bytes of a text, each told by its passage and its place there.      *)
BytesOf(text) == UNION {{x} \X (1 .. Bytes[x]) : x \in text}

TextBytes(text) == Cardinality(BytesOf(text))

HoldsPhrase(text, p) == \E x \in text : p \in Holds[x]

(* phrases::Phrases::check: every required phrase and no excluded one.     *)
Wanted(item, require, exclude) ==
  /\ \A p \in require : HoldsPhrase(item.text, p)
  /\ ~ \E p \in exclude : HoldsPhrase(item.text, p)

(* order_items: best first, and of equal scores the smaller id.            *)
Ordered(items) ==
  InOrderBy(items, {p \in items \X items :
                      \/ p[1].score > p[2].score
                      \/ p[1].score = p[2].score /\ p[1].chunk < p[2].chunk})

(* The reranker's scores, spread over 0 to 100, weigh seven tenths.        *)
Reranked(items, rating) ==
  LET ratings == {rating[i] : i \in items}
      low == Min(ratings)
      span == IF Max(ratings) = low THEN 1 ELSE Max(ratings) - low
  IN  {[i EXCEPT !.score = 70 * (((rating[i] - low) * 100) \div span) + 30 * @] :
         i \in items}

(* How alike this item is to those that have a place.                      *)
Likeness(items, i, placed) ==
  LET others == UNION {items[j].text : j \in placed}
  IN  Max({0} \cup {Like[p] : p \in items[i].text \X others})

(* Its share of the best score, less its likeness.                         *)
Gain(items, weight, i, placed) ==
  LET top == Max({1} \cup {items[j].score : j \in DOMAIN items})
  IN  (10 - weight) * ((100 * items[i].score) \div top) - weight * Likeness(items, i, placed)

(* The next place goes to the best gain, and to the earliest of equals.    *)
Foremost(items, weight, placed) ==
  LET left == DOMAIN items \ placed
      gain == [i \in left |-> Gain(items, weight, i, placed)]
  IN  CHOOSE i \in left : \A j \in left : gain[i] > gain[j] \/ (gain[i] = gain[j] /\ i <= j)

Diverse(items, weight, places) ==
  LET first[k \in 1 .. places] == Foremost(items, weight, {first[j] : j \in 1 .. k - 1})
  IN  first

(* mmr_order: the first places go to what is best and unlike the places    *)
(* before; the rest keep their order.                                      *)
MostDiverse(items, weight, places) ==
  LET first == Diverse(items, weight, AtMost(places, Len(items)))
      rest == Increasing(DOMAIN items \ {first[k] : k \in DOMAIN first})
  IN  Along(items, first \o rest)

MaxPerEpisode == 2     \* MAX_CHUNKS_PER_EPISODE

(* Seeded fault: no episode is held back. *)
PickedByScore(items, limit) ==
  IF limit = 0 THEN items ELSE SubSeq(items, 1, AtMost(limit, Len(items)))

OfEpisode(picked, e) == Cardinality({k \in DOMAIN picked : picked[k].episode = e})

(* The first MaxPerEpisode of each episode, then what is left over, best   *)
(* first, up to the limit.  (Of a limit of 0 the code never falls short.)  *)
Picked(items, limit) ==
  LET n == Len(items)
      Sooner(k) == {j \in 1 .. k - 1 : items[j].episode = items[k].episode}
      early == {k \in 1 .. n : Cardinality(Sooner(k)) < MaxPerEpisode}
      turn == Increasing(early) \o Increasing((1 .. n) \ early)
  IN  Along(items, SubSeq(turn, 1, IF limit = 0 THEN n ELSE AtMost(limit, n)))

(* cutoff::gap_cutoff, for scores that are sorted, best first.             *)
MinGap == 15       \* MIN_GAP, in hundredths
LateCharge == 5    \* LATE_CHARGE, in hundredths

(* Seeded fault: the passage after the drop is kept as well. *)
GapCutoffLate(scores, low, high) ==
  LET n == Len(scores)
      Drop(p) == scores[p] - scores[p + 1]
      cuts == low .. AtMost(high, n - 1)
      best == CHOOSE p \in cuts : \A q \in cuts : Drop(p) >= Drop(q)
  IN  IF n <= low \/ scores[1] = scores[n] THEN [rule |-> "short", keep |-> n]
      ELSE [rule |-> "gap", keep |-> best + 1]

GapCutoff(scores, low, high) ==
  LET n == Len(scores)
      spread == scores[1] - scores[AtMost(n, high + 1)]
      Drop(p) == scores[p] - scores[p + 1]
      Value(p) == 100 * high * Drop(p) - LateCharge * p * spread
      cuts == low .. AtMost(high, n - 1)
      best == CHOOSE p \in cuts : \A q \in cuts :
                \/ Value(p) > Value(q)
                \/ Value(p) = Value(q) /\ p <= q
  IN  CASE n <= low -> [rule |-> "short", keep |-> n]
        [] n > low /\ (spread <= 0 \/ 100 * Drop(best) < MinGap * spread) ->
             [rule |-> "no-boundary", keep |-> AtMost(high, n)]
        [] OTHER -> [rule |-> "gap", keep |-> best]

(* cutoff::read: the cosine below which passages are dropped; NoCosine     *)
(* when the scores show no boundary, and none is.                          *)
Threshold(cosines, limit) ==
  LET high == Max({1, AtMost(limit, Len(cosines))})
      cut == GapCutoff(cosines, 1, high)
  IN  IF cosines # <<>> /\ cut.rule = "gap" THEN cosines[cut.keep] ELSE NoCosine

(* Seeded fault: an item too large is skipped, and the next one tried. *)
BudgetedBySkipping(items, budget) ==
  LET Keep(acc, item) ==
        IF acc.used + TextBytes(item.text) > budget THEN acc
        ELSE [acc EXCEPT !.kept = Append(@, item), !.used = @ + TextBytes(item.text)]
  IN  FoldLeft(Keep, [kept |-> <<>>, used |-> 0], items).kept

(* The length of the first k items.                                        *)
LengthOf(items, k) == Cardinality(UNION {{j} \X BytesOf(items[j].text) : j \in 1 .. k})

(* The budget rule: the first item always, then as long as the bytes last. *)
Budgeted(items, budget) ==
  LET fitting == {k \in 0 .. Len(items) : \A j \in 2 .. k : LengthOf(items, j) <= budget}
  IN  SubSeq(items, 1, Max(fitting))

=============================================================================
