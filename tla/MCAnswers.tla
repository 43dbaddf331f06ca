----------------------------- MODULE MCAnswers -----------------------------
EXTENDS Recall, Samples

CONSTANTS s1, s2, b1, b2, b3, b4, x1, x2, x3, x4, x5, x6, jib, rust

AllPassages == {x1, x2, x3, x4, x5, x6}

MCPassages == b1 :> <<x1, x2, x3>> @@ b2 :> <<x4>> @@ b3 :> <<x5>> @@ b4 :> <<x6>>

MCStored == <<<<s2, b3>>, <<s1, b1>>, <<s1, b2>>>>

MCHolds == x1 :> {jib} @@ x2 :> {jib} @@ x3 :> {rust, jib} @@ x4 :> {jib} @@ x5 :> {} @@ x6 :> {}

MCBytes == x1 :> 2 @@ x2 :> 3 @@ x3 :> 1 @@ x4 :> 4 @@ x5 :> 1 @@ x6 :> 1

MCLike == [p \in AllPassages \X AllPassages |->
             IF p[1] = p[2] THEN 100 ELSE IF {p[1], p[2]} \subseteq {x1, x2} THEN 95 ELSE 20]

MCCosine ==
  [p \in {"whole", "clause"} \X AllPassages |->
     CASE p[2] = x1 -> 80 [] p[2] = x2 -> 42 [] p[2] = x3 -> 40
       [] p[2] = x4 -> (IF p[1] = "clause" THEN 90 ELSE -5) [] OTHER -> 85]

MCTerms == "whole" :> {x1, x2, x4, x5} @@ "clause" :> {x3, x4}

MCRecency == b1 :> 20 @@ b2 :> 100 @@ b3 :> 100 @@ b4 :> 100

MCRating == x1 :> 1 @@ x2 :> 5 @@ x3 :> 2 @@ x4 :> 4 @@ x5 :> 9 @@ x6 :> 3

Plain == [space |-> s1, lanes |-> Lanes, limit |-> 2, require |-> {}, exclude |-> {},
          within |-> {b1, b2, b3, b4}, rerank |-> FALSE, diversity |-> 0, decompose |-> FALSE,
          cutoff |-> FALSE, expand |-> FALSE, budget |-> NoBudget]

MCRequests ==
  {[Plain EXCEPT !.lanes = l, !.limit = n] : l \in SUBSET Lanes, n \in {1, 3}}
  \cup {[Plain EXCEPT !.require = r, !.exclude = e, !.limit = 2] :
          r \in SUBSET {jib, rust}, e \in SUBSET {rust}}
  \cup {[Plain EXCEPT !.rerank = r, !.diversity = d, !.limit = 3] :
          r \in BOOLEAN, d \in {0, 5}}
  \cup {[Plain EXCEPT !.decompose = TRUE, !.diversity = d, !.limit = 3] : d \in {0, 5}}
  \cup {[Plain EXCEPT !.lanes = {"vector"}, !.cutoff = TRUE, !.limit = n, !.exclude = e] :
          n \in {1, 2, 4}, e \in SUBSET {rust}}
  \cup {[Plain EXCEPT !.lanes = {"vector"}, !.cutoff = TRUE, !.diversity = d, !.within = w] :
          d \in {0, 5}, w \in {{b1, b2, b3, b4}, {b2}}}
  \cup {[Plain EXCEPT !.expand = TRUE, !.limit = 3, !.budget = k, !.within = w] :
          k \in {NoBudget, 5, 7}, w \in {{b1, b2, b3, b4}, {b1}}}
  \cup {[Plain EXCEPT !.limit = 4, !.budget = k] : k \in {1, 8, 12}}

MCAnchors ==
  {[episode |-> e, day |-> <<10, 3, 24>>[e], similarity |-> x] : e \in 1 .. 3, x \in {-5, 60}}
    \cup {[episode |-> 2, day |-> 3, similarity |-> NoMatch]}

MCJournal ==
  {[kind |-> "agent", tool |-> FALSE, session |-> 1, episode |-> 1],
   [kind |-> "agent", tool |-> TRUE, session |-> 1, episode |-> NoEpisode],
   [kind |-> "recall", chunks |-> {11, 31}, claims |-> {1, 2}]}

MCHoldings == 1 :> <<11, 12>> @@ 2 :> <<21>> @@ 3 :> <<31, 32>>

MCRemembered ==
  {[id |-> 1, sources |-> {1}, gone |-> {}], [id |-> 2, sources |-> {1, 3}, gone |-> {}],
   [id |-> 3, sources |-> {2}, gone |-> {9}]}

MCYears == {1899, 1900, 1969, 1970, 1972, 1999, 2000, 2023, 2024, 2099, 2100}

MCTodays ==
  {date \in DaysOf(2024) : date[2] <= 4} \cup {date \in DaysOf(2025) : date[2] \in {3, 12}}

(* One recall, or one sample.                                              *)
AnswersInit ==
  \/ RecallInit /\ sample = NoSample
  \/ SamplesInit /\ RecallInit

Asking == sample.topic = "none" /\ UNCHANGED sample

AnswersNext ==
  \/ \E o \in Requests : Asking /\ Ask(o)
  \/ \E fails \in BOOLEAN : Asking /\ Search(fails)
  \/ \E c \in unread : Asking /\ Verify(c)
  \/ \E r, d \in BOOLEAN : Asking /\ Select(r, d)
  \/ Asking /\ Expand
  \/ Asking /\ Pack
  \/ Asking /\ Fail
  \/ \E s \in Spaces : Asking /\ OtherDeletes(s)
  \/ \E s \in Spaces, b \in Bodies : Asking /\ OtherIngests(s, b)

=============================================================================
