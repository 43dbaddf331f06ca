---------------------------- MODULE MCFactLedger ----------------------------
(***************************************************************************)
(* Small instances of the fact ledger.                                     *)
(***************************************************************************)
EXTENDS FactLedger, TLC

CONSTANTS s1, s2, n1, n2, lives, lisbon, porto, e1, e2, e3

(* Two episodes of one space, told in either order, and one of another. *)
MCEpisodeSpace == [e \in Episodes |-> IF e = e3 THEN s2 ELSE s1]

MCHappenedAt == [e \in Episodes |-> IF e = e2 THEN 2 ELSE 1]

(* Three episodes of one space: one happened between the other two. *)
MCOneSpace == [e \in Episodes |-> s1]

MCThreeDates == [e \in Episodes |-> IF e = e1 THEN 1 ELSE IF e = e2 THEN 3 ELSE 2]

(* What an extractor may return: nothing, one fact, or two that contradict *)
(* each other and clear every gate.                                        *)
MCSingles == {<<>>} \cup {<<x>> : x \in Extracted}

Sure == {x \in Extracted : \A gate \in Gates : x.confidence >= gate}

MCBatches == MCSingles \cup {<<x, y>> : x, y \in Sure}

(* Objects only differ from one another. *)
ObjectSymmetry == Permutations(Objects)
=============================================================================
