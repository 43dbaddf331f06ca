---------------------------- MODULE MCDistillLane ----------------------------
(***************************************************************************)
(* Small instances of the distillation lane.                               *)
(***************************************************************************)
EXTENDS DistillLane, TLC

CONSTANTS p1, p2, s1, s2, d1, d2

(* The second document may be told to have been written before the first. *)
MCCreatedAt == [d \in Documents |-> IF d = d1 THEN 2 ELSE 1]

LaneSymmetry == Permutations(Processes) \cup Permutations(Spaces)
=============================================================================
