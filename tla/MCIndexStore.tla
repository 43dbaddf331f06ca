---------------------------- MODULE MCIndexStore ----------------------------
(***************************************************************************)
(* Small instances of the stores.                                          *)
(***************************************************************************)
EXTENDS IndexStore, TLC

CONSTANTS p1, p2, s1, note, page

(* A note is one chunk; a page is two, so that a feed can stop half way.   *)
MCPieces == [d \in Documents |-> IF d = page THEN 2 ELSE 1]

ProcessSymmetry == Permutations(Processes)
=============================================================================
