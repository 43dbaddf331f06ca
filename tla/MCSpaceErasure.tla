--------------------------- MODULE MCSpaceErasure ---------------------------
(***************************************************************************)
(* Small instances of the stores in which spaces are deleted: one process  *)
(* at a time and several spaces, or two at once and one space of a chunk.  *)
(***************************************************************************)
EXTENDS SpaceErasure, TLC

CONSTANTS p1, p2, s1, s2, note, page

VARIABLE focus

MCPieces == [d \in Documents |-> 1]

InUse == {p \in Processes : at[p] # "off"}

SpacesMet == gone \cup {c.space : c \in chunks} \cup UNION {handles[p] : p \in Processes}

WithinFocus ==
  /\ focus = "alone" => Cardinality(InUse) <= 1
  /\ focus = "pair" => Cardinality(SpacesMet) <= 1 /\ Ids(chunks) \subseteq {1}

FocusedInit == ErasureInit /\ focus \in {"alone", "pair"}

FocusedNext == ErasureNext /\ UNCHANGED focus /\ WithinFocus'

FocusedSpec == FocusedInit /\ [][FocusedNext]_<<allVars, focus>>

Symmetry == Permutations(Spaces) \cup Permutations(Processes)
=============================================================================
