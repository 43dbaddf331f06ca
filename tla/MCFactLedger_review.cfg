SPECIFICATION Spec
CONSTANTS
  s1 = s1
  s2 = s2
  n1 = n1
  n2 = n2
  lives = lives
  lisbon = lisbon
  porto = porto
  e1 = e1
  e2 = e2
  e3 = e3
  Spaces = {s1}
  Names = {n1, n2}
  Predicates = {lives}
  Objects = {lisbon, porto}
  Episodes = {e1}
  EpisodeSpace <- MCEpisodeSpace
  HappenedAt <- MCHappenedAt
  FactIds = {1, 2}
  Confidences = {1, 2}
  Batches <- MCSingles
  Gates = {2}
  DecayCeiling = 2
  MaxIdle = 1
  StartTime = 2
  MaxTime = 3
  MaxRevision = 2
  RecallLimit = 2
SYMMETRY ObjectSymmetry
INVARIANTS
  ServedOnlyLedger
PROPERTIES
  HistoryIsKept
  PastIsSettled
