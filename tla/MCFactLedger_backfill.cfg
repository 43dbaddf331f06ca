SPECIFICATION Spec
CONSTANTS
  s1 = s1
  s2 = s2
  n1 = n1
  n2 = n2
  lives = lives
  lisbon = lisbon
  porto = porto
  e1 = e1
  e2 = e2
  e3 = e3
  Spaces = {s1}
  Names = {n1}
  Predicates = {lives}
  Objects = {lisbon, porto}
  Episodes = {e1, e2, e3}
  EpisodeSpace <- MCOneSpace
  HappenedAt <- MCThreeDates
  FactIds = {1, 2, 3}
  Confidences = {2}
  Batches <- MCSingles
  Gates = {2}
  DecayCeiling = 2
  MaxIdle = 1
  StartTime = 3
  MaxTime = 3
  MaxRevision = 0
  RecallLimit = 0
PROPERTY BackfillNeverOverwrites
