SPECIFICATION FairSpec
CONSTANTS
  p1 = p1
  p2 = p2
  s1 = s1
  s2 = s2
  d1 = d1
  d2 = d2
  Processes = {p1, p2}
  Daemons = {p1}
  Spaces = {s1}
  NoSpace = NoSpace
  Documents = {d1, d2}
  CreatedAt <- MCCreatedAt
  Limit = 1
  MaxEpisodeId = 2
PROPERTY EverythingSettles
