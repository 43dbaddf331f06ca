SPECIFICATION Spec
CONSTANTS
  p1 = p1
  p2 = p2
  s1 = s1
  s2 = s2
  d1 = d1
  d2 = d2
  Processes = {p1, p2}
  Daemons = {}
  Spaces = {s1, s2}
  NoSpace = NoSpace
  Documents = {d1}
  CreatedAt <- MCCreatedAt
  Limit = 2
  MaxEpisodeId = 2
INVARIANT NothingRecreatesWhatWasErased
