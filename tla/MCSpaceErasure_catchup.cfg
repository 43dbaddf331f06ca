SPECIFICATION FocusedSpec
CONSTANTS
  p1 = p1
  p2 = p2
  s1 = s1
  s2 = s2
  note = note
  page = page
  Processes = {p1}
  NoProcess = NoProcess
  Spaces = {s1, s2}
  Documents = {note}
  Pieces <- MCPieces
  MaxChunkId = 2
INVARIANT MarkAfterDurable
