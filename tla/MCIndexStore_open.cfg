SPECIFICATION Spec
CONSTANTS
  p1 = p1
  p2 = p2
  s1 = s1
  note = note
  page = page
  Processes = {p1, p2}
  NoProcess = NoProcess
  Spaces = {s1}
  Documents = {note, page}
  Pieces <- MCPieces
  MaxChunkId = 3
INVARIANT MarkAfterDurable
