SPECIFICATION PeripherySpec
CONSTANTS
  Linkers = {p1, p2}
  LinkedFacts = {1, 2, 3}
  StrayFacts = {9}
  LinkCalls <- MCLinkCalls
  LongestChain = 3
  MaxLinks = 3
  LogSpaces = {"a", "b"}
  Reports <- MCReports
  Filing <- MCFiling
  NoSource = NoSource
  NoEpisodeId = NoEpisodeId
  LogPage = 1
  MaxEvents = 3
  MaxEpisodeId = 5
  Openers = {p1, p2}
  Syncers = {"s1", "s2"}
  ServiceOf <- MCServiceOf
  Scenes <- MCScenes
  ListLimit = 2
  MaxTicks = 2
  Unreadable = Unreadable
  Episodes = {1, 2}
  AliasCalls <- MCAliasCalls
  Claims <- MCClaims
  MaxWrites = 4
  Keys <- MCKeys
  ClaimIds = {1}
  Opening <- MCOpening
  Filters = {"active", "everything"}
  MaxChanges = 2
  MaxPages = 3
  Lines <- MCLines
  MaxLines = 3
  Targets = {0, 4, 8, 16}
  s1 = s1
  s2 = s2
  b1 = b1
  b2 = b2
  b3 = b3
  b4 = b4
  x1 = x1
  x2 = x2
  x3 = x3
  x4 = x4
  x5 = x5
  x6 = x6
  jib = jib
  rust = rust
  Phrases = {jib, rust}
  Spaces = {s1, s2}
  Bodies = {b1, b2, b3, b4}
  NoCosine = NoCosine
  NoRequest = NoRequest
  NoBudget = NoBudget
  MaxChunkId = 6
  MaxOther = 2
  Window = 4
  FactBytes = 1
  Dated = {b2}
  Passages <- MCPassages
  Stored <- MCStored
  Holds <- MCHolds
  Bytes <- MCBytes
  Like <- MCLike
  Cosine <- MCCosine
  Terms <- MCTerms
  Recency <- MCRecency
  Rating <- MCRating
  Requests <- MCRequests
  Years <- MCYears
  Todays <- MCTodays
  Anchors <- MCAnchors
  MaxAnchors = 3
  Journal <- MCJournal
  Holdings <- MCHoldings
  Remembered <- MCRemembered
  Limits = {1, 3, 4, 6, 20}
INVARIANTS
  AnswerIsOfTheSpace
  PhrasesDecideBeforePlaces
  EpisodesShareTheAnswer
  BudgetKeepsTheTop
  CutFallsInADrop
  CalendarIsExact
  WindowsHoldTheirDay
  AnswersFollowTheirAnchors
  GraphIsClosedAndFair
  LinksStayAcyclic
  JournalIsReadAsWritten
  MigrationsKeepEveryColumn
  
  ReimportChangesNothing
  RereadShowsItsRevision
  ChunksTileTheText
CHECK_DEADLOCK FALSE
