SPECIFICATION SchemaSpec
CONSTANTS
  Openers = {p1}
INVARIANTS
  EveryFileHasFactLinks
