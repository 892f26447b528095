SPECIFICATION Spec
CONSTANTS
  editor = editor
  tool = tool
  other = other
  App <- MCApp
  Tool <- TwoTools
  MaxTime = 3
  MaxChange = 3
  None = None
INVARIANTS
  ValidCacheIsUpToDate
  QuietRebuildIsValid
PROPERTY RebuildEnds
