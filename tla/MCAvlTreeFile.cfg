SPECIFICATION Spec
CONSTANTS
  a = a
  b = b
  Key <- MCKey
  AppsOf <- MCAppsOf
  Known <- MCKnown
  NULL = NULL
  Stale = Stale
INVARIANTS
  WalkIsPostorder
  FreesEachOnce
  MappedIsWritten
PROPERTY LoopsEnd
CHECK_DEADLOCK FALSE
