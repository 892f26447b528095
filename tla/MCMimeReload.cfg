SPECIFICATION Spec
CONSTANTS
  home = home
  share = share
  a = a
  b = b
  c = c
  Order <- TwoDirs
  Entry <- ThreeEntries
  MaxVersion = 2
  NULL = NULL
INVARIANTS
  ListIsLive
  QuietLoadIsUpToDate
PROPERTY CallsReturn
