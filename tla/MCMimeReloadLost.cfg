SPECIFICATION Spec
CONSTANTS
  home = home
  share = share
  a = a
  b = b
  c = c
  Order <- OneDir
  Entry <- ThreeEntries
  MaxVersion = 1
  NULL = NULL
INVARIANT RegisteredAreCalled
