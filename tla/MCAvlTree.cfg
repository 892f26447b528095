SPECIFICATION Spec
CONSTANTS
  KeyCount = 6
  NULL = NULL
  Key <- MCKey
INVARIANTS
  TypeOK
  LinksAgree
  NoNullDereference
  SearchTree
  LoopsOnTrack
PROPERTIES
  ImplementsDict
  CallsReturn
