SPECIFICATION Spec
CONSTANTS
  first = first
  second = second
  a = a
  b = b
  c = c
  List <- MCList
  Item <- MCItem
  NULL = NULL
INVARIANTS
  LinksAgree
  CursorIsLive
PROPERTIES
  ImplementsSequences
  LoopsEnd
