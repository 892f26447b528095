SPECIFICATION Spec
CONSTANTS
  user = user
  system = system
  editor = editor
  viewer = viewer
  Order <- MCOrder
  App <- MCApp
  Listed <- MCListed
  MaxStamp = 3
  None = None
  Empty = Empty
  NULL = NULL
  Dangling = Dangling
INVARIANT FilesHaveGroups
