SPECIFICATION Spec
CONSTANTS
  Unset = Unset
  NoGroups = NoGroups
  Environments <- MCEnvironments
  IndexFiles <- MCIndexFiles
  IconFiles <- MCIconFiles
  IconSets <- MCIconSets
  MimeType <- MCMimeType
  Apps <- MCApps
  Icon <- MCIcon
  Size <- MCSize
  Context <- MCContext
  ThemeName <- MCThemeName
  MaxChanges = 1
  MaxDepth = 4
  LineRoom = 4
  CutName = "b"
INVARIANTS
  NothingNearerIsMissed
PROPERTIES
  LookupsReturn
