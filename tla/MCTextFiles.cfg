SPECIFICATION Spec
CONSTANTS
  x = x
  y = y
  z = z
  MimeType <- MCMimeType
  App <- MCApp
  Lang <- MCLang
  Country <- MCCountry
  Modifier <- MCModifier
  Name <- MCName
  Content <- MCContent
  MediaType <- MCMediaType
  NamedType <- MCNamedType
  Lines <- MCLines
  NotAType = NotAType
  CutName <- MCCutName
  DesktopName = x
  Plain = Plain
  Unclosed = Unclosed
  LineRoom = 2
  MaxDesktop = 4
  MaxList = 5
  MaxFolder = 4
  MaxMime = 3
  MaxAlone = 4
INVARIANTS
  LocalizedIsMostSpecific
  AssociationsMatchEntries
  LastMentionDecides
  CacheIsReadAsWritten
  GlobsAreRanked
  SectionsDecide
  StartOfFileIsEnough
  SubclassIsReachability
  CachesAnswerAsText
  CachedMagicIsMerged
  CachedFileTypeIsCloser
CHECK_DEADLOCK FALSE
