SPECIFICATION Spec
CONSTANTS
  p = p
  q = q
  text = text
  image = image
  a = a
  b = b
  Program <- MCProgram
  MimeType <- MCMimeType
  App <- MCApp
  FirstTexts <- MCFirstTexts
  NotAType = NotAType
  CutName = CutName
  None = None
  LineRoom = 2
  MaxChanges = 2
SYMMETRY Symmetry
INVARIANTS
  SavedIsReloaded
  SectionsStayApart
