SPECIFICATION Spec
CONSTANTS
  Segments <- AllSegments
  Ends <- MCEnds
  Kept <- MCKept
  BadNetlocs <- MCBadNetlocs
  Providers <- MCProviders
  Texts <- MCTexts
  Paths <- MCPaths
  NoRef = NoRef
CHECK_DEADLOCK FALSE
INVARIANTS
  TypeOK
  UriRefsSurvive
  PlainObjectsSurvive
