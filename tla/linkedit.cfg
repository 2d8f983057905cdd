SPECIFICATION LinkEditSpec
CONSTANTS
  ByteValues = 8
  NibbleValues = 4
  MaxWord = 16777215
  PageSize = 16
  Contents <- MCContents
  Rewrites = {}
  LoadAddress = 2000
  HeaderAddress = 2000
  Slides <- MCSlides
  Slacks = {0}
  MaxMappings = 1
  MaxOutput = 5
CHECK_DEADLOCK FALSE
INVARIANTS PartsInSegment TablesAreComplete ItemsAgree
