SPECIFICATION FairSpec
CONSTANTS
  ByteValues = 8
  NibbleValues = 4
  MaxWord = 16777215
  Contents <- MCContents
  Rewrites <- MCRewrites
  LoadAddress = 1000
  HeaderAddress = 20000
  Slides <- MCSlides
  Slacks <- MCSlacks
  MaxMappings = 2
  MaxOutput = 6
INVARIANTS TypeOK CommandsAreMapped WalkIsComplete SlideMovesImage
  ValuesAgree AttachmentsAgree
PROPERTIES MappingsBalance OpeningEnds
