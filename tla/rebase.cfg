SPECIFICATION FairSpec
CONSTANTS
  MaxWord = 63
  PointerSize = 4
  Segments <- MCSegments
  Infos <- MCInfos
  MaxCommands = 5
INVARIANTS TypeOK FixupsInSegment FixupStarts FixupsAreDue
PROPERTIES StopsAtFailure Terminates
CHECK_DEADLOCK FALSE
