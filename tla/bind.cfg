SPECIFICATION FairSpec
CONSTANTS
  MaxWord = 63
  PointerSize = 8
  Segments <- MCSegments
  Infos <- MCInfos
  Links <- MCLinks
  MaxCommands = 5
INVARIANTS TypeOK ActionsInSegment ActionStarts SettingsStick ActionsAreDue
PROPERTIES StopsAtFailure Terminates
CHECK_DEADLOCK FALSE
