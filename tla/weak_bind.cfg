SPECIFICATION Spec
CONSTANTS
  MaxWord = 63
  PointerSize = 8
  Segments <- MCSegments
  Infos <- MCInfos
  Links <- MCLinks
  MaxCommands = 5
INVARIANT WeakRefusesOrdinals
CHECK_DEADLOCK FALSE
