SPECIFICATION FairSpec
CHECK_DEADLOCK FALSE
CONSTANTS
  MaxWord = 63
  Threads = {t1, t2}
  NoThread = NoThread
  FromMemory = {t1}
  MKLoadCommand = MKLoadCommand
  MKNode = MKNode
  MKLCSegment = MKLCSegment
  MKLCSegment64 = MKLCSegment64
  MKLCDyldInfo = MKLCDyldInfo
  MKLCDyldInfoOnly = MKLCDyldInfoOnly
  PluginDyldInfo = PluginDyldInfo
  PluginUnknown = PluginUnknown
  PluginNamesake = PluginNamesake
  Targets <- MCTargets
  Rewrites <- MCRewrites
  MaxChanges = 1
  ContextAddress = 20
  Linked <- MCLinked
  Loadable <- MCLoadable
  MaxLoads = 1
  Superclasses <- MCSuperclasses
  Rank <- MCRank
  ID <- MCID
  Name <- MCName
  RuntimeName <- MCRuntimeName
  Fields <- MCFields
  MH_MAGIC = 40
  MH_MAGIC_64 = 41
  SupportedTypes = {2}
  CPU_TYPES_64 = {8}
  LC_SEGMENT = 1
  LC_SEGMENT_64 = 2
INVARIANTS OneClassPerCommand ClassSuitsCommand OnlyChangesAreRefused SilentIsComplete
PROPERTIES OpeningsEnd
