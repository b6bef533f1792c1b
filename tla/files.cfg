CONSTANTS
  Files = {"f1"}
  NoFile = "none"
  Banks <- MCBanks
  Sources <- MCSources
  Systems = {"hycal", "gem", "epics"}
  Modes <- MCModes
  BufSize = 5
  Garbage = {2}
  MaxBank = 5
  EventFiles <- MCEventFiles
  BadLists <- MCBadLists
  PhysRuns <- MCPhysRuns
  FirstRun = 1
  LastRun = 2
  InnerModules <- MCInnerModules
  LMSRuns <- MCLMSRuns
  startRun = 1
  endRun = 3
  BLOCKS = 3
  ChannelNames <- MCChannelNames
  TaggerSlots = {3, 14, 16}
  TaggerChannels = {0, 32, 127}
  UnsetSlots = {0, 14}
  MaxHits = 2
SPECIFICATION MCSpec
INVARIANTS
  NoBadEventSelected
  SelectsExactly
  ClosedFileReadsBack
  DamageIsContained
  CountedOnce
  PairsInStep
  GainsOfOwnRun
  RowsApart
