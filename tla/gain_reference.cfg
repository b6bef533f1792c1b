CONSTANTS
  v1 = v1
  v2 = v2
  free = free
  other = other
  APVs = {v1, v2, free}
  Connected = {v1, v2}
  Shapes <- MCShapes
  MaxEvents = 3
  Modules = {"W1", "G2"}
  Refs <- MCRefs
  CalFiles <- MCCalFiles
  RunFiles <- MCRunFiles
  Files <- MCFiles
  MinEntries = 1
  Separation = 1000
  LeastLed = 30
  Sigma = 2
  MaxBank = 4
  Layout <- MCModules
  Signals <- MCSignals
  LaterSignals <- MCLaterSignals
  MinModuleEnergy = 50
  MinCenterEnergy = 100
  MinClusterEnergy = 300
  MinClusterSize = 1
  CornerConnection = FALSE
  SquareSize = 3
  Profile <- MCProfile
  LeastShare = 4
  LeastLeak = 5
  SplitMaxClusters = 3
  VirtualLists <- MCVirtualLists
  Borders <- MCBorders
  LeakFracs = {0, 10}
  HyCalHits <- MCHyCal
  GEMHits <- MCGEM
  MatchRange <- MCRange
  Overlap = 1
  Far = 1000
SPECIFICATION MCSpec
INVARIANT OwnReference
