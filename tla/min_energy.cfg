CONSTANTS
  Numbers = {0, 1, 2, 3, 4, 5}
  MaxLen = 5
  d1 = d1
  d2 = d2
  m1 = m1
  m2 = m2
  m3 = m3
  a1 = a1
  a2 = a2
  a3 = a3
  t1 = t1
  t2 = t2
  f1 = f1
  f2 = f2
  g1 = g1
  g2 = g2
  p1 = p1
  p2 = p2
  v1 = v1
  v2 = v2
  null = null
  Dets = {d1, d2}
  Mods = {m1, m2, m3}
  ADCs = {a1, a2, a3}
  TDCs = {t1, t2}
  NameOf <- MCNameOf
  AddrOf <- MCAddrOf
  GroupOf <- MCGroupOf
  ChannelLists <- MCChannelLists
  RunInfos <- MCRunInfos
  HitSets = {{2, 4}}
  ClusterMethods = {"Square", "Island"}
  Files <- MCEventFiles
  OnlineEvents <- MCOnlineEvents
  Clusters <- MCClusters
  Modes = {"Energy", "Pedestal"}
  NoEvent = "none"
  Detectors = {1, 2}
  CoordFiles <- MCCoordFiles
  CoordValues <- MCCoordValues
  ReconChoices = {1, 2}
  ColorTypes = {"Rainbow1", "GreyScale"}
  SpinValues = {0, 1, 30, 1000}
  CustomMaps <- MCCustomMaps
  HyCalModules = {"W1", "G1"}
  ViewModes = {0, 1, 2, 3, 4, 5, 6}
SPECIFICATION MCSpec
INVARIANTS
  MinEnergyAsConfigured
CHECK_DEADLOCK FALSE
