CONSTANTS
  Dets = {1, 2}
  CoordFiles <- MCCoordFiles
  Values <- MCCoordValues
  Settings = {1, 2}
SPECIFICATION Spec
PROPERTIES
  SettingsApplied
