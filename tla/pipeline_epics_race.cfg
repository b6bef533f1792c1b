CONSTANTS
  c1 = c1
  c2 = c2
  BadBlock = BadBlock
  Channels <- MCChannels
  Shapes <- MCShapes
  Files <- MCShort
  Limits = {0}
  Commands = {"ReadFromEvio"}
  MaxEvents = 4
SPECIFICATION MCSpec
INVARIANTS
  NoFutureEpics
