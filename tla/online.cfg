SPECIFICATION Spec
CONSTANTS
  Names = {n1, n2}
  Handles = {h1, h2, h3, h4}
  null = null
  Cue = 3
  Chunk = 2
  Cap = 4
INVARIANTS
  ChannelOwned
  NoOrphans
PROPERTIES
  Responds
