CONSTANTS
  c1 = c1
  c2 = c2
  BadBlock = BadBlock
  Channels <- MCChannels
  Shapes <- MCShapes
  Files <- MCAllFiles
  Limits = {0, 1}
  Commands <- AllCommands
  MaxEvents = 4
SPECIFICATION MCSpec
INVARIANTS
  BufferOwnership
  BankHoldsOwnData
  HistogramsComplete
PROPERTIES
  ImplementsStore
  OperationsReturn
