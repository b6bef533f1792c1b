CONSTANTS
  Numbers <- MCNumbers
  MaxLen = 5
SPECIFICATION Spec
INVARIANTS
  FindEventComplete
