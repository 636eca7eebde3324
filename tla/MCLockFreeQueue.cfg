SPECIFICATION Spec
CONSTANTS
  Values = {a, b}
  NoValue = none
  MaxNodes = 4
INVARIANTS
  TypeOK
  NoUseAfterFree
  SizeTracksLength
PROPERTIES
  ImplementsFifo
  ReclaimCatchesUp
CHECK_DEADLOCK FALSE
