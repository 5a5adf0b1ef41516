SPECIFICATION Spec
CONSTANTS
  Symbols <- MCSymbols
  Noise <- MCNoise
  Silent <- MCSilent
  Open <- MCOpen
  Close <- MCClose
  MaxBuffer = 5
  MaxText = 8
  MaxChunk = 3
INVARIANT NothingLostNorLeaked
INVARIANT DelayIsBounded
INVARIANT OperatorHearsSomething
CHECK_DEADLOCK FALSE
