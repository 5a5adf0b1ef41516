SPECIFICATION Spec
CONSTANTS
  Spoken = {u1, u2}
  Typed = {t1}
  NoTurn = NoTurn
  u1 = u1
  u2 = u2
  t1 = t1
  MaxSteps <- MCSteps
INVARIANT PhasesClose
INVARIANT NeverEarlierTurn
INVARIANT OnlyTypingSplitsStt
CHECK_DEADLOCK FALSE
