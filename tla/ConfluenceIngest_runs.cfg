\* Three pages of which two are wanted, two at a time, and one of them edited twice.
SPECIFICATION FairSpec
CONSTANTS
  a = a
  b = b
  f = f
  Jobs = {j1, j2}
  Pages <- MCPages
  Wanted = {a, b}
  Orders <- MCOrders
  PageLimit = 2
  Editable = {a}
  MaxEdits = 2
  Length <- MCLength
  ChunkSize = 2
  Overlap = 1
  Modes = {"auto", "local-hash"}
  Size <- MCSize
  MaxFaults = 1
INVARIANT VersionsAreWhole
INVARIANT SuccessMeansIndexed
PROPERTY EventuallyIndexed
