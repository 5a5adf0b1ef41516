SPECIFICATION Spec
CONSTANTS
  Requests = {t1, t2, t3}
  Replicas = {p1, p2}
  Rooms = {btf}
  Models = {m1, m2}
  Window = 2
  Horizon = 2
  Unreliable = TRUE
SYMMETRY Symmetry
INVARIANT BurstIsOneDispatch
INVARIANT NoDeadReservation
INVARIANT EvictionClearsTheRoom
INVARIANT EvictsNoNewerAgent
