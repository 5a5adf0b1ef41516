SPECIFICATION Spec
CONSTANTS
  Requests = {t1, t2, t3}
  Replicas = {p1}
  Rooms = {btf}
  Models = {m1}
  Window = 1
  Horizon = 3
  Unreliable = TRUE
INVARIANT NoDuplicateDispatch
