SPECIFICATION Spec
CONSTANTS
  Threads = {t1, t2}
  Registrations = {r1, r2}
  MaxConnections = 3
  MaxTeardowns = 2
  Free = Free
SYMMETRY MCSymmetry
INVARIANTS
  TypeOK
  JetstreamOnConnection
  TrackedAreUsable
  SteadyIsSafe
