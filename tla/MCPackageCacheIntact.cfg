SPECIFICATION Spec
CONSTANTS
  Procs = {p1}
  Paths = {x1, x2}
  Contents = {s1, s2}
  Nothing = Nothing
  Torn = Torn
INVARIANTS
  HitIsIntact
