SPECIFICATION Spec
CONSTANTS
  Clients = {c1, c2, c3, c4}
  Max = 2
INVARIANTS
  TypeOK
  OvershootBounded
  MadeBounded
PROPERTIES
  RefusedOnlyAtLimit
