SPECIFICATION FairSpec
CONSTANTS
  Clients = {c1, c2}
  Max = 2
PROPERTIES
  LimitIsLifted
