SPECIFICATION Spec
CONSTANTS
  c1 = c1
  c2 = c2
  c3 = c3
  l1 = l1
  l2 = l2
  Clients <- MCClients
  Loops <- MCLoops
  LoopOf <- MCLoopOf
  MaxSends <- MCMaxSends
INVARIANTS
  JoinsTold
CHECK_DEADLOCK FALSE
