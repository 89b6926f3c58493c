SPECIFICATION Spec
CONSTANTS
  c1 = c1
  c2 = c2
  c3 = c3
  Clients <- MCClients
  Listen = Listen
  NoOne = NoOne
  Lines <- MCLines
  BufferSize = 2
  SendCap = 3
INVARIANTS
  OfflineMeansLeft
CHECK_DEADLOCK FALSE
