SPECIFICATION Spec
CONSTANTS
  t1 = t1
  t2 = t2
  t3 = t3
  j1 = j1
  j2 = j2
  NoValue = NoValue
  Keys = {k1}
  Threads <- MCPair
  Jvms = {j1}
  JvmOf <- MCPairJvmOf
  CheckedCallers <- MCPair
  MaxAttempts = 2
PROPERTIES
  ReleaseLockReleases
