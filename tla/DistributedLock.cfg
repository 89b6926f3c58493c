SPECIFICATION FairSpec
CONSTANTS
  t1 = t1
  t2 = t2
  t3 = t3
  j1 = j1
  j2 = j2
  NoValue = NoValue
  Keys = {k1}
  Threads <- MCThreads
  Jvms <- MCJvms
  JvmOf <- MCJvmOf
  CheckedCallers <- MCChecked
  MaxAttempts = 2
INVARIANTS
  TypeOK
  ValuesAreOwn
  ValuesAreFresh
  SoleHolderCanRelease
PROPERTIES
  NoForeignRelease
  SoleThreadReleasesOwn
  SoleReleaseReleases
  LeaseSpec
  KeyEventuallyFree
