SPECIFICATION Spec
CONSTANTS
  t1 = t1
  t2 = t2
  e1 = e1
  e2 = e2
  lastName = lastName
  email = email
  v1 = v1
  v2 = v2
  Threads <- MCThreads
  Ids <- MCIds
  Existing <- MCExisting
  Columns <- MCColumns
  Vals <- MCVals
  Null = Null
  NoRow = NoRow
  Absent = Absent
SYMMETRY Alike
INVARIANTS
  TypeOK
  StaleNeedsCause
