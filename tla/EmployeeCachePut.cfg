SPECIFICATION Spec
CONSTANTS
  Threads = {t1}
  Ids = {e1}
  Existing = {e1}
  Columns = {lastName, email}
  Vals = {v1, v2}
  Null = Null
  NoRow = NoRow
  Absent = Absent
PROPERTIES
  UpdateRefreshes
