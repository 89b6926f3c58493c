-------------------------- MODULE EmployeeCacheProofs --------------------------
(***************************************************************************)
(* Theorems about EmployeeCache for any threads, ids, columns and values.   *)
(***************************************************************************)
EXTENDS EmployeeCache, TLAPS

\* An update statement leaves a row, and only where there was one.
LEMMA UpdatedType ==
  ASSUME NEW r \in Employees \cup {NoRow}, NEW e \in Employees
  PROVE  Updated(r, e) \in Employees \cup {NoRow}
BY DEF Updated, Employees

\* Every variable keeps its type.
THEOREM TypeCorrect == Spec => []TypeOK
<1> USE ExistingAssumption DEF TypeOK
<1>1. Init => TypeOK
  BY DEF Init
<1>2. TypeOK /\ [Next]_vars => TypeOK'
  <2> SUFFICES ASSUME TypeOK, [Next]_vars
               PROVE  TypeOK'
    OBVIOUS
  <2>1. ASSUME NEW t \in Threads, Select(t) \/ SelectThrows(t) \/ Store(t)
        PROVE  TypeOK'
    BY <2>1 DEF Select, SelectThrows, Store
  <2>2. ASSUME NEW t \in Threads, NEW i \in Ids, GetEmpById(t, i) \/ DeleteEmp(t, i)
        PROVE  TypeOK'
    BY <2>2 DEF GetEmpById, DeleteEmp
  <2>3. ASSUME NEW t \in Threads, NEW i \in Ids, NEW e \in Employees,
               UpdateEmp(t, i, e) \/ UpdateThrows(t, i, e)
        PROVE  TypeOK'
    BY <2>3, UpdatedType DEF UpdateEmp, UpdateThrows
  <2>4. CASE UNCHANGED vars
    BY <2>4 DEF vars
  <2>5. QED
    BY <2>1, <2>2, <2>3, <2>4 DEF Next
<1>3. QED
  BY <1>1, <1>2, PTL DEF Spec

\* What is cached, or about to be, is the row, unless a partial, missed, overlapping or
\* half-failed update says otherwise.
LEMMA CauseStep == TypeOK /\ StaleNeedsCause /\ [Next]_vars => StaleNeedsCause'
<1> SUFFICES ASSUME TypeOK, StaleNeedsCause, [Next]_vars
             PROVE  StaleNeedsCause'
  OBVIOUS
<1> USE DEF TypeOK, StaleNeedsCause, PutPending, CacheMatchesRow
<1>1. ASSUME NEW t \in Threads, NEW i \in Ids, GetEmpById(t, i)
      PROVE  StaleNeedsCause'
  BY <1>1 DEF GetEmpById
<1>2. ASSUME NEW t \in Threads, Select(t)
      PROVE  StaleNeedsCause'
  BY <1>2 DEF Select
<1>3. ASSUME NEW t \in Threads, SelectThrows(t)
      PROVE  StaleNeedsCause'
  BY <1>3 DEF SelectThrows
<1>4. ASSUME NEW t \in Threads, Store(t)
      PROVE  StaleNeedsCause'
  BY <1>4 DEF Store
<1>5. ASSUME NEW t \in Threads, NEW i \in Ids, NEW e \in Employees, UpdateEmp(t, i, e)
      PROVE  StaleNeedsCause'
  <2> SUFFICES ASSUME NEW j \in Ids \ tainted'
               PROVE  /\ PutPending(j)' \/ CacheMatchesRow(j)'
                      /\ \A u \in Threads :
                           id'[u] = j /\ pc'[u] \in {"fill", "put"} => hand'[u] = row'[j]
    OBVIOUS
  <2>1. /\ \A u \in Threads : u # t => /\ pc'[u] = pc[u]
                                       /\ id'[u] = id[u]
                                       /\ hand'[u] = hand[u]
        /\ pc[t] = "idle" /\ pc'[t] = "put" /\ id'[t] = i /\ hand'[t] = e
        /\ cache' = cache
    BY <1>5 DEF UpdateEmp
  <2>2. j \notin tainted
    BY <1>5 DEF UpdateEmp
  <2>3. CASE j = i
    <3>1. row'[i] = e /\ ~HeldByOther(t, i)
      BY <1>5, <2>3 DEF UpdateEmp
    <3>2. PutPending(i)'
      BY <2>1
    <3>3. QED
      BY <2>1, <2>3, <3>1, <3>2 DEF HeldByOther
  <2>4. CASE j # i
    <3>1. row'[j] = row[j]
      BY <1>5, <2>4 DEF UpdateEmp
    <3>2. PutPending(j) => PutPending(j)'
      BY <2>1
    <3>3. QED
      BY <2>1, <2>2, <2>4, <3>1, <3>2
  <2>5. QED
    BY <2>3, <2>4
<1>6. ASSUME NEW t \in Threads, NEW i \in Ids, NEW e \in Employees, UpdateThrows(t, i, e)
      PROVE  StaleNeedsCause'
  BY <1>6 DEF UpdateThrows
<1>7. ASSUME NEW t \in Threads, NEW i \in Ids, DeleteEmp(t, i)
      PROVE  StaleNeedsCause'
  BY <1>7 DEF DeleteEmp, HeldByOther
<1>8. CASE UNCHANGED vars
  BY <1>8 DEF vars
<1>9. QED
  BY <1>1, <1>2, <1>3, <1>4, <1>5, <1>6, <1>7, <1>8 DEF Next

\* Stale cache entries come from the named causes and from nothing else.
THEOREM OnlyNamedCauses == Spec => []StaleNeedsCause
<1>1. Init => StaleNeedsCause
  BY DEF Init, StaleNeedsCause, CacheMatchesRow
<1>2. QED
  BY <1>1, CauseStep, TypeCorrect, PTL DEF Spec

------------------------------------------------------------------------------
(* How the service keeps its cache right *)

\* Requests as the cache needs them: an update sets every column of a row that is there, no
\* other request holds a result for its id meanwhile, and none fails half-way.
WholeEmployee(e) == \A c \in Columns : e[c] # Null

CarefulUpdates ==
  \A t \in Threads, i \in Ids, e \in Employees :
    /\ ~UpdateThrows(t, i, e)
    /\ UpdateEmp(t, i, e) => row[i] # NoRow /\ WholeEmployee(e) /\ ~HeldByOther(t, i)

\* There has been no reason for a wrong entry.
Untainted == tainted = {}

\* What is cached is the row, but for a @CachePut that is under way.
Coherent == \A i \in Ids : PutPending(i) \/ CacheMatchesRow(i)

\* A row that is wholly overwritten is what the caller gave.
LEMMA WholeUpdate ==
  ASSUME NEW r \in Employees, NEW e \in Employees, r # NoRow, WholeEmployee(e)
  PROVE  Updated(r, e) = e
<1>1. Updated(r, e) = [c \in Columns |-> e[c]]
  BY DEF Updated, WholeEmployee
<1>2. e = [c \in Columns |-> e[c]]
  BY DEF Employees
<1>3. QED
  BY <1>1, <1>2

\* Careful updates taint nothing.
LEMMA CarefulStep ==
  TypeOK /\ Untainted /\ [Next]_vars /\ [CarefulUpdates]_vars => Untainted'
<1> SUFFICES ASSUME TypeOK, Untainted, [Next]_vars, [CarefulUpdates]_vars, vars' # vars
             PROVE  Untainted'
  BY DEF vars, Untainted
<1> USE DEF Untainted
<1>1. CarefulUpdates
  OBVIOUS
<1>2. ASSUME NEW t \in Threads, NEW i \in Ids, NEW e \in Employees, UpdateEmp(t, i, e)
      PROVE  Untainted'
  <2>1. row[i] # NoRow /\ WholeEmployee(e) /\ ~HeldByOther(t, i)
    BY <1>1, <1>2 DEF CarefulUpdates
  <2>2. row[i] \in Employees
    BY <2>1 DEF TypeOK
  <2>3. row'[i] = Updated(row[i], e)
    BY <1>2 DEF UpdateEmp, TypeOK
  <2>4. row'[i] = e
    BY <2>1, <2>2, <2>3, WholeUpdate
  <2>5. QED
    BY <1>2, <2>1, <2>4 DEF UpdateEmp
<1>3. ASSUME NEW t \in Threads, NEW i \in Ids, NEW e \in Employees, UpdateThrows(t, i, e)
      PROVE  FALSE
  BY <1>1, <1>3 DEF CarefulUpdates
<1>4. ASSUME NEW t \in Threads, NEW i \in Ids, GetEmpById(t, i) \/ DeleteEmp(t, i)
      PROVE  Untainted'
  BY <1>4 DEF GetEmpById, DeleteEmp
<1>5. ASSUME NEW t \in Threads, Select(t) \/ SelectThrows(t) \/ Store(t)
      PROVE  Untainted'
  BY <1>5 DEF Select, SelectThrows, Store
<1>6. QED
  BY <1>2, <1>3, <1>4, <1>5 DEF Next, vars

\* With careful updates a cached employee is the row whenever no @CachePut for it is under way,
\* and updateEmp leaves the cache up to date: readers, deletions, failed reads and requests for
\* other ids, however they interleave, do no harm.
THEOREM CarefulUpdatesCohere ==
  Spec /\ [][CarefulUpdates]_vars => []Coherent /\ UpdateRefreshes
<1> DEFINE Refreshes ==
      \A t \in Threads :
        pc[t] = "put" /\ pc'[t] = "idle" => cache'[id[t]] = row'[id[t]]
<1>1. Init => Untainted
  BY DEF Init, Untainted
<1>2. StaleNeedsCause /\ Untainted => Coherent
  BY DEF StaleNeedsCause, Coherent, Untainted
<1>3. TypeOK /\ StaleNeedsCause /\ Untainted /\ [Next]_vars => [Refreshes]_vars
  <2> SUFFICES ASSUME TypeOK, StaleNeedsCause, Untainted, [Next]_vars,
                      NEW t \in Threads, pc[t] = "put", pc'[t] = "idle"
               PROVE  cache'[id[t]] = row'[id[t]]
    OBVIOUS
  <2>1. Store(t)
    BY DEF Next, Select, SelectThrows, GetEmpById, DeleteEmp, UpdateEmp, UpdateThrows, Store,
           TypeOK, vars
  <2>2. id[t] \in Ids \ tainted /\ hand[t] = row[id[t]]
    BY DEF TypeOK, StaleNeedsCause, Untainted
  <2>3. cache'[id[t]] = hand[t] /\ row' = row
    BY <2>1, <2>2 DEF Store, TypeOK
  <2>4. QED
    BY <2>2, <2>3
<1>4. QED
  BY <1>1, <1>2, <1>3, CarefulStep, OnlyNamedCauses, TypeCorrect, PTL DEF Spec, UpdateRefreshes
================================================================================
