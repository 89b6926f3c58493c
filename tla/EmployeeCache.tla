----------------------------- MODULE EmployeeCache -----------------------------
(***************************************************************************)
(* EmployeeServiceImpl with the Spring cache "emp" before EmployeeMapper:   *)
(* getEmpById is @Cacheable, updateEmp @CachePut, deleteEmp @CacheEvict.    *)
(* The cache is a map in the process; each annotation makes its access to   *)
(* the map and the method body its access to the table separately, so the   *)
(* requests of several threads interleave between the two.                  *)
(***************************************************************************)
EXTENDS Naturals

CONSTANTS
  Threads,    \* request threads of the controller
  Ids,        \* employee ids that are asked for
  Existing,   \* those that have a row in the table
  Columns,    \* lastName, email, gender, d_id
  Vals,       \* what a column may hold
  Null,       \* a null column or property
  NoRow,      \* no such row; the method returns null
  Absent      \* no entry in the cache

ASSUME ExistingAssumption == Existing \subseteq Ids
ASSUME NullsAssumption == NoRow # Absent

Employees == [Columns -> Vals \cup {Null}]

VARIABLES
  row,        \* row[i]: the row of id i
  cache,      \* cache[i]: what cache "emp" holds under key i; null is cached as NoRow
  pc,         \* where each thread is
  id,         \* the id its request is about
  hand,       \* the result it is about to store in the cache
  tainted     \* ghost: ids for which there is a reason that the cache may be wrong

vars == <<row, cache, pc, id, hand, tainted>>

TypeOK ==
  /\ row \in [Ids -> Employees \cup {NoRow}]
  /\ cache \in [Ids -> Employees \cup {NoRow, Absent}]
  /\ pc \in [Threads -> {"idle", "query", "fill", "put"}]
  /\ id \in [Threads -> Ids]
  /\ hand \in [Threads -> Employees \cup {NoRow}]
  /\ tainted \in SUBSET Ids

Init ==
  /\ row \in [Ids -> Employees \cup {NoRow}]
  /\ \A i \in Ids : (row[i] = NoRow) = (i \notin Existing)
  /\ cache = [i \in Ids |-> Absent]
  /\ pc = [t \in Threads |-> "idle"]
  /\ id \in [Threads -> Ids]
  /\ hand = [t \in Threads |-> NoRow]
  /\ tainted = {}

\* Some thread other than t carries a result for id i.
HeldByOther(t, i) == \E u \in Threads \ {t} : id[u] = i /\ pc[u] \in {"fill", "put"}

------------------------------------------------------------------------------
\* @Cacheable: a hit (null included) is returned, a miss runs the method.
GetEmpById(t, i) ==
  /\ pc[t] = "idle"
  /\ id' = [id EXCEPT ![t] = i]
  /\ pc' = [pc EXCEPT ![t] = IF cache[i] = Absent THEN "query" ELSE "idle"]
  /\ UNCHANGED <<row, cache, hand, tainted>>

\* Fault: a result of null is taken for no entry.
SelectNullAsAbsent(t) ==
  /\ pc[t] = "query"
  /\ hand' = [hand EXCEPT ![t] = IF row[id[t]] = NoRow THEN Absent ELSE row[id[t]]]
  /\ pc' = [pc EXCEPT ![t] = "fill"]
  /\ UNCHANGED <<row, cache, id, tainted>>

\* SELECT * FROM employee WHERE id = #{id}
Select(t) ==
  /\ pc[t] = "query"
  /\ hand' = [hand EXCEPT ![t] = row[id[t]]]
  /\ pc' = [pc EXCEPT ![t] = "fill"]
  /\ UNCHANGED <<row, cache, id, tainted>>

SelectThrows(t) ==
  /\ pc[t] = "query"
  /\ pc' = [pc EXCEPT ![t] = "idle"]
  /\ UNCHANGED <<row, cache, id, hand, tainted>>

\* The interceptor stores the result of the method, of a miss or of @CachePut.
Store(t) ==
  /\ pc[t] \in {"fill", "put"}
  /\ cache' = [cache EXCEPT ![id[t]] = hand[t]]
  /\ pc' = [pc EXCEPT ![t] = "idle"]
  /\ UNCHANGED <<row, id, hand, tainted>>

\* UPDATE employee <set> with the properties that are not null, WHERE id = #{id}:
\* what the row is afterwards.  No row, no effect.
Updated(r, e) ==
  IF r = NoRow THEN NoRow
  ELSE [c \in Columns |-> IF e[c] # Null THEN e[c] ELSE r[c]]

\* With no property set the statement has no SET list: an SQL error, no effect.
HasSetList(e) == \E c \in Columns : e[c] # Null

\* Fault: updateEmp returns the employee as it was before the update.
UpdateEmpReturnsOld(t, i, e) ==
  /\ pc[t] = "idle"
  /\ HasSetList(e)
  /\ row' = [row EXCEPT ![i] = Updated(@, e)]
  /\ id' = [id EXCEPT ![t] = i]
  /\ hand' = [hand EXCEPT ![t] = row[i]]
  /\ pc' = [pc EXCEPT ![t] = "put"]
  /\ tainted' = IF row'[i] = e /\ ~HeldByOther(t, i) THEN tainted ELSE tainted \cup {i}
  /\ UNCHANGED cache

\* updateEmp returns its argument, and @CachePut will store that.
UpdateEmp(t, i, e) ==
  /\ pc[t] = "idle"
  /\ HasSetList(e)
  /\ row' = [row EXCEPT ![i] = Updated(@, e)]
  /\ id' = [id EXCEPT ![t] = i]
  /\ hand' = [hand EXCEPT ![t] = e]
  /\ pc' = [pc EXCEPT ![t] = "put"]
  /\ tainted' = IF row'[i] = e /\ ~HeldByOther(t, i) THEN tainted ELSE tainted \cup {i}
  /\ UNCHANGED cache

\* The table is updated but the call fails on the way back: nothing is stored.
UpdateThrows(t, i, e) ==
  /\ pc[t] = "idle"
  /\ HasSetList(e)
  /\ row' = [row EXCEPT ![i] = Updated(@, e)]
  /\ tainted' = tainted \cup {i}
  /\ UNCHANGED <<cache, pc, id, hand>>

\* deleteEmp: the body does nothing (line 32), @CacheEvict removes the entry.
DeleteEmp(t, i) ==
  /\ pc[t] = "idle"
  /\ cache' = [cache EXCEPT ![i] = Absent]
  /\ tainted' = IF HeldByOther(t, i) THEN tainted ELSE tainted \ {i}
  /\ UNCHANGED <<row, pc, id, hand>>

Next ==
  \E t \in Threads :
    \/ Select(t) \/ SelectThrows(t) \/ Store(t)
    \/ \E i \in Ids :
         \/ GetEmpById(t, i)
         \/ DeleteEmp(t, i)
         \/ \E e \in Employees : UpdateEmp(t, i, e) \/ UpdateThrows(t, i, e)

Spec == Init /\ [][Next]_vars

------------------------------------------------------------------------------
(* Properties *)

CacheMatchesRow(i) == cache[i] \in {Absent, row[i]}

PutPending(i) == \E t \in Threads : pc[t] = "put" /\ id[t] = i

\* A cached employee differs from its row only for a reason the code leaves open: an
\* update that set some columns only, or met no row, so that its argument is not the
\* new row; an update while another request for that id held a result; an update that
\* failed after it took effect.  Whatever else interleaves, an entry is right once no
\* @CachePut for it is under way, and what readers are about to store is right.
StaleNeedsCause ==
  \A i \in Ids \ tainted :
    /\ PutPending(i) \/ CacheMatchesRow(i)
    /\ \A t \in Threads : id[t] = i /\ pc[t] \in {"fill", "put"} => hand[t] = row[i]

\* "@CachePut ... 适合于缓存更新的场景": after updateEmp the cache is up to date, where
\* requests come one at a time and none fails.
UpdateRefreshes ==
  [][\A t \in Threads :
       pc[t] = "put" /\ pc'[t] = "idle" => cache'[id[t]] = row'[id[t]]]_vars
================================================================================
