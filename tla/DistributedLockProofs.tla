------------------------- MODULE DistributedLockProofs -------------------------
(***************************************************************************)
(* Theorems about DistributedLock for any sets of keys, threads and JVMs.   *)
(***************************************************************************)
EXTENDS DistributedLock, TLAPS

\* Every variable keeps its type.
THEOREM TypeCorrect == Spec => []TypeOK
<1> USE JvmAssumption, BoundAssumption
<1>1. Init => TypeOK
  <2> SUFFICES ASSUME Init
               PROVE  TypeOK
    OBVIOUS
  <2>1. values \in [Jvms -> [Keys -> Tokens \cup {NoValue}]]
    BY DEF Init
  <2>2. pc \in [Threads -> {"idle", "set", "put", "locked", "load", "eval", "remove"}]
    BY DEF Init
  <2>3. redis \in [Keys -> Tokens \cup {NoValue}] /\ volatile \in SUBSET Keys
    BY DEF Init
  <2>4. scripts \in BOOLEAN
    BY Zenon DEF Init
  <2>5. /\ key \in [Threads -> Keys]
        /\ serial \in [Threads -> 0..MaxAttempts]
        /\ found \in [Threads -> Tokens \cup {NoValue}]
    BY DEF Init
  <2>6. QED
    BY <2>1, <2>2, <2>3, <2>4, <2>5 DEF TypeOK
<1>2. TypeOK /\ [Next]_vars => TypeOK'
  <2> SUFFICES ASSUME TypeOK, [Next]_vars
               PROVE  TypeOK'
    OBVIOUS
  <2> USE DEF TypeOK, Goto
  <2>0. \A t \in Threads : Value(t) \in Tokens
    BY DEF Value, Tokens
  <2>1. ASSUME NEW t \in Threads, NEW k \in Keys, CallLock(t, k)
        PROVE  TypeOK'
    BY <2>1 DEF CallLock
  <2>2. ASSUME NEW t \in Threads, SetNx(t)
        PROVE  TypeOK'
    BY <2>0, <2>2 DEF SetNx, SetNxEx
  <2>3. ASSUME NEW t \in Threads, SetThrows(t)
        PROVE  TypeOK'
    BY <2>0, <2>3 DEF SetThrows, SetNxEx
  <2>4. ASSUME NEW t \in Threads, Put(t)
        PROVE  TypeOK'
    BY <2>0, <2>4 DEF Put
  <2>5. ASSUME NEW t \in Threads, CallRelease(t)
        PROVE  TypeOK'
    BY <2>5 DEF CallRelease
  <2>6. ASSUME NEW t \in Threads, ScriptLoad(t) \/ LoadThrows(t)
        PROVE  TypeOK'
    BY <2>6 DEF ScriptLoad, LoadThrows
  <2>7. ASSUME NEW t \in Threads, EvalSha(t) \/ EvalThrows(t)
        PROVE  TypeOK'
    BY <2>7 DEF EvalSha, EvalThrows, CompareAndDelete
  <2>8. ASSUME NEW t \in Threads, Remove(t)
        PROVE  TypeOK'
    BY <2>8 DEF Remove
  <2>9. ASSUME NEW k \in Keys, Expire(k)
        PROVE  TypeOK'
    BY <2>9 DEF Expire
  <2>10. ASSUME NEW lost \in SUBSET Keys, RedisRestart(lost)
         PROVE  TypeOK'
    BY <2>10 DEF RedisRestart
  <2>11. ASSUME NEW j \in Jvms, JvmCrash(j)
         PROVE  TypeOK'
    BY <2>11 DEF JvmCrash
  <2>12. CASE UNCHANGED vars
    BY <2>12 DEF vars
  <2>13. QED
    BY <2>1, <2>2, <2>3, <2>4, <2>5, <2>6, <2>7, <2>8, <2>9, <2>10, <2>11, <2>12
       DEF Next, ThreadStep
<1>3. QED
  BY <1>1, <1>2, PTL DEF Spec

------------------------------------------------------------------------------
\* Each map, and each release that works with a value from it, knows only values
\* drawn in its own JVM.  Put is the only writer of a value and writes the caller's.
LEMMA OwnStep == TypeOK /\ ValuesAreOwn /\ [Next]_vars => ValuesAreOwn'
<1> SUFFICES ASSUME TypeOK, ValuesAreOwn, [Next]_vars
             PROVE  ValuesAreOwn'
  OBVIOUS
<1> USE JvmAssumption, NoValueAssumption DEF TypeOK, ValuesAreOwn, Goto, Owner
<1>1. ASSUME NEW t \in Threads, NEW k \in Keys, CallLock(t, k)
      PROVE  ValuesAreOwn'
  BY <1>1 DEF CallLock
<1>2. ASSUME NEW t \in Threads, SetNx(t) \/ SetThrows(t)
      PROVE  ValuesAreOwn'
  BY <1>2 DEF SetNx, SetThrows
<1>3. ASSUME NEW t \in Threads, Put(t)
      PROVE  ValuesAreOwn'
  BY <1>3 DEF Put, Value
<1>4. ASSUME NEW t \in Threads, CallRelease(t)
      PROVE  ValuesAreOwn'
  BY <1>4 DEF CallRelease
<1>5. ASSUME NEW t \in Threads, ScriptLoad(t) \/ LoadThrows(t)
      PROVE  ValuesAreOwn'
  BY <1>5 DEF ScriptLoad, LoadThrows
<1>6. ASSUME NEW t \in Threads, EvalSha(t) \/ EvalThrows(t)
      PROVE  ValuesAreOwn'
  BY <1>6 DEF EvalSha, EvalThrows
<1>7. ASSUME NEW t \in Threads, Remove(t)
      PROVE  ValuesAreOwn'
  BY <1>7 DEF Remove
<1>8. ASSUME NEW k \in Keys, Expire(k)
      PROVE  ValuesAreOwn'
  BY <1>8 DEF Expire
<1>9. ASSUME NEW lost \in SUBSET Keys, RedisRestart(lost)
      PROVE  ValuesAreOwn'
  BY <1>9 DEF RedisRestart
<1>10. ASSUME NEW j \in Jvms, JvmCrash(j)
       PROVE  ValuesAreOwn'
  BY <1>10 DEF JvmCrash
<1>11. CASE UNCHANGED vars
  BY <1>11 DEF vars
<1>12. QED
  BY <1>1, <1>2, <1>3, <1>4, <1>5, <1>6, <1>7, <1>8, <1>9, <1>10, <1>11
     DEF Next, ThreadStep

\* No release works with a value of another JVM, whatever happened before it.
THEOREM OnlyOwnValues == Spec => []ValuesAreOwn
<1>1. Init => ValuesAreOwn
  BY DEF Init, ValuesAreOwn
<1>2. QED
  BY <1>1, OwnStep, TypeCorrect, PTL DEF Spec

\* Only the script deletes at the eval point, and only the value it was given.
LEMMA DeleteStep ==
  ASSUME TypeOK, [Next]_vars, NEW t \in Threads, Deletes(t)
  PROVE  redis[key[t]] = found[t] /\ (EvalSha(t) \/ EvalThrows(t))
<1> USE JvmAssumption DEF TypeOK, Goto, Deletes
<1>1. ASSUME NEW u \in Threads, NEW k \in Keys, CallLock(u, k)
      PROVE  FALSE
  BY <1>1 DEF CallLock
<1>2. ASSUME NEW u \in Threads, SetNx(u) \/ SetThrows(u) \/ Put(u)
      PROVE  FALSE
  BY <1>2 DEF SetNx, SetThrows, Put
<1>3. ASSUME NEW u \in Threads, CallRelease(u)
      PROVE  FALSE
  BY <1>3 DEF CallRelease, MayRelease
<1>4. ASSUME NEW u \in Threads, ScriptLoad(u) \/ LoadThrows(u) \/ Remove(u)
      PROVE  FALSE
  BY <1>4 DEF ScriptLoad, LoadThrows, Remove
<1>5. ASSUME NEW u \in Threads, EvalSha(u) \/ EvalThrows(u)
      PROVE  u = t /\ redis[key[t]] = found[t]
  BY <1>5 DEF EvalSha, EvalThrows, CompareAndDelete
<1>6. ASSUME NEW k \in Keys, Expire(k)
      PROVE  FALSE
  BY <1>6 DEF Expire
<1>7. ASSUME NEW lost \in SUBSET Keys, RedisRestart(lost)
      PROVE  FALSE
  BY <1>7 DEF RedisRestart
<1>8. ASSUME NEW j \in Jvms, JvmCrash(j)
      PROVE  FALSE
  BY <1>8 DEF JvmCrash
<1>9. CASE UNCHANGED vars
  BY <1>9 DEF vars
<1>10. QED
  BY <1>1, <1>2, <1>3, <1>4, <1>5, <1>6, <1>7, <1>8, <1>9 DEF Next, ThreadStep

\* releaseLock never deletes a lock held by a thread of another JVM.
THEOREM ForeignLocksSafe == Spec => NoForeignRelease
<1>1. TypeOK /\ ValuesAreOwn /\ [Next]_vars
        => [\A t \in Threads :
              Deletes(t) => JvmOf[Owner(redis[key[t]])] = JvmOf[t]]_vars
  BY DeleteStep DEF ValuesAreOwn, Deletes
<1>2. QED
  BY <1>1, TypeCorrect, OnlyOwnValues, PTL DEF Spec, NoForeignRelease

------------------------------------------------------------------------------
\* No thread's value is null.
LEMMA ValueIsNotNull == TypeOK => \A t \in Threads : Value(t) # NoValue
BY NoValueAssumption, BoundAssumption DEF TypeOK, Value

\* A value is stored under one key at most, and never one its thread has yet to send.
LEMMA FreshStep == TypeOK /\ ValuesAreFresh /\ [Next]_vars => ValuesAreFresh'
<1> SUFFICES ASSUME TypeOK, ValuesAreFresh, [Next]_vars
             PROVE  ValuesAreFresh'
  OBVIOUS
<1> USE NoValueAssumption, BoundAssumption DEF TypeOK, ValuesAreFresh, Goto, Owner, Tokens
<1>1. ASSUME NEW t \in Threads, NEW k \in Keys, CallLock(t, k)
      PROVE  ValuesAreFresh'
  BY <1>1 DEF CallLock
<1>2. ASSUME NEW t \in Threads, SetNx(t) \/ SetThrows(t)
      PROVE  ValuesAreFresh'
  <2>1. pc[t] = "set" /\ pc'[t] # "set" /\ serial' = serial
    BY <1>2 DEF SetNx, SetThrows
  <2>2. \A u \in Threads : u # t => pc'[u] = pc[u]
    BY <1>2 DEF SetNx, SetThrows
  <2>3. CASE redis' = redis
    BY <2>1, <2>2, <2>3
  <2>4. CASE redis' = [redis EXCEPT ![key[t]] = <<t, serial[t]>>]
    <3>0. <<t, serial[t]>> # NoValue
      BY ValueIsNotNull DEF Value
    <3>1. ASSUME NEW k \in Keys, redis[k] = <<t, serial[t]>>
          PROVE  FALSE
      <4>1. Owner(redis[k]) = t /\ redis[k][2] = serial[t]
        BY <3>1
      <4>2. redis[k][2] < serial[t]
        BY <2>1, <3>0, <3>1, <4>1
      <4>3. QED
        BY <4>1, <4>2
    <3>2. \A k \in Keys : redis'[k] = IF k = key[t] THEN <<t, serial[t]>> ELSE redis[k]
      BY <2>4
    <3>3. \A k, l \in Keys : redis'[k] = redis'[l] /\ redis'[k] # NoValue => k = l
      BY <3>1, <3>2
    <3>4. ASSUME NEW k \in Keys, redis'[k] # NoValue
          PROVE  LET u == Owner(redis'[k]) IN
                   /\ redis'[k][2] <= serial'[u]
                   /\ pc'[u] = "set" => redis'[k][2] < serial'[u]
      <4>1. CASE k = key[t]
        BY <2>1, <3>2, <4>1
      <4>2. CASE k # key[t]
        BY <2>1, <2>2, <3>2, <3>4, <4>2
      <4>3. QED
        BY <4>1, <4>2
    <3>5. QED
      BY <3>3, <3>4
  <2>5. QED
    BY <1>2, <2>3, <2>4 DEF SetNx, SetThrows, SetNxEx, Value
<1>3. ASSUME NEW t \in Threads, Put(t) \/ ScriptLoad(t) \/ LoadThrows(t) \/ Remove(t)
      PROVE  ValuesAreFresh'
  BY <1>3 DEF Put, ScriptLoad, LoadThrows, Remove
<1>4. ASSUME NEW t \in Threads, CallRelease(t)
      PROVE  ValuesAreFresh'
  BY <1>4 DEF CallRelease
<1>5. ASSUME NEW t \in Threads, EvalSha(t) \/ EvalThrows(t)
      PROVE  ValuesAreFresh'
  BY <1>5 DEF EvalSha, EvalThrows, CompareAndDelete
<1>6. ASSUME NEW k \in Keys, Expire(k)
      PROVE  ValuesAreFresh'
  BY <1>6 DEF Expire
<1>7. ASSUME NEW lost \in SUBSET Keys, RedisRestart(lost)
      PROVE  ValuesAreFresh'
  BY <1>7 DEF RedisRestart
<1>8. ASSUME NEW j \in Jvms, JvmCrash(j)
      PROVE  ValuesAreFresh'
  BY <1>8 DEF JvmCrash
<1>9. CASE UNCHANGED vars
  BY <1>9 DEF vars
<1>10. QED
  BY <1>1, <1>2, <1>3, <1>4, <1>5, <1>6, <1>7, <1>8, <1>9 DEF Next, ThreadStep

\* Redis never holds one value under two keys, nor one that is still to be sent.
THEOREM FreshValues == Spec => []ValuesAreFresh
<1>1. Init => ValuesAreFresh
  BY DEF Init, ValuesAreFresh
<1>2. QED
  BY <1>1, FreshStep, TypeCorrect, PTL DEF Spec

------------------------------------------------------------------------------
\* What a thread that is alone in its JVM knows is undisturbed by every other thread.
LEMMA SoleStep == TypeOK /\ SoleHolderCanRelease /\ [Next]_vars => SoleHolderCanRelease'
<1> SUFFICES ASSUME TypeOK, SoleHolderCanRelease, [Next]_vars,
                    NEW s \in Threads, SoleThread(s)
             PROVE  KnowsOwnValue(s)'
  BY DEF SoleHolderCanRelease, SoleThread
<1>a. KnowsOwnValue(s)
  BY DEF SoleHolderCanRelease
<1>b. \A u \in Threads : JvmOf[u] = JvmOf[s] => u = s
  BY DEF SoleThread
<1>c. Value(s) # NoValue
  BY ValueIsNotNull
<1>d. \A u \in Threads : u # s => Value(u) # Value(s)
  BY DEF Value
<1> USE JvmAssumption, <1>a DEF TypeOK, KnowsOwnValue, Goto
<1>1. ASSUME NEW t \in Threads, NEW k \in Keys, CallLock(t, k)
      PROVE  KnowsOwnValue(s)'
  BY <1>1 DEF CallLock, Value
<1>2. ASSUME NEW t \in Threads, SetNx(t) \/ SetThrows(t)
      PROVE  KnowsOwnValue(s)'
  <2>1. Value(s)' = Value(s) /\ values' = values /\ key' = key /\ found' = found
    BY <1>2 DEF SetNx, SetThrows, Value
  <2>2. CASE t = s
    BY <1>2, <2>1, <2>2 DEF SetNx, SetThrows
  <2>3. CASE t # s
    <3>1. pc'[s] = pc[s]
      BY <1>2, <2>3 DEF SetNx, SetThrows
    <3>2. redis[key[s]] # Value(s) => redis'[key[s]] # Value(s)
      BY <1>2, <1>d, <2>3 DEF SetNx, SetThrows, SetNxEx
    <3>3. QED
      BY <2>1, <3>1, <3>2
  <2>4. QED
    BY <2>2, <2>3
<1>3. ASSUME NEW t \in Threads, Put(t)
      PROVE  KnowsOwnValue(s)'
  BY <1>3, <1>b DEF Put, Value
<1>4. ASSUME NEW t \in Threads, CallRelease(t)
      PROVE  KnowsOwnValue(s)'
  BY <1>4 DEF CallRelease, MayRelease, Value
<1>5. ASSUME NEW t \in Threads, ScriptLoad(t) \/ LoadThrows(t)
      PROVE  KnowsOwnValue(s)'
  BY <1>5 DEF ScriptLoad, LoadThrows, Value
<1>6. ASSUME NEW t \in Threads, EvalSha(t) \/ EvalThrows(t)
      PROVE  KnowsOwnValue(s)'
  <2>1. Value(s)' = Value(s) /\ values' = values /\ key' = key /\ found' = found
    BY <1>6 DEF EvalSha, EvalThrows, Value
  <2>2. redis[key[s]] # Value(s) => redis'[key[s]] # Value(s)
    BY <1>6, <1>c DEF EvalSha, EvalThrows, CompareAndDelete
  <2>3. CASE t = s
    <3>1. CASE EvalSha(t)
      <4>1. pc'[s] = "remove"
        BY <2>3, <3>1 DEF EvalSha
      <4>2. s \in CheckedCallers => redis'[key[s]] # Value(s)
        BY <1>c, <2>3, <3>1 DEF EvalSha, CompareAndDelete
      <4>3. QED
        BY <2>1, <4>1, <4>2
    <3>2. CASE EvalThrows(t)
      BY <2>1, <2>3, <3>2 DEF EvalThrows
    <3>3. QED
      BY <1>6, <3>1, <3>2
  <2>4. CASE t # s
    <3>1. pc'[s] = pc[s]
      BY <1>6, <2>4 DEF EvalSha, EvalThrows
    <3>2. QED
      BY <2>1, <2>2, <3>1
  <2>5. QED
    BY <2>3, <2>4
<1>7. ASSUME NEW t \in Threads, Remove(t)
      PROVE  KnowsOwnValue(s)'
  BY <1>7, <1>b DEF Remove, Value
<1>8. ASSUME NEW k \in Keys, Expire(k)
      PROVE  KnowsOwnValue(s)'
  <2>1. redis[key[s]] # Value(s) => redis'[key[s]] # Value(s)
    BY <1>8, <1>c DEF Expire
  <2>2. QED
    BY <1>8, <2>1 DEF Expire, Value
<1>9. ASSUME NEW lost \in SUBSET Keys, RedisRestart(lost)
      PROVE  KnowsOwnValue(s)'
  <2>1. redis[key[s]] # Value(s) => redis'[key[s]] # Value(s)
    BY <1>9, <1>c DEF RedisRestart
  <2>2. QED
    BY <1>9, <2>1 DEF RedisRestart, Value
<1>10. ASSUME NEW j \in Jvms, JvmCrash(j)
       PROVE  KnowsOwnValue(s)'
  BY <1>10 DEF JvmCrash, Value
<1>11. CASE UNCHANGED vars
  BY <1>11 DEF vars, Value
<1>12. QED
  BY <1>1, <1>2, <1>3, <1>4, <1>5, <1>6, <1>7, <1>8, <1>9, <1>10, <1>11
     DEF Next, ThreadStep

\* A thread alone in its JVM always has in the map what it needs to release its lock.
THEOREM SoleHolders == Spec => []SoleHolderCanRelease
<1>1. Init => SoleHolderCanRelease
  BY DEF Init, SoleHolderCanRelease, KnowsOwnValue
<1>2. QED
  BY <1>1, SoleStep, TypeCorrect, PTL DEF Spec

\* ... deletes nothing but its own lock ...
THEOREM SoleDeletesOwn == Spec => SoleThreadReleasesOwn
<1>1. TypeOK /\ SoleHolderCanRelease /\ [Next]_vars
        => [\A t \in CheckedCallers :
              SoleThread(t) /\ Deletes(t) => redis[key[t]] = Value(t)]_vars
  BY DeleteStep, BoundAssumption DEF SoleHolderCanRelease, KnowsOwnValue, Deletes
<1>2. QED
  BY <1>1, TypeCorrect, SoleHolders, PTL DEF Spec, SoleThreadReleasesOwn

\* ... and has released it when releaseLock returns.
THEOREM SoleReleaseWorks == Spec => SoleReleaseReleases
<1>1. TypeOK /\ SoleHolderCanRelease /\ [Next]_vars
        => [\A t \in CheckedCallers :
              SoleThread(t) /\ ReleaseReturns(t) => redis'[key[t]] # Value(t)]_vars
  <2> SUFFICES ASSUME TypeOK, SoleHolderCanRelease,
                      NEW t \in CheckedCallers, SoleThread(t), ReleaseReturns(t)
               PROVE  redis'[key[t]] # Value(t)
    OBVIOUS
  <2> USE BoundAssumption, ValueIsNotNull DEF SoleHolderCanRelease, KnowsOwnValue, TypeOK
  <2>1. CASE pc[t] = "locked" /\ CallRelease(t) /\ pc'[t] = "idle"
    BY <2>1 DEF CallRelease, Goto
  <2>2. CASE Remove(t)
    BY <2>2 DEF Remove
  <2>3. QED
    BY <2>1, <2>2 DEF ReleaseReturns
<1>2. QED
  BY <1>1, TypeCorrect, SoleHolders, PTL DEF Spec, SoleReleaseReleases

------------------------------------------------------------------------------
(* Mutual exclusion *)

\* lock() has had its "OK" and releaseLock is not called yet.
HasLock(t) == pc[t] \in {"put", "locked"}

\* For no name do two threads hold the lock, of whatever JVMs.
OneHolder == \A t, u \in Threads : HasLock(t) /\ HasLock(u) /\ key[t] = key[u] => t = u

\* Redis does not lose a key while a thread holds its lock: the time to live is longer than the
\* work done under the lock, and a restart keeps the key.
HeldLeasesLast ==
  \A k \in Keys :
    Expire(k) \/ (\E lost \in SUBSET Keys : k \in lost /\ RedisRestart(lost))
      => \A t \in Threads : HasLock(t) => key[t] # k

\* Who calls releaseLock without regard to what lock() returned, like main, is alone in its JVM.
CallersGuarded == \A t \in Threads \ CheckedCallers : SoleThread(t)

\* Redis holds the value of whoever holds a lock.
HoldersStored == \A t \in Threads : HasLock(t) => redis[key[t]] = Value(t)

\* A release works with a value its own thread drew, and a checked one will find no other.
FindsItsOwn(t) ==
  /\ t \in CheckedCallers /\ pc[t] = "locked" =>
       values[JvmOf[t]][key[t]] = NoValue \/ Owner(values[JvmOf[t]][key[t]]) = t
  /\ pc[t] \in {"load", "eval"} => Owner(found[t]) = t

FindsOwn == \A t \in Threads : FindsItsOwn(t)

\* Nothing but the end of the lease or the holder's release takes a lock away.
LEMMA StoredStep ==
  ASSUME TypeOK, HoldersStored, FindsOwn, [Next]_vars, [HeldLeasesLast]_vars
  PROVE  HoldersStored'
<1> SUFFICES ASSUME NEW s \in Threads, HasLock(s)'
             PROVE  redis'[key'[s]] = Value(s)'
  BY DEF HoldersStored
<1>a. HasLock(s) => redis[key[s]] = Value(s) /\ redis[key[s]] # NoValue
  BY ValueIsNotNull DEF HoldersStored
<1> USE DEF TypeOK, HasLock, Goto
<1>1. ASSUME NEW t \in Threads, NEW k \in Keys, CallLock(t, k)
      PROVE  redis'[key'[s]] = Value(s)'
  BY <1>1, <1>a DEF CallLock, Value
<1>2. ASSUME NEW t \in Threads, SetNx(t) \/ SetThrows(t)
      PROVE  redis'[key'[s]] = Value(s)'
  <2>1. Value(s)' = Value(s) /\ key' = key
    BY <1>2 DEF SetNx, SetThrows, Value
  <2>2. CASE t = s
    BY <1>2, <2>1, <2>2 DEF SetNx, SetThrows, SetNxEx
  <2>3. CASE t # s
    BY <1>2, <1>a, <2>1, <2>3 DEF SetNx, SetThrows, SetNxEx
  <2>4. QED
    BY <2>2, <2>3
<1>3. ASSUME NEW t \in Threads, Put(t) \/ CallRelease(t) \/ ScriptLoad(t) \/ LoadThrows(t) \/ Remove(t)
      PROVE  redis'[key'[s]] = Value(s)'
  BY <1>3, <1>a DEF Put, CallRelease, MayRelease, ScriptLoad, LoadThrows, Remove, Value
<1>4. ASSUME NEW t \in Threads, EvalSha(t) \/ EvalThrows(t)
      PROVE  redis'[key'[s]] = Value(s)'
  <2>1. Value(s)' = Value(s) /\ key' = key
    BY <1>4 DEF EvalSha, EvalThrows, Value
  <2>2. t # s /\ HasLock(s)
    BY <1>4 DEF EvalSha, EvalThrows
  <2>3. Owner(found[t]) = t /\ Owner(Value(s)) = s
    BY <1>4 DEF EvalSha, EvalThrows, FindsOwn, FindsItsOwn, Owner, Value
  <2>4. redis'[key[s]] = redis[key[s]]
    BY <1>4, <1>a, <2>2, <2>3 DEF EvalSha, EvalThrows, CompareAndDelete
  <2>5. QED
    BY <1>a, <2>1, <2>2, <2>4
<1>5. ASSUME NEW k \in Keys, Expire(k)
      PROVE  redis'[key'[s]] = Value(s)'
  <2>1. HasLock(s) /\ key' = key /\ Value(s)' = Value(s)
    BY <1>5 DEF Expire, Value
  <2>2. CASE HeldLeasesLast
    <3>1. key[s] # k
      BY <1>5, <2>1, <2>2 DEF HeldLeasesLast
    <3>2. QED
      BY <1>5, <1>a, <2>1, <3>1 DEF Expire
  <2>3. CASE UNCHANGED vars
    BY <1>a, <2>1, <2>3 DEF vars
  <2>4. QED
    BY <2>2, <2>3
<1>6. ASSUME NEW lost \in SUBSET Keys, RedisRestart(lost)
      PROVE  redis'[key'[s]] = Value(s)'
  <2>1. HasLock(s) /\ key' = key /\ Value(s)' = Value(s)
    BY <1>6 DEF RedisRestart, Value
  <2>2. CASE HeldLeasesLast
    <3>1. key[s] \notin lost
      BY <1>6, <2>1, <2>2 DEF HeldLeasesLast
    <3>2. QED
      BY <1>6, <1>a, <2>1, <3>1 DEF RedisRestart
  <2>3. CASE UNCHANGED vars
    BY <1>a, <2>1, <2>3 DEF vars
  <2>4. QED
    BY <2>2, <2>3
<1>7. ASSUME NEW j \in Jvms, JvmCrash(j)
      PROVE  redis'[key'[s]] = Value(s)'
  BY <1>7, <1>a DEF JvmCrash, Value
<1>8. CASE UNCHANGED vars
  BY <1>8, <1>a DEF vars, Value
<1>9. QED
  BY <1>1, <1>2, <1>3, <1>4, <1>5, <1>6, <1>7, <1>8 DEF Next, ThreadStep

\* While a thread holds a lock no other thread of its JVM puts a value under the lock's name.
LEMMA FindsStep ==
  ASSUME CallersGuarded, TypeOK, ValuesAreOwn, HoldersStored, FindsOwn, [Next]_vars
  PROVE  FindsOwn'
<1> DEFINE mine(t) == values[JvmOf[t]][key[t]]
<1>a. \A t \in Threads : JvmOf[t] \in Jvms /\ key[t] \in Keys /\ Value(t) # NoValue
  BY JvmAssumption, ValueIsNotNull DEF TypeOK
<1> SUFFICES ASSUME NEW s \in Threads
             PROVE  FindsItsOwn(s)'
  BY DEF FindsOwn
<1>b. FindsItsOwn(s)
  BY DEF FindsOwn
<1> USE <1>a, <1>b DEF TypeOK, Goto, FindsItsOwn
<1>1. ASSUME NEW t \in Threads, NEW k \in Keys, CallLock(t, k)
      PROVE  FindsItsOwn(s)'
  BY <1>1 DEF CallLock
<1>2. ASSUME NEW t \in Threads, SetNx(t) \/ SetThrows(t)
      PROVE  FindsItsOwn(s)'
  BY <1>2 DEF SetNx, SetThrows
<1>3. ASSUME NEW t \in Threads, Put(t)
      PROVE  FindsItsOwn(s)'
  <2>1. Owner(Value(t)) = t /\ Owner(Value(s)) = s
    BY DEF Owner, Value
  <2>2. pc[s] = "locked" /\ key[s] = key[t] => s = t
    BY <1>3, <2>1 DEF Put, HoldersStored, HasLock
  <2>3. CASE s = t
    BY <1>3, <2>1, <2>3 DEF Put
  <2>4. CASE s # t
    BY <1>3, <2>2, <2>4 DEF Put
  <2>5. QED
    BY <2>3, <2>4
<1>4. ASSUME NEW t \in Threads, CallRelease(t)
      PROVE  FindsItsOwn(s)'
  <2>1. CASE s # t
    BY <1>4, <2>1 DEF CallRelease
  <2>2. CASE s = t
    <3>1. pc'[s] # "locked" /\ found'[s] = mine(s)
          /\ (pc'[s] \in {"load", "eval"} => mine(s) # NoValue)
      BY <1>4, <2>2 DEF CallRelease
    <3>2. CASE s \in CheckedCallers
      <4>1. pc[s] = "locked"
        BY <1>4, <2>2, <3>2 DEF CallRelease, MayRelease
      <4>2. QED
        BY <3>1, <3>2, <4>1
    <3>3. CASE s \notin CheckedCallers
      <4>1. SoleThread(s)
        BY <3>3 DEF CallersGuarded
      <4>2. mine(s) # NoValue => JvmOf[Owner(mine(s))] = JvmOf[s] /\ Owner(mine(s)) \in Threads
        BY DEF ValuesAreOwn, Owner, Tokens
      <4>3. QED
        BY <3>1, <4>1, <4>2 DEF SoleThread
    <3>4. QED
      BY <3>2, <3>3
  <2>3. QED
    BY <2>1, <2>2
<1>5. ASSUME NEW t \in Threads, ScriptLoad(t) \/ LoadThrows(t) \/ EvalSha(t) \/ EvalThrows(t)
      PROVE  FindsItsOwn(s)'
  BY <1>5 DEF ScriptLoad, LoadThrows, EvalSha, EvalThrows
<1>6. ASSUME NEW t \in Threads, Remove(t)
      PROVE  FindsItsOwn(s)'
  BY <1>6 DEF Remove
<1>7. ASSUME NEW k \in Keys, Expire(k)
      PROVE  FindsItsOwn(s)'
  BY <1>7 DEF Expire
<1>8. ASSUME NEW lost \in SUBSET Keys, RedisRestart(lost)
      PROVE  FindsItsOwn(s)'
  BY <1>8 DEF RedisRestart
<1>9. ASSUME NEW j \in Jvms, JvmCrash(j)
      PROVE  FindsItsOwn(s)'
  BY <1>9 DEF JvmCrash
<1>10. CASE UNCHANGED vars
  BY <1>10 DEF vars
<1>11. QED
  BY <1>1, <1>2, <1>3, <1>4, <1>5, <1>6, <1>7, <1>8, <1>9, <1>10 DEF Next, ThreadStep

\* The lock excludes: over all JVMs no two threads hold it at a time, as long as redis keeps the
\* leases that are in use and no unchecked caller shares a JVM (lines 26-75; crashes, exceptions
\* and lost replies are all allowed).
THEOREM MutualExclusion ==
  CallersGuarded => (Spec /\ [][HeldLeasesLast]_vars => []OneHolder)
<1>1. SUFFICES ASSUME CallersGuarded
               PROVE  Spec /\ [][HeldLeasesLast]_vars => []OneHolder
  OBVIOUS
<1>2. Init => HoldersStored /\ FindsOwn
  BY DEF Init, HoldersStored, FindsOwn, FindsItsOwn, HasLock
<1>3. TypeOK /\ ValuesAreOwn /\ HoldersStored /\ FindsOwn /\ [Next]_vars /\ [HeldLeasesLast]_vars
        => HoldersStored' /\ FindsOwn'
  BY <1>1, StoredStep, FindsStep
<1>4. TypeOK /\ HoldersStored => OneHolder
  BY DEF HoldersStored, OneHolder, Value
<1>5. QED
  BY <1>2, <1>3, <1>4, TypeCorrect, OnlyOwnValues, PTL DEF Spec

------------------------------------------------------------------------------
(* No key stays for ever *)

\* Every key in redis has a time to live.
KeysExpire == volatile = {k \in Keys : redis[k] # NoValue}

LEMMA ExpiringStep == TypeOK /\ KeysExpire /\ [Next]_vars => KeysExpire'
<1> SUFFICES ASSUME TypeOK, KeysExpire, [Next]_vars
             PROVE  KeysExpire'
  OBVIOUS
<1> USE DEF TypeOK, KeysExpire
<1>1. ASSUME NEW t \in Threads, SetNx(t) \/ SetThrows(t)
      PROVE  KeysExpire'
  <2>1. Value(t) # NoValue
    BY ValueIsNotNull
  <2>2. QED
    BY <1>1, <2>1 DEF SetNx, SetThrows, SetNxEx
<1>2. ASSUME NEW t \in Threads, EvalSha(t) \/ EvalThrows(t)
      PROVE  KeysExpire'
  BY <1>2 DEF EvalSha, EvalThrows, CompareAndDelete
<1>3. ASSUME NEW t \in Threads,
             CallRelease(t) \/ Put(t) \/ ScriptLoad(t) \/ LoadThrows(t) \/ Remove(t)
      PROVE  KeysExpire'
  BY <1>3 DEF CallRelease, Put, ScriptLoad, LoadThrows, Remove
<1>4. ASSUME NEW t \in Threads, NEW k \in Keys, CallLock(t, k)
      PROVE  KeysExpire'
  BY <1>4 DEF CallLock
<1>5. ASSUME NEW k \in Keys, Expire(k)
      PROVE  KeysExpire'
  BY <1>5 DEF Expire
<1>6. ASSUME NEW lost \in SUBSET Keys, RedisRestart(lost)
      PROVE  KeysExpire'
  BY <1>6 DEF RedisRestart
<1>7. ASSUME NEW j \in Jvms, JvmCrash(j)
      PROVE  KeysExpire'
  BY <1>7 DEF JvmCrash
<1>8. CASE UNCHANGED vars
  BY <1>8 DEF vars
<1>9. QED
  BY <1>1, <1>2, <1>3, <1>4, <1>5, <1>6, <1>7, <1>8 DEF Next, ThreadStep

\* Whatever crash, exception or lost reply leaves a key behind, it has the time to live that line
\* 30 sets with it (the part of KeyEventuallyFree that needs no fairness).
THEOREM NoKeyStays == Spec => []KeysExpire
<1>1. Init => KeysExpire
  BY DEF Init, KeysExpire
<1>2. QED
  BY <1>1, ExpiringStep, TypeCorrect, PTL DEF Spec

------------------------------------------------------------------------------
\* What a thread has under way changes only where its program counter does.
LEMMA AskedKept ==
  ASSUME TypeOK, key' = key
  PROVE  \A u \in Threads : pc'[u] = pc[u] => Asked'[u] = Asked[u]
BY DEF Asked

\* A thread that leaves the SET or the script has nothing under way.
LEMMA AskedDone ==
  ASSUME TypeOK, NEW t \in Threads, NEW place \in {"idle", "put", "remove"},
         pc' = [pc EXCEPT ![t] = place], key' = key
  PROVE  Asked' = [Asked EXCEPT ![t] = Lease!Nothing]
<1>1. \A u \in Threads : u # t => Asked'[u] = Asked[u]
  BY AskedKept DEF TypeOK
<1>2. Asked'[t] = Lease!Nothing
  BY DEF TypeOK, Asked, Lease!Nothing
<1>3. /\ Asked = [u \in Threads |-> Asked[u]]
      /\ Asked' = [u \in Threads |-> Asked'[u]]
  BY Zenon DEF Asked
<1>4. [Asked EXCEPT ![t] = Lease!Nothing] = [u \in Threads |-> IF u = t THEN Lease!Nothing ELSE Asked[u]]
  BY <1>3
<1>5. QED
  BY <1>1, <1>2, <1>3, <1>4

\* A thread that begins a SET or a script has that under way.
LEMMA AskedBegun ==
  ASSUME TypeOK, NEW t \in Threads, NEW place \in {"set", "eval"},
         pc' = [pc EXCEPT ![t] = place], \A u \in Threads : u # t => key'[u] = key[u]
  PROVE  Asked' = [Asked EXCEPT ![t] = <<IF place = "set" THEN "lease" ELSE "end", key'[t]>>]
<1> DEFINE asks == <<IF place = "set" THEN "lease" ELSE "end", key'[t]>>
<1>1. \A u \in Threads : u # t => Asked'[u] = Asked[u]
  BY DEF TypeOK, Asked
<1>2. Asked'[t] = asks
  BY DEF TypeOK, Asked
<1> HIDE DEF asks
<1>3. /\ Asked = [u \in Threads |-> Asked[u]]
      /\ Asked' = [u \in Threads |-> Asked'[u]]
  BY Zenon DEF Asked
<1>4. [Asked EXCEPT ![t] = asks] = [u \in Threads |-> IF u = t THEN asks ELSE Asked[u]]
  BY <1>3
<1>5. Asked' = [Asked EXCEPT ![t] = asks]
  BY <1>1, <1>2, <1>3, <1>4
<1>6. QED
  BY <1>5 DEF asks

\* What one thread gives up is given up.
LEMMA VoidOne ==
  ASSUME NEW t \in Threads, Asked' = [Asked EXCEPT ![t] = Lease!Nothing],
         redis' = redis, serial' = serial
  PROVE  Lease!Next
<1>1. Asked = [u \in Threads |-> Asked[u]]
  BY Zenon DEF Asked
<1>2. Asked' = [h \in Threads |-> IF h \in {t} THEN Lease!Nothing ELSE Asked[h]]
  BY <1>1
<1>3. Lease!Void({t})
  BY <1>2 DEF Lease!Void
<1>4. QED
  BY <1>3 DEF Lease!Next

\* An answered, lost or failed SET is a grant of the lease asked for, or is given up.
LEMMA SetImplements ==
  ASSUME TypeOK, NEW t \in Threads, SetNx(t) \/ SetThrows(t)
  PROVE  Lease!Next
<1>1. /\ pc[t] = "set" /\ serial' = serial /\ key' = key
      /\ \E place \in {"idle", "put", "remove"} : pc' = [pc EXCEPT ![t] = place]
  BY DEF SetNx, SetThrows, Goto
<1>2. Asked' = [Asked EXCEPT ![t] = Lease!Nothing]
  BY <1>1, AskedDone
<1>3. CASE redis[key[t]] = NoValue /\ redis' = [redis EXCEPT ![key[t]] = Value(t)]
  <2>1. Asked[t] = <<"lease", key[t]>>
    BY <1>1 DEF Asked
  <2>2. Lease!Grant(t, key[t])
    BY <1>1, <1>2, <1>3, <2>1, Zenon DEF Lease!Grant, Value
  <2>3. key[t] \in Keys
    BY DEF TypeOK
  <2>4. QED
    BY <2>2, <2>3, Zenon DEF Lease!Next
<1>4. CASE redis' = redis
  BY <1>1, <1>2, <1>4, VoidOne
<1>5. QED
  BY <1>3, <1>4 DEF SetNx, SetThrows, SetNxEx

\* The script releases a lease of its own client, or what it was asked for is given up.
LEMMA EvalImplements ==
  ASSUME TypeOK, ValuesAreOwn, NEW t \in Threads, EvalSha(t) \/ EvalThrows(t)
  PROVE  Lease!Next
<1>1. /\ pc[t] = "eval" /\ serial' = serial /\ key' = key
      /\ \E place \in {"idle", "put", "remove"} : pc' = [pc EXCEPT ![t] = place]
  BY DEF EvalSha, EvalThrows, Goto
<1>2. Asked' = [Asked EXCEPT ![t] = Lease!Nothing]
  BY <1>1, AskedDone
<1>3. CASE redis[key[t]] = found[t] /\ redis' = [redis EXCEPT ![key[t]] = NoValue]
  <2>1. Asked[t] = <<"end", key[t]>>
    BY <1>1 DEF Asked
  <2>2. redis[key[t]] # NoValue /\ JvmOf[redis[key[t]][1]] = JvmOf[t]
    BY <1>1, <1>3 DEF ValuesAreOwn, Owner
  <2>3. Lease!Release(t, key[t])
    BY <1>1, <1>2, <1>3, <2>1, <2>2, Zenon DEF Lease!Release
  <2>4. key[t] \in Keys
    BY DEF TypeOK
  <2>5. QED
    BY <2>3, <2>4, Zenon DEF Lease!Next
<1>4. CASE redis' = redis
  BY <1>1, <1>2, <1>4, VoidOne
<1>5. QED
  BY <1>3, <1>4 DEF EvalSha, EvalThrows, CompareAndDelete

\* The call of lock() asks for the lease, the loaded script for its end.
LEMMA BeginImplements ==
  ASSUME TypeOK, NEW t \in Threads, (\E k \in Keys : CallLock(t, k)) \/ ScriptLoad(t)
  PROVE  Lease!Next
<1>1. ASSUME NEW k \in Keys, CallLock(t, k)
      PROVE  Lease!Next
  <2>1. Asked[t] = Lease!Nothing
    BY <1>1 DEF CallLock, Asked, Lease!Nothing
  <2>2. pc' = [pc EXCEPT ![t] = "set"] /\ key'[t] = k /\ \A u \in Threads : u # t => key'[u] = key[u]
    BY <1>1 DEF CallLock, Goto, TypeOK
  <2>3. Asked' = [Asked EXCEPT ![t] = <<"lease", k>>]
    BY <2>2, AskedBegun
  <2>4. Lease!Ask(t, k)
    BY <1>1, <2>1, <2>3 DEF CallLock, Lease!Ask
  <2>5. QED
    BY <2>4, Zenon DEF Lease!Next
<1>2. CASE ScriptLoad(t)
  <2>1. Asked[t] = Lease!Nothing
    BY <1>2 DEF ScriptLoad, Asked, Lease!Nothing
  <2>2. pc' = [pc EXCEPT ![t] = "eval"] /\ key' = key /\ key[t] \in Keys
    BY <1>2 DEF ScriptLoad, Goto, TypeOK
  <2>3. Asked' = [Asked EXCEPT ![t] = <<"end", key[t]>>]
    BY <2>2, AskedBegun
  <2>4. Lease!AskEnd(t, key[t])
    BY <1>2, <2>1, <2>3 DEF ScriptLoad, Lease!AskEnd
  <2>5. QED
    BY <2>2, <2>4, Zenon DEF Lease!Next
<1>3. QED
  BY <1>1, <1>2

\* Every other step of the code is a lapse, a request given up, or invisible.
LEMMA StepImplements ==
  TypeOK /\ ValuesAreOwn /\ [Next]_vars => [Lease!Next]_Lease!llvars
<1> SUFFICES ASSUME TypeOK, ValuesAreOwn, [Next]_vars
             PROVE  Lease!Next \/ UNCHANGED Lease!llvars
  OBVIOUS
<1>1. ASSUME NEW t \in Threads,
             CallRelease(t) \/ Put(t) \/ LoadThrows(t) \/ Remove(t)
      PROVE  UNCHANGED Lease!llvars
  <2>1. /\ pc[t] \notin {"set", "eval"}
        /\ \E place \in {"idle", "locked", "load"} : pc' = [pc EXCEPT ![t] = place]
        /\ key' = key /\ redis' = redis /\ serial' = serial
    BY <1>1 DEF CallRelease, MayRelease, Put, LoadThrows, Remove, Goto
  <2>2. Asked' = Asked
    BY <2>1 DEF TypeOK, Asked
  <2>3. QED
    BY <2>1, <2>2 DEF Lease!llvars
<1>2. ASSUME NEW k \in Keys, Expire(k)
      PROVE  Lease!Next
  <2>1. Asked' = Asked
    BY <1>2 DEF Expire, Asked
  <2>2. Lease!Lapse({k})
    BY <1>2, <2>1 DEF TypeOK, Expire, Lease!Lapse
  <2>3. QED
    BY <2>2 DEF Lease!Next
<1>3. ASSUME NEW lost \in SUBSET Keys, RedisRestart(lost)
      PROVE  Lease!Next
  <2>1. Asked' = Asked
    BY <1>3 DEF RedisRestart, Asked
  <2>2. Lease!Lapse(lost)
    BY <1>3, <2>1 DEF RedisRestart, Lease!Lapse
  <2>3. QED
    BY <2>2 DEF Lease!Next
<1>4. ASSUME NEW j \in Jvms, JvmCrash(j)
      PROVE  Lease!Next
  <2> DEFINE H == {t \in Threads : JvmOf[t] = j}
  <2>1. Asked' = [t \in Threads |-> IF t \in H THEN Lease!Nothing ELSE Asked[t]]
    BY <1>4 DEF JvmCrash, Asked, Lease!Nothing
  <2>2. Lease!Void(H)
    BY <1>4, <2>1 DEF JvmCrash, Lease!Void
  <2>3. H \in SUBSET Threads
    OBVIOUS
  <2> HIDE DEF H
  <2>4. QED
    BY <2>2, <2>3 DEF Lease!Next
<1>5. CASE UNCHANGED vars
  BY <1>5 DEF vars, Asked, Lease!llvars
<1>6. QED
  BY <1>1, <1>2, <1>3, <1>4, <1>5, SetImplements, EvalImplements, BeginImplements
     DEF Next, ThreadStep

\* DistributedLock implements LeaseLock: a lease is granted to who asks for a free key only, under
\* a token never used before, and ended by a call of its own JVM or by the server alone.
THEOREM ImplementsLease == Spec => LeaseSpec
<1>1. Init => Lease!Init
  BY DEF Init, Lease!Init, Asked, Lease!Nothing
<1>2. QED
  BY <1>1, StepImplements, TypeCorrect, OnlyOwnValues, PTL DEF Spec, LeaseSpec, Lease!Spec
================================================================================
