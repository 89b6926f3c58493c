---------------------------- MODULE DistributedLock ----------------------------
(***************************************************************************)
(* DistributedLock.java: a lock kept in redis with SET key value EX ex NX  *)
(* and released by a Lua compare-and-delete.  The threads of one JVM share  *)
(* the static map `values' from key to the value of the JVM's last          *)
(* successful lock().  Each step makes one access to redis or to the map;   *)
(* between two steps other threads run, the key may expire, redis may       *)
(* restart and a JVM may die.                                               *)
(***************************************************************************)
EXTENDS Naturals, FiniteSets

CONSTANTS
  Keys,            \* lock names
  Threads,         \* callers of lock and releaseLock, over all JVMs
  Jvms,            \* processes, each with its own static `values'
  JvmOf,           \* the JVM each thread runs in
  NoValue,         \* null in the map, no such key in redis
  MaxAttempts,     \* bound: calls of lock() per thread
  CheckedCallers   \* threads that call releaseLock only after lock returned true

ASSUME JvmAssumption == JvmOf \in [Threads -> Jvms]
ASSUME BoundAssumption == MaxAttempts \in Nat /\ CheckedCallers \subseteq Threads
ASSUME NoValueAssumption == NoValue \notin Threads \X Nat

VARIABLES
  redis,      \* redis[k]: the value stored under k, or NoValue
  volatile,   \* the keys redis holds with a time to live
  scripts,    \* TRUE when redis has the Lua script in its cache
  values,     \* values[j][k]: the static map of JVM j
  pc,         \* where each thread is
  key,        \* the key of the thread's current or last call
  serial,     \* number of UUIDs the thread has drawn
  found       \* `value' of releaseLock: what values.get returned

vars == <<redis, volatile, scripts, values, pc, key, serial, found>>

\* UUID.randomUUID never repeats: the n-th value drawn by thread t.
Tokens == Threads \X (0..MaxAttempts)
Value(t) == <<t, serial[t]>>

TypeOK ==
  /\ redis \in [Keys -> Tokens \cup {NoValue}]
  /\ volatile \in SUBSET Keys
  /\ scripts \in BOOLEAN
  /\ values \in [Jvms -> [Keys -> Tokens \cup {NoValue}]]
  /\ pc \in [Threads -> {"idle", "set", "put", "locked", "load", "eval", "remove"}]
  /\ key \in [Threads -> Keys]
  /\ serial \in [Threads -> 0..MaxAttempts]
  /\ found \in [Threads -> Tokens \cup {NoValue}]

Init ==
  /\ redis = [k \in Keys |-> NoValue]
  /\ volatile = {}
  /\ scripts = FALSE
  /\ values = [j \in Jvms |-> [k \in Keys |-> NoValue]]
  /\ pc = [t \in Threads |-> "idle"]
  /\ key \in [Threads -> Keys]
  /\ serial = [t \in Threads |-> 0]
  /\ found = [t \in Threads |-> NoValue]

Goto(t, place) == pc' = [pc EXCEPT ![t] = place]

------------------------------------------------------------------------------
(* lock(key, ex) *)

\* Fault: the value is drawn once per thread, not once per call.
CallLockReusingValue(t, k) ==
  /\ pc[t] = "idle"
  /\ serial[t] < MaxAttempts
  /\ serial' = [serial EXCEPT ![t] = 1]
  /\ key' = [key EXCEPT ![t] = k]
  /\ Goto(t, "set")
  /\ UNCHANGED <<redis, volatile, scripts, values, found>>

CallLock(t, k) ==
  /\ pc[t] = "idle"
  /\ serial[t] < MaxAttempts
  /\ serial' = [serial EXCEPT ![t] = @ + 1]
  /\ key' = [key EXCEPT ![t] = k]
  /\ Goto(t, "set")
  /\ UNCHANGED <<redis, volatile, scripts, values, found>>

\* Fault: SETNX, no time to live.
SetNxOnly(k, v) ==
  /\ redis' = IF redis[k] = NoValue THEN [redis EXCEPT ![k] = v] ELSE redis
  /\ UNCHANGED volatile

\* What redis does with SET k v EX ex NX.
SetNxEx(k, v) ==
  IF redis[k] = NoValue
  THEN /\ redis' = [redis EXCEPT ![k] = v]
       /\ volatile' = volatile \cup {k}
  ELSE UNCHANGED <<redis, volatile>>

\* The reply arrives: "OK" leads to values.put, null to `return false'.
SetNx(t) ==
  /\ pc[t] = "set"
  /\ SetNxEx(key[t], Value(t))
  /\ Goto(t, IF redis[key[t]] = NoValue THEN "put" ELSE "idle")
  /\ UNCHANGED <<scripts, values, key, serial, found>>

\* getResource or set throws: redis never saw the command, or only its reply
\* is lost.  try-with-resources closes the connection, the exception leaves.
SetThrows(t) ==
  /\ pc[t] = "set"
  /\ SetNxEx(key[t], Value(t)) \/ UNCHANGED <<redis, volatile>>
  /\ Goto(t, "idle")
  /\ UNCHANGED <<scripts, values, key, serial, found>>

\* Fault: values.put(key, key).
PutKey(t) ==
  /\ pc[t] = "put"
  /\ values' = [values EXCEPT ![JvmOf[t]][key[t]] = key[t]]
  /\ Goto(t, "locked")
  /\ UNCHANGED <<redis, volatile, scripts, key, serial, found>>

\* Fault: values.putIfAbsent(key, value).
PutIfAbsent(t) ==
  /\ pc[t] = "put"
  /\ values' = [values EXCEPT ![JvmOf[t]][key[t]] = IF @ = NoValue THEN Value(t) ELSE @]
  /\ Goto(t, "locked")
  /\ UNCHANGED <<redis, volatile, scripts, key, serial, found>>

\* values.put(key, value); return true
Put(t) ==
  /\ pc[t] = "put"
  /\ values' = [values EXCEPT ![JvmOf[t]][key[t]] = Value(t)]
  /\ Goto(t, "locked")
  /\ UNCHANGED <<redis, volatile, scripts, key, serial, found>>

------------------------------------------------------------------------------
(* releaseLock(key) *)

\* main calls releaseLock whether or not lock returned true.
MayRelease(t) ==
  pc[t] = "locked" \/ (t \notin CheckedCallers /\ pc[t] = "idle" /\ serial[t] > 0)

\* Fault: the result of values.get(key) is not compared with null.
CallReleaseUnchecked(t) ==
  /\ MayRelease(t)
  /\ found' = [found EXCEPT ![t] = values[JvmOf[t]][key[t]]]
  /\ Goto(t, "load")
  /\ UNCHANGED <<redis, volatile, scripts, values, key, serial>>

\* values.get(key): null ends the call.
CallRelease(t) ==
  LET value == values[JvmOf[t]][key[t]]
  IN  /\ MayRelease(t)
      /\ found' = [found EXCEPT ![t] = value]
      /\ Goto(t, IF value = NoValue THEN "idle" ELSE "load")
      /\ UNCHANGED <<redis, volatile, scripts, values, key, serial>>

\* jedis.scriptLoad(lua)
ScriptLoad(t) ==
  /\ pc[t] = "load"
  /\ scripts' = TRUE
  /\ Goto(t, "eval")
  /\ UNCHANGED <<redis, volatile, values, key, serial, found>>

\* getResource or scriptLoad throws: the map keeps its entry.
LoadThrows(t) ==
  /\ pc[t] = "load"
  /\ Goto(t, "idle")
  /\ UNCHANGED <<redis, volatile, scripts, values, key, serial, found>>

\* Fault: DEL without the comparison.
DeleteAlways(k, v) ==
  /\ redis' = [redis EXCEPT ![k] = NoValue]
  /\ volatile' = volatile \ {k}

\* The Lua script: delete the key if it still holds v.
CompareAndDelete(k, v) ==
  IF redis[k] = v
  THEN /\ redis' = [redis EXCEPT ![k] = NoValue]
       /\ volatile' = volatile \ {k}
  ELSE UNCHANGED <<redis, volatile>>

EvalSha(t) ==
  /\ pc[t] = "eval"
  /\ scripts
  /\ CompareAndDelete(key[t], found[t])
  /\ Goto(t, "remove")
  /\ UNCHANGED <<scripts, values, key, serial, found>>

\* Fault: the exception of evalsha is swallowed and values.remove runs.
EvalThrowsSwallowed(t) ==
  /\ pc[t] = "eval"
  /\ (scripts /\ CompareAndDelete(key[t], found[t])) \/ UNCHANGED <<redis, volatile>>
  /\ Goto(t, "remove")
  /\ UNCHANGED <<scripts, values, key, serial, found>>

\* NOSCRIPT, no connection, or a reply that is lost: values.remove is skipped.
EvalThrows(t) ==
  /\ pc[t] = "eval"
  /\ (scripts /\ CompareAndDelete(key[t], found[t])) \/ UNCHANGED <<redis, volatile>>
  /\ Goto(t, "idle")
  /\ UNCHANGED <<scripts, values, key, serial, found>>

\* values.remove(key), whatever value the map holds by now
Remove(t) ==
  /\ pc[t] = "remove"
  /\ values' = [values EXCEPT ![JvmOf[t]][key[t]] = NoValue]
  /\ Goto(t, "idle")
  /\ UNCHANGED <<redis, volatile, scripts, key, serial, found>>

------------------------------------------------------------------------------
(* The server and the processes *)

\* The ex seconds of a key are over; nothing tells the thread that holds it.
Expire(k) ==
  /\ k \in volatile
  /\ redis' = [redis EXCEPT ![k] = NoValue]
  /\ volatile' = volatile \ {k}
  /\ UNCHANGED <<scripts, values, pc, key, serial, found>>

\* Redis restarts without its script cache and without the keys in lost.
RedisRestart(lost) ==
  /\ redis' = [k \in Keys |-> IF k \in lost THEN NoValue ELSE redis[k]]
  /\ volatile' = volatile \ lost
  /\ scripts' = FALSE
  /\ UNCHANGED <<values, pc, key, serial, found>>

\* JVM j dies and is started again: its threads and its map are new.
JvmCrash(j) ==
  /\ values' = [values EXCEPT ![j] = [k \in Keys |-> NoValue]]
  /\ pc' = [t \in Threads |-> IF JvmOf[t] = j THEN "idle" ELSE pc[t]]
  /\ UNCHANGED <<redis, volatile, scripts, key, serial, found>>

------------------------------------------------------------------------------
\* What the thread itself does once it is inside lock() or releaseLock().
ThreadStep(t) ==
  \/ SetNx(t) \/ SetThrows(t) \/ Put(t)
  \/ ScriptLoad(t) \/ LoadThrows(t) \/ EvalSha(t) \/ EvalThrows(t) \/ Remove(t)

Next ==
  \/ \E t \in Threads :
       \/ \E k \in Keys : CallLock(t, k)
       \/ CallRelease(t)
       \/ ThreadStep(t)
  \/ \E k \in Keys : Expire(k)
  \/ \E lost \in SUBSET Keys : RedisRestart(lost)
  \/ \E j \in Jvms : JvmCrash(j)

Spec == Init /\ [][Next]_vars

\* Redis expires its volatile keys.  Nothing obliges a thread to call or to go on.
Fairness == \A k \in Keys : WF_vars(Expire(k))

FairSpec == Spec /\ Fairness

------------------------------------------------------------------------------
(* Properties *)

Owner(v) == v[1]

SoleThread(t) == \A u \in Threads : JvmOf[u] = JvmOf[t] => u = t

\* A release in progress never works with, and the map never hands out, a value
\* drawn in another JVM: the compare in the Lua script is made with a value this
\* JVM obtained itself (lines 32, 54 and 63).
ValuesAreOwn ==
  /\ \A j \in Jvms, k \in Keys :
       values[j][k] # NoValue => JvmOf[Owner(values[j][k])] = j
  /\ \A t \in Threads :
       pc[t] \in {"load", "eval"} =>
         /\ found[t] # NoValue
         /\ JvmOf[Owner(found[t])] = JvmOf[t]

\* Every value redis holds was drawn by a call of lock() that has sent its SET,
\* and no two keys hold the same value: what makes the compare meaningful.
ValuesAreFresh ==
  /\ \A k \in Keys : redis[k] # NoValue =>
       LET t == Owner(redis[k]) IN
         /\ redis[k][2] <= serial[t]
         /\ pc[t] = "set" => redis[k][2] < serial[t]
  /\ \A k, l \in Keys : redis[k] = redis[l] /\ redis[k] # NoValue => k = l

\* The script of thread t deletes the key (the reply may be lost).
Deletes(t) ==
  /\ pc[t] = "eval" /\ pc'[t] # "eval"
  /\ redis[key[t]] # NoValue /\ redis'[key[t]] = NoValue

\* releaseLock never takes away a lock that a thread of another JVM holds, however
\* late it runs: a lease lost to its time to live and granted to another JVM is
\* left alone (the compare-and-delete of lines 58-63).
NoForeignRelease ==
  [][\A t \in Threads :
       Deletes(t) => JvmOf[Owner(redis[key[t]])] = JvmOf[t]]_vars

\* In a JVM with one thread, a release made only after lock() returned true deletes
\* just what that thread's last lock() stored.  (With more threads it need not:
\* `values' is keyed by the lock's name alone.)
SoleThreadReleasesOwn ==
  [][\A t \in CheckedCallers :
       SoleThread(t) /\ Deletes(t) => redis[key[t]] = Value(t)]_vars

\* The map holds t's value while t holds the lock, and a checked release works with
\* that value until redis no longer has it.
KnowsOwnValue(t) ==
  /\ pc[t] = "locked" => values[JvmOf[t]][key[t]] = Value(t)
  /\ t \in CheckedCallers =>
       /\ pc[t] \in {"load", "eval"} => found[t] = Value(t)
       /\ pc[t] = "remove" => redis[key[t]] # Value(t)

\* In a JVM with one thread a holder always finds what it needs to release its
\* lock, and a release never works with anything else (lines 32, 54, 63, 65).
SoleHolderCanRelease ==
  \A t \in Threads : SoleThread(t) => KnowsOwnValue(t)

\* t's releaseLock, called while t holds the lock, returns normally.
ReleaseReturns(t) == (pc[t] = "locked" /\ CallRelease(t) /\ pc'[t] = "idle") \/ Remove(t)

\* "释放分布式锁" (line 49): when releaseLock returns, the lock its caller
\* obtained is no longer in redis.
ReleaseLockReleases ==
  [][\A t \in CheckedCallers : ReleaseReturns(t) => redis'[key[t]] # Value(t)]_vars

\* The same where the JVM has one thread.
SoleReleaseReleases ==
  [][\A t \in CheckedCallers :
       SoleThread(t) /\ ReleaseReturns(t) => redis'[key[t]] # Value(t)]_vars

\* No lock is lost for good: whatever crash, exception or lost reply leaves a key
\* behind, its time to live, set by the same command (line 30), frees it.
KeyEventuallyFree == \A k \in Keys : []<>(redis[k] = NoValue)

\* What each thread has under way at the server: a SET or the script, each on its key.
Asked ==
  [t \in Threads |->
     CASE pc[t] = "set" -> <<"lease", key[t]>>
       [] pc[t] = "eval" -> <<"end", key[t]>>
       [] OTHER -> <<>>]

Lease == INSTANCE LeaseLock
  WITH Holders <- Threads, Clients <- Jvms, ClientOf <- JvmOf, NoLease <- NoValue,
       lease <- redis, last <- serial, asked <- Asked

\* DistributedLock implements LeaseLock: whatever threads, expiry, restarts, crashes and lost
\* replies do between two steps, a lock is taken only from nobody, under a value of its own, and
\* given back only by a call of its own JVM (lines 27-68).
LeaseSpec == Lease!Spec
================================================================================
