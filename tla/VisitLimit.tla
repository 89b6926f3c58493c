------------------------------ MODULE VisitLimit ------------------------------
(***************************************************************************)
(* JedisTest.testVisitLimit: a visit limit kept as a redis counter that     *)
(* lives 60 seconds.  A call reads the counter (GET), decides, and then     *)
(* either creates it (SETEX) or increments it (INCR); the read and the write *)
(* are two commands, so other callers and the end of the 60 seconds come    *)
(* between them.                                                            *)
(***************************************************************************)
EXTENDS Naturals, FiniteSets

CONSTANTS
  Clients,   \* concurrent callers of testVisitLimit for one key
  Max        \* the argument `max'

ASSUME ClientsAssumption == IsFiniteSet(Clients)
ASSUME MaxAssumption == Max \in Nat \ {0}

VARIABLES
  count,     \* the counter in redis, 0 when there is no such key
  ttl,       \* TRUE when the key has a time to live
  pc,        \* which command each caller sends next
  refused,   \* the callers whose last call returned false
  made       \* ghost: visits counted since the key was last absent

vars == <<count, ttl, pc, refused, made>>

TypeOK ==
  /\ count \in Nat
  /\ ttl \in BOOLEAN
  /\ pc \in [Clients -> {"get", "incr", "setex"}]
  /\ refused \in SUBSET Clients
  /\ made \in Nat

Init ==
  /\ count = 0
  /\ ttl = FALSE
  /\ pc = [c \in Clients |-> "get"]
  /\ refused = {}
  /\ made = 0

Goto(c, command) == pc' = [pc EXCEPT ![c] = command]

\* jedis.get(max_key) and the two tests on its reply
GetAbsent(c) ==
  /\ pc[c] = "get"
  /\ count = 0
  /\ Goto(c, "setex")
  /\ refused' = refused \ {c}
  /\ UNCHANGED <<count, ttl, made>>

\* Fault: the limit compared with <=.
GetBelowOrAt(c) ==
  /\ pc[c] = "get"
  /\ count > 0
  /\ count <= Max
  /\ Goto(c, "incr")
  /\ refused' = refused \ {c}
  /\ UNCHANGED <<count, ttl, made>>

GetBelow(c) ==
  /\ pc[c] = "get"
  /\ count > 0
  /\ count < Max
  /\ Goto(c, "incr")
  /\ refused' = refused \ {c}
  /\ UNCHANGED <<count, ttl, made>>

\* Fault: the last visit allowed is refused.
RefuseEarly(c) ==
  /\ pc[c] = "get"
  /\ count >= Max - 1
  /\ refused' = refused \cup {c}
  /\ UNCHANGED <<count, ttl, pc, made>>

\* "已经超过最大的访问次数": return false
Refuse(c) ==
  /\ pc[c] = "get"
  /\ count >= Max
  /\ refused' = refused \cup {c}
  /\ UNCHANGED <<count, ttl, pc, made>>

\* Fault: DECR sent for INCR.
DecrCommand ==
  /\ count' = count - 1
  /\ made' = made + 1
  /\ UNCHANGED ttl

\* What INCR and SETEX max_key 60 "1" do in redis.  INCR of a missing key creates
\* it with the value 1 and no time to live.
IncrCommand ==
  /\ count' = count + 1
  /\ made' = made + 1
  /\ UNCHANGED ttl

SetExCommand ==
  /\ count' = 1
  /\ made' = made + 1
  /\ ttl' = TRUE

\* The command is answered and the call returns true.
Incr(c) ==
  /\ pc[c] = "incr"
  /\ IncrCommand
  /\ Goto(c, "get")
  /\ UNCHANGED refused

SetEx(c) ==
  /\ pc[c] = "setex"
  /\ SetExCommand
  /\ Goto(c, "get")
  /\ UNCHANGED refused

\* The command or its reply is lost: the call ends with an exception.
Throws(c) ==
  /\ \/ pc[c] = "incr" /\ IncrCommand
     \/ pc[c] = "setex" /\ SetExCommand
     \/ pc[c] # "get" /\ UNCHANGED <<count, ttl, made>>
  /\ Goto(c, "get")
  /\ UNCHANGED refused

\* The 60 seconds of the key are over.
Expire ==
  /\ ttl
  /\ count' = 0
  /\ ttl' = FALSE
  /\ made' = 0
  /\ UNCHANGED <<pc, refused>>

Call(c) == GetAbsent(c) \/ GetBelow(c) \/ Refuse(c) \/ Incr(c) \/ SetEx(c) \/ Throws(c)

Next == Expire \/ \E c \in Clients : Call(c)

Spec == Init /\ [][Next]_vars

\* A started call ends: every command is answered or times out.  Redis expires keys.
Fairness ==
  /\ WF_vars(Expire)
  /\ \A c \in Clients : WF_vars(Incr(c) \/ SetEx(c) \/ Throws(c))

FairSpec == Spec /\ Fairness

------------------------------------------------------------------------------
(* Properties *)

\* Callers between the read and the write of one call, and those of them that found
\* no key and are about to create it.
Busy == {c \in Clients : pc[c] # "get"}
Creating == {c \in Clients : pc[c] = "setex"}

\* The counter passes the limit by at most one visit for every further caller: each
\* of them may hold a reply that was below the limit when it was read (lines 69-73).
OvershootBounded == count + Cardinality(Busy) <= Max + Cardinality(Clients) - 1

\* A caller is refused only when Max visits were counted since the key last expired,
\* however the reads, increments, resets and exceptions interleave.
RefusedOnlyAtLimit ==
  [][\A c \in Clients : c \in refused' \ refused => made >= Max]_vars

\* How far one life of the key can be overrun: every caller that found no key and
\* sends its SETEX late starts the count again (lines 69 and 82), and at each start
\* the callers not waiting to do so may overshoot by one.  The bound is reached.
MadeBounded ==
  LET n == Cardinality(Clients) IN made <= n * Max + (n * (n - 1)) \div 2

\* "实现访问频率限制" (line 65), over 60 seconds (line 82): a limit on frequency that
\* was reached is lifted again once the visits are old.
LimitIsLifted == []<>(count < Max)
================================================================================
