--------------------------- MODULE VisitLimitProofs ---------------------------
(***************************************************************************)
(* Theorems about VisitLimit for any finite set of callers and any limit.   *)
(***************************************************************************)
EXTENDS VisitLimit, Integers, FiniteSetTheorems, TLAPS

\* Every variable keeps its type.
THEOREM TypeCorrect == Spec => []TypeOK
<1> USE MaxAssumption DEF TypeOK
<1>1. Init => TypeOK
  <2> SUFFICES ASSUME Init
               PROVE  TypeOK
    OBVIOUS
  <2>1. count \in Nat /\ made \in Nat /\ refused \in SUBSET Clients
    BY DEF Init
  <2>2. ttl \in BOOLEAN
    BY Zenon DEF Init
  <2>3. pc \in [Clients -> {"get", "incr", "setex"}]
    BY DEF Init
  <2>4. QED
    BY <2>1, <2>2, <2>3
<1>2. TypeOK /\ [Next]_vars => TypeOK'
  <2> SUFFICES ASSUME TypeOK, [Next]_vars
               PROVE  TypeOK'
    OBVIOUS
  <2> USE DEF Goto, IncrCommand, SetExCommand
  <2>1. ASSUME NEW c \in Clients, Call(c)
        PROVE  TypeOK'
    <3>1. CASE GetAbsent(c) \/ GetBelow(c) \/ Refuse(c)
      BY <3>1 DEF GetAbsent, GetBelow, Refuse
    <3>2. CASE Incr(c) \/ SetEx(c) \/ Throws(c)
      <4>1. count' \in Nat /\ made' \in Nat /\ refused' \in SUBSET Clients
        BY <3>2 DEF Incr, SetEx, Throws
      <4>2. ttl' = TRUE \/ ttl' = ttl
        BY <3>2, Zenon DEF Incr, SetEx, Throws
      <4>3. ttl' \in BOOLEAN
        BY <4>2, Zenon
      <4>4. pc' \in [Clients -> {"get", "incr", "setex"}]
        BY <3>2 DEF Incr, SetEx, Throws
      <4>5. QED
        BY <4>1, <4>3, <4>4
    <3>4. QED
      BY <2>1, <3>1, <3>2 DEF Call
  <2>2. CASE Expire
    BY <2>2 DEF Expire
  <2>3. CASE UNCHANGED vars
    BY <2>3 DEF vars
  <2>4. QED
    BY <2>1, <2>2, <2>3 DEF Next
<1>3. QED
  BY <1>1, <1>2, PTL DEF Spec

\* How many callers are between read and write, and how many of them will create the key.
LEMMA BusyFinite ==
  /\ IsFiniteSet(Busy) /\ IsFiniteSet(Creating)
  /\ Cardinality(Busy) \in Nat /\ Cardinality(Creating) \in Nat
  /\ Cardinality(Clients) \in Nat
  /\ Cardinality(Creating) <= Cardinality(Busy)
  /\ Cardinality(Busy) <= Cardinality(Clients)
<1>1. Busy \subseteq Clients /\ Creating \subseteq Busy
  BY DEF Busy, Creating
<1>2. QED
  BY <1>1, ClientsAssumption, FS_Subset, FS_CardinalityType

\* A caller that is at rest leaves room for one more.
LEMMA NotAllBusy ==
  ASSUME NEW c \in Clients, pc[c] = "get"
  PROVE  Cardinality(Busy) <= Cardinality(Clients) - 1
<1>1. Busy \subseteq Clients \ {c}
  BY DEF Busy
<1>2. Cardinality(Clients \ {c}) = Cardinality(Clients) - 1 /\ IsFiniteSet(Clients \ {c})
  BY ClientsAssumption, FS_RemoveElement
<1>3. QED
  BY <1>1, <1>2, FS_Subset

\* A call that starts adds its caller to those sets ...
LEMMA CallStarts ==
  ASSUME TypeOK, NEW c \in Clients, pc[c] = "get",
         NEW command \in {"incr", "setex"}, Goto(c, command)
  PROVE  /\ Cardinality(Busy') = Cardinality(Busy) + 1
         /\ command = "incr" => Creating' = Creating
         /\ command = "setex" => Cardinality(Creating') = Cardinality(Creating) + 1
<1> USE DEF TypeOK, Goto, Busy, Creating
<1>1. Busy' = Busy \cup {c} /\ c \notin Busy
  OBVIOUS
<1>2. command = "incr" => Creating' = Creating
  OBVIOUS
<1>3. command = "setex" => Creating' = Creating \cup {c} /\ c \notin Creating
  OBVIOUS
<1>4. QED
  BY <1>1, <1>2, <1>3, BusyFinite, FS_AddElement

\* ... and a call that ends takes it out.
LEMMA CallEnds ==
  ASSUME TypeOK, NEW c \in Clients, pc[c] # "get", Goto(c, "get")
  PROVE  /\ Cardinality(Busy') = Cardinality(Busy) - 1
         /\ pc[c] = "incr" => Creating' = Creating
         /\ pc[c] = "setex" => Cardinality(Creating') = Cardinality(Creating) - 1
<1> USE DEF TypeOK, Goto, Busy, Creating
<1>1. Busy' = Busy \ {c} /\ c \in Busy
  OBVIOUS
<1>2. pc[c] = "incr" => Creating' = Creating
  OBVIOUS
<1>3. pc[c] = "setex" => Creating' = Creating \ {c} /\ c \in Creating
  OBVIOUS
<1>4. Cardinality(Busy \ {c}) = Cardinality(Busy) - 1
  BY <1>1, BusyFinite, FS_RemoveElement
<1>5. c \in Creating => Cardinality(Creating \ {c}) = Cardinality(Creating) - 1
  BY BusyFinite, FS_RemoveElement
<1>6. QED
  BY <1>1, <1>2, <1>3, <1>4, <1>5

\* One step of a call, in the terms the counting needs.
LEMMA CallEffect ==
  ASSUME TypeOK, NEW c \in Clients, Call(c)
  PROVE  \/ /\ pc[c] = "get" /\ Goto(c, "setex")
            /\ count = 0 /\ count' = count /\ made' = made
         \/ /\ pc[c] = "get" /\ Goto(c, "incr")
            /\ 0 < count /\ count < Max /\ count' = count /\ made' = made
         \/ pc' = pc /\ count' = count /\ made' = made
         \/ /\ pc[c] # "get" /\ Goto(c, "get")
            /\ count' = count /\ made' = made
         \/ /\ pc[c] = "incr" /\ Goto(c, "get")
            /\ count' = count + 1 /\ made' = made + 1
         \/ /\ pc[c] = "setex" /\ Goto(c, "get")
            /\ count' = 1 /\ made' = made + 1
BY DEF Call, GetAbsent, GetBelow, Refuse, Incr, SetEx, Throws, IncrCommand, SetExCommand

\* The counter and the callers about to write it never exceed the limit by more
\* than one visit per further caller.
THEOREM Overshoot == Clients # {} => (Spec => []OvershootBounded)
<1> SUFFICES ASSUME Clients # {}
             PROVE  Spec => []OvershootBounded
  OBVIOUS
<1> USE MaxAssumption, BusyFinite
<1>1. Init => OvershootBounded
  <2> SUFFICES ASSUME Init
               PROVE  OvershootBounded
    OBVIOUS
  <2>1. Busy = {}
    BY DEF Init, Busy
  <2>2. Cardinality(Clients) # 0
    BY ClientsAssumption, FS_EmptySet
  <2>3. QED
    BY <2>1, <2>2, FS_EmptySet DEF Init, OvershootBounded
<1>2. TypeOK /\ OvershootBounded /\ [Next]_vars => OvershootBounded'
  <2> SUFFICES ASSUME TypeOK, OvershootBounded, [Next]_vars
               PROVE  OvershootBounded'
    OBVIOUS
  <2> USE DEF OvershootBounded
  <2>0. count \in Nat
    BY DEF TypeOK
  <2>1. ASSUME NEW c \in Clients, Call(c)
        PROVE  OvershootBounded'
    <3>1. CASE pc[c] = "get" /\ pc' # pc
      <4>1. Cardinality(Busy) <= Cardinality(Clients) - 1
        BY <3>1, NotAllBusy
      <4>2. Cardinality(Busy') = Cardinality(Busy) + 1 /\ count' = count /\ count < Max
        BY <2>1, <3>1, CallEffect, CallStarts
      <4>3. QED
        BY <2>0, <4>1, <4>2
    <3>2. CASE pc' = pc
      <4>1. Busy' = Busy
        BY <3>2 DEF Busy
      <4>2. count' = count
        BY <2>1, <3>2, CallEffect DEF Goto, TypeOK
      <4>3. QED
        BY <2>0, <4>1, <4>2
    <3>3. CASE pc[c] # "get" /\ pc' # pc
      <4>1. Cardinality(Busy') = Cardinality(Busy) - 1
        BY <2>1, <3>3, CallEffect, CallEnds
      <4>2. count' = count \/ count' = count + 1 \/ count' = 1
        BY <2>1, CallEffect
      <4>3. QED
        BY <2>0, <4>1, <4>2
    <3>4. QED
      BY <3>1, <3>2, <3>3
  <2>2. CASE Expire
    BY <2>0, <2>2 DEF Expire, Busy
  <2>3. CASE UNCHANGED vars
    BY <2>3 DEF vars, Busy
  <2>4. QED
    BY <2>1, <2>2, <2>3 DEF Next
<1>3. QED
  BY <1>1, <1>2, TypeCorrect, PTL DEF Spec

------------------------------------------------------------------------------
(* How far one life of the key can be overrun.  When m + 1 callers are not *)
(* about to create the key, m creations can have been overwritten: the     *)
(* first after Max visits, the next after Max + 1 and so on.               *)

Others == Cardinality(Clients) - 1 - Cardinality(Creating)

\* Twice the visits lost to m overwritten counters: 2 (m Max + m (m - 1) / 2).
TwiceWaste(m) == 2 * m * Max + m * (m - 1)

WasteBounded ==
  /\ count = 0 => made = 0
  /\ count > 0 => /\ Others >= 0
                  /\ count <= made
                  /\ 2 * (made - count) <= TwiceWaste(Others)

LEMMA WasteGrows ==
  \A m \in Nat : /\ TwiceWaste(m + 1) = TwiceWaste(m) + 2 * (Max + m)
                 /\ TwiceWaste(m) \in Nat
<1> USE MaxAssumption
<1> SUFFICES ASSUME NEW m \in Nat
             PROVE  /\ TwiceWaste(m + 1) = TwiceWaste(m) + 2 * (Max + m)
                    /\ TwiceWaste(m) \in Nat
  OBVIOUS
<1>1. 2 * (m + 1) * Max = 2 * m * Max + 2 * Max
  OBVIOUS
<1>2. (m + 1) * ((m + 1) - 1) = m * (m - 1) + 2 * m
  OBVIOUS
<1>3. m * (m - 1) >= 0 /\ m * Max >= 0
  OBVIOUS
<1>4. m * Max \in Nat /\ m * (m - 1) \in Nat /\ 2 * m * Max = 2 * (m * Max)
  BY <1>3
<1>5. QED
  BY <1>1, <1>2, <1>4 DEF TwiceWaste

LEMMA WasteMonotone ==
  \A m, n \in Nat : m <= n => TwiceWaste(m) <= TwiceWaste(n)
<1> USE MaxAssumption
<1> SUFFICES ASSUME NEW m \in Nat, NEW n \in Nat, m <= n
             PROVE  TwiceWaste(m) <= TwiceWaste(n)
  OBVIOUS
<1> DEFINE d == n - m
<1>1. d \in Nat /\ n = m + d
  OBVIOUS
<1>2. 2 * n * Max = 2 * m * Max + 2 * (d * Max)
  BY <1>1
<1>3. n * (n - 1) = m * (m - 1) + 2 * (m * d) + d * (d - 1)
  BY <1>1
<1>4. d * Max >= 0 /\ m * d >= 0 /\ d * (d - 1) >= 0
  BY <1>1
<1>5. QED
  BY <1>1, <1>2, <1>3, <1>4 DEF TwiceWaste

\* The invariant: what a late SETEX overwrites is at most Max + Others visits.
LEMMA WasteStep ==
  TypeOK /\ OvershootBounded /\ WasteBounded /\ [Next]_vars => WasteBounded'
<1> SUFFICES ASSUME TypeOK, OvershootBounded, WasteBounded, [Next]_vars
             PROVE  WasteBounded'
  OBVIOUS
<1> USE MaxAssumption, BusyFinite
<1>0. count \in Nat /\ made \in Nat
  BY DEF TypeOK
<1>a. count <= Max + Others /\ Others \in Int
  BY <1>0 DEF OvershootBounded, Others
<1>1. ASSUME NEW c \in Clients, Call(c)
      PROVE  WasteBounded'
  <2>1. CASE count' = count /\ made' = made /\ Creating' = Creating
    BY <2>1 DEF WasteBounded, Others, TwiceWaste
  <2>2. CASE pc[c] = "get" /\ count = 0 /\ count' = count /\ made' = made
    BY <2>2, <1>0 DEF WasteBounded
  <2>3. CASE pc[c] = "setex" /\ Goto(c, "get")
    <3>1. Cardinality(Creating') = Cardinality(Creating) - 1
      BY <2>3, CallEnds
    <3>2. Others' = Others + 1 /\ Others' \in Nat
      BY <3>1 DEF Others
    <3>3. CASE count = 0
      <4>1. (count' = 0 /\ made' = 0) \/ (count' = 1 /\ made' = 1)
        BY <1>0, <1>1, <2>3, <3>3, CallEffect DEF WasteBounded
      <4>2. TwiceWaste(Others') \in Nat
        BY <3>2, WasteGrows
      <4>3. QED
        BY <3>2, <4>1, <4>2 DEF WasteBounded, TwiceWaste
    <3>4. CASE count > 0
      <4>1. Others \in Nat
        BY <1>a, <3>4 DEF WasteBounded
      <4>2. TwiceWaste(Others') = TwiceWaste(Others) + 2 * (Max + Others)
        BY <3>2, <4>1, WasteGrows
      <4>3. TwiceWaste(Others) \in Nat
        BY <4>1, WasteGrows
      <4>4. 2 * (made - count) <= TwiceWaste(Others) /\ count <= made
        BY <3>4 DEF WasteBounded
      <4>5. (count' = count /\ made' = made) \/ (count' = 1 /\ made' = made + 1)
        BY <1>1, <2>3, CallEffect
      <4>6. 2 * (made' - count') <= TwiceWaste(Others')
        BY <1>0, <1>a, <4>1, <4>2, <4>3, <4>4, <4>5
      <4>7. count' > 0 /\ count' <= made'
        BY <1>0, <3>4, <4>4, <4>5
      <4>8. QED
        BY <3>2, <4>6, <4>7 DEF WasteBounded, TwiceWaste
    <3>5. QED
      BY <1>0, <3>3, <3>4
  <2>4. CASE pc[c] = "incr" /\ Goto(c, "get") /\ count' = count + 1 /\ made' = made + 1
    <3>1. Creating' = Creating /\ Cardinality(Busy') = Cardinality(Busy) - 1
      BY <2>4, CallEnds
    <3>2. Creating \subseteq Busy \ {c} /\ c \in Busy
      BY <2>4 DEF Creating, Busy
    <3>3. Cardinality(Creating) <= Cardinality(Busy) - 1
      <4>1. Cardinality(Busy \ {c}) = Cardinality(Busy) - 1 /\ IsFiniteSet(Busy \ {c})
        BY <3>2, FS_RemoveElement
      <4>2. QED
        BY <3>2, <4>1, FS_Subset
    <3>4. Others' = Others /\ Others \in Nat
      BY <3>1, <3>3 DEF Others
    <3>5. TwiceWaste(Others) \in Nat
      BY <3>4, WasteGrows
    <3>6. 2 * (made - count) <= TwiceWaste(Others) /\ count <= made
      BY <1>0, <3>5 DEF WasteBounded
    <3>7. TwiceWaste(Others') = TwiceWaste(Others)
      BY <3>4
    <3>8. count' > 0 /\ count' <= made' /\ 2 * (made' - count') <= TwiceWaste(Others)
      BY <1>0, <2>4, <3>6
    <3>9. QED
      BY <3>4, <3>7, <3>8 DEF WasteBounded, TwiceWaste
  <2>5. QED
    <3>1. CASE pc' = pc /\ count' = count /\ made' = made
      BY <2>1, <3>1 DEF Creating
    <3>2. CASE pc[c] = "get" /\ Goto(c, "incr") /\ count' = count /\ made' = made
      BY <2>1, <3>2, CallStarts
    <3>3. CASE pc[c] = "incr" /\ Goto(c, "get") /\ count' = count /\ made' = made
      BY <2>1, <3>3, CallEnds
    <3>4. pc[c] \in {"get", "incr", "setex"}
      BY DEF TypeOK
    <3>5. QED
      BY <1>1, <2>2, <2>3, <2>4, <3>1, <3>2, <3>3, <3>4, CallEffect
<1>2. CASE Expire
  BY <1>2 DEF Expire, WasteBounded
<1>3. CASE UNCHANGED vars
  BY <1>3 DEF vars, WasteBounded, Others, Creating, TwiceWaste
<1>4. QED
  BY <1>1, <1>2, <1>3 DEF Next

\* One life of the key admits at most n Max + n (n - 1) / 2 visits of n callers.
THEOREM MadeIsBounded == Clients # {} => (Spec => []MadeBounded)
<1> SUFFICES ASSUME Clients # {}
             PROVE  Spec => []MadeBounded
  OBVIOUS
<1>1. Init => WasteBounded
  BY DEF Init, WasteBounded
<1>2. TypeOK /\ OvershootBounded /\ WasteBounded => MadeBounded
  <2> SUFFICES ASSUME TypeOK, OvershootBounded, WasteBounded
               PROVE  MadeBounded
    OBVIOUS
  <2> USE MaxAssumption, BusyFinite
  <2> DEFINE n == Cardinality(Clients)
  <2>0. count \in Nat /\ made \in Nat /\ n \in Nat
    BY DEF TypeOK
  <2>1. TwiceWaste(n) \in Nat
    BY <2>0, WasteGrows
  <2>2. 2 * made <= TwiceWaste(n)
    <3>1. CASE count = 0
      BY <2>0, <2>1, <3>1 DEF WasteBounded
    <3>2. CASE count > 0
      <4>1. Others \in Nat /\ count <= Max + Others
        BY <2>0, <3>2 DEF WasteBounded, OvershootBounded, Others
      <4>2. 2 * (made - count) <= TwiceWaste(Others)
        BY <3>2 DEF WasteBounded
      <4>3. TwiceWaste(Others + 1) = TwiceWaste(Others) + 2 * (Max + Others)
            /\ TwiceWaste(Others) \in Nat
        BY <4>1, WasteGrows
      <4>4. Others + 1 <= n
        BY DEF Others
      <4>5. TwiceWaste(Others + 1) <= TwiceWaste(n)
        BY <2>0, <4>1, <4>4, WasteMonotone
      <4>6. TwiceWaste(Others + 1) \in Nat
        BY <4>1, WasteGrows
      <4> HIDE DEF n
      <4>7. QED
        BY <2>0, <2>1, <4>1, <4>2, <4>3, <4>5, <4>6
    <3>3. QED
      BY <2>0, <3>1, <3>2
  <2>3. n * Max \in Nat /\ n * (n - 1) \in Int /\ 2 * n * Max = 2 * (n * Max)
    BY <2>0
  <2>4. 2 * made <= 2 * (n * Max) + n * (n - 1)
    BY <2>2, <2>3 DEF TwiceWaste
  <2>5. \A x \in Int, y \in Nat, z \in Nat : 2 * z <= 2 * y + x => z <= y + x \div 2
    OBVIOUS
  <2>6. made <= n * Max + (n * (n - 1)) \div 2
    BY <2>0, <2>3, <2>4, <2>5
  <2>7. QED
    BY <2>6 DEF MadeBounded
<1>3. QED
  BY <1>1, <1>2, WasteStep, Overshoot, TypeCorrect, PTL DEF Spec

------------------------------------------------------------------------------
\* The counter never shows more visits than were counted since it was last absent.
NeverOvercounts == count <= made

LEMMA CountsStep == TypeOK /\ NeverOvercounts /\ [Next]_vars => NeverOvercounts'
<1> SUFFICES ASSUME TypeOK, NeverOvercounts, [Next]_vars
             PROVE  NeverOvercounts'
  OBVIOUS
<1> USE DEF TypeOK, NeverOvercounts, IncrCommand, SetExCommand
<1>1. ASSUME NEW c \in Clients, Call(c)
      PROVE  NeverOvercounts'
  BY <1>1 DEF Call, GetAbsent, GetBelow, Refuse, Incr, SetEx, Throws
<1>2. CASE Expire
  BY <1>2 DEF Expire
<1>3. CASE UNCHANGED vars
  BY <1>3 DEF vars
<1>4. QED
  BY <1>1, <1>2, <1>3 DEF Next

\* No caller is turned away before the limit was really reached.
THEOREM RefusalsAreDue == Spec => RefusedOnlyAtLimit
<1>1. Init => NeverOvercounts
  BY DEF Init, NeverOvercounts
<1>2. TypeOK /\ NeverOvercounts /\ [Next]_vars
        => [\A c \in Clients : c \in refused' \ refused => made >= Max]_vars
  <2> SUFFICES ASSUME TypeOK, NeverOvercounts, [Next]_vars,
                      NEW c \in Clients, c \in refused' \ refused
               PROVE  made >= Max
    OBVIOUS
  <2>1. PICK d \in Clients : Refuse(d)
    BY DEF Next, Call, GetAbsent, GetBelow, Incr, SetEx, Throws, Expire, vars
  <2>2. QED
    BY <2>1, MaxAssumption DEF Refuse, NeverOvercounts, TypeOK
<1>3. QED
  BY <1>1, <1>2, CountsStep, TypeCorrect, PTL DEF Spec, RefusedOnlyAtLimit

------------------------------------------------------------------------------
(* When the limit is lifted again, and when it is exact *)

\* The 60 seconds do not end between the GET of a call and its INCR.
ExpiryWaits == Expire => \A c \in Clients : pc[c] # "incr"

\* The counter expires whenever there is one, and whoever will increment it finds it.
CounterExpires == count > 0 <=> ttl
IncrFindsCounter == \A c \in Clients : pc[c] = "incr" => count > 0

LEMMA ExpiresStep ==
  TypeOK /\ CounterExpires /\ IncrFindsCounter /\ [Next]_vars /\ [ExpiryWaits]_vars
    => CounterExpires' /\ IncrFindsCounter'
<1> SUFFICES ASSUME TypeOK, CounterExpires, IncrFindsCounter, [Next]_vars, [ExpiryWaits]_vars
             PROVE  CounterExpires' /\ IncrFindsCounter'
  OBVIOUS
<1>0. count \in Nat /\ pc \in [Clients -> {"get", "incr", "setex"}]
  BY DEF TypeOK
<1>1. ASSUME NEW c \in Clients, Call(c)
      PROVE  CounterExpires' /\ IncrFindsCounter'
  <2>1. CASE pc[c] = "get"
    <3>1. count' = count /\ ttl' = ttl
      BY <1>1, <2>1 DEF Call, GetAbsent, GetBelow, Refuse, Incr, SetEx, Throws
    <3>2. \A d \in Clients : pc'[d] = "incr" => pc[d] = "incr" \/ count > 0
      BY <1>0, <1>1, <2>1 DEF Call, GetAbsent, GetBelow, Refuse, Incr, SetEx, Throws, Goto
    <3>3. QED
      BY <3>1, <3>2, Zenon DEF CounterExpires, IncrFindsCounter
  <2>2. CASE pc[c] # "get"
    <3>1. \A d \in Clients : pc'[d] = "incr" => pc[d] = "incr"
      BY <1>0, <1>1, <2>2 DEF Call, GetAbsent, GetBelow, Refuse, Incr, SetEx, Throws, Goto
    <3>2. \/ count' = count /\ ttl' = ttl
          \/ pc[c] = "incr" /\ count' = count + 1 /\ ttl' = ttl
          \/ count' = 1 /\ ttl' = TRUE
      BY <1>1, <2>2, Zenon
      DEF Call, GetAbsent, GetBelow, Refuse, Incr, SetEx, Throws, IncrCommand, SetExCommand
    <3>3. \/ count' = count /\ ttl' = ttl
          \/ count > 0 /\ count' > 0 /\ ttl' = ttl
          \/ count' > 0 /\ ttl' = TRUE
      BY <1>0, <3>2 DEF IncrFindsCounter
    <3>4. CounterExpires' /\ (count > 0 => count' > 0)
      <4>1. CASE count' = count /\ ttl' = ttl
        BY <4>1 DEF CounterExpires
      <4>2. CASE count > 0 /\ count' > 0 /\ ttl' = ttl
        BY <4>2, Zenon DEF CounterExpires
      <4>3. CASE count' > 0 /\ ttl' = TRUE
        BY <4>3, Zenon DEF CounterExpires
      <4>4. QED
        BY <3>3, <4>1, <4>2, <4>3, Zenon
    <3>5. QED
      BY <3>1, <3>4 DEF IncrFindsCounter
  <2>3. QED
    BY <2>1, <2>2
<1>2. CASE Expire
  <2>1. count' = 0 /\ ttl' = FALSE /\ pc' = pc
    BY <1>2 DEF Expire
  <2>2. \A c \in Clients : pc[c] # "incr"
    <3>1. vars' # vars
      BY <1>2, <2>1, Zenon DEF Expire, vars
    <3>2. QED
      BY <1>2, <3>1 DEF ExpiryWaits
  <2>3. ~(count' > 0)
    BY <2>1
  <2>4. QED
    BY <2>1, <2>2, <2>3, Zenon DEF CounterExpires, IncrFindsCounter
<1>3. CASE UNCHANGED vars
  BY <1>3 DEF vars, CounterExpires, IncrFindsCounter
<1>4. QED
  BY <1>1, <1>2, <1>3 DEF Next

\* A counter without a time to live, which refuses for ever, has one cause only: the 60 seconds
\* ended between a GET and its INCR (lines 69-73).  Late SETEXs, lost replies and exceptions
\* are none (what LimitIsLifted asks for, without its fairness).
THEOREM CountersExpire == Spec /\ [][ExpiryWaits]_vars => []CounterExpires
<1>1. Init => CounterExpires /\ IncrFindsCounter
  <2> SUFFICES ASSUME Init
               PROVE  CounterExpires /\ IncrFindsCounter
    OBVIOUS
  <2>1. ~(count > 0) /\ \A c \in Clients : pc[c] = "get"
    BY DEF Init
  <2>2. ttl = FALSE
    BY DEF Init
  <2>3. QED
    BY <2>1, <2>2, Zenon DEF CounterExpires, IncrFindsCounter
<1>2. QED
  BY <1>1, ExpiresStep, TypeCorrect, PTL DEF Spec

\* No two calls are between their GET and their write at a time.
OneAtATime == \A c, d \in Busy : c = d

\* The counter counts every visit, and a call writes to what it has read.
Exact ==
  /\ made = count /\ count <= Max
  /\ \A c \in Clients : /\ pc[c] = "incr" => count < Max
                        /\ pc[c] = "setex" => count = 0

LEMMA ExactStep == TypeOK /\ OneAtATime /\ Exact /\ [Next]_vars => Exact'
<1> SUFFICES ASSUME TypeOK, OneAtATime, Exact, [Next]_vars
             PROVE  Exact'
  OBVIOUS
<1> USE MaxAssumption
<1>0. count \in Nat /\ made \in Nat /\ pc \in [Clients -> {"get", "incr", "setex"}]
  BY DEF TypeOK
<1>1. ASSUME NEW c \in Clients, Call(c)
      PROVE  Exact'
  <2>1. CASE pc[c] = "get"
    BY <1>0, <1>1, <2>1, CallEffect DEF Exact, Goto
  <2>2. CASE pc[c] # "get"
    <3>1. \A d \in Clients \ {c} : pc[d] = "get"
      BY <2>2 DEF OneAtATime, Busy
    <3>2. pc' = pc \/ \A d \in Clients : pc'[d] = "get"
      BY <1>0, <1>1, <2>2, <3>1, CallEffect DEF Goto
    <3>3. made' = count' /\ count' <= Max
      BY <1>0, <1>1, CallEffect DEF Exact
    <3>4. pc' # pc
      BY <1>0, <1>1, <2>2
      DEF Call, GetAbsent, GetBelow, Refuse, Incr, SetEx, Throws, Goto
    <3>5. QED
      BY <3>2, <3>3, <3>4 DEF Exact
  <2>3. QED
    BY <2>1, <2>2
<1>2. CASE Expire
  BY <1>0, <1>2 DEF Expire, Exact
<1>3. CASE UNCHANGED vars
  BY <1>3 DEF vars, Exact
<1>4. QED
  BY <1>1, <1>2, <1>3 DEF Next

\* Callers that come one at a time are limited to just Max visits in a life of the key, however
\* their calls end and whenever it expires: what passes the limit is the race (lines 69-86).
THEOREM SerialCallersKeepTheLimit == Spec /\ []OneAtATime => [](made <= Max)
<1>1. Init => Exact
  BY MaxAssumption DEF Init, Exact
<1>2. TypeOK /\ Exact => made <= Max
  BY DEF TypeOK, Exact
<1>3. QED
  BY <1>1, <1>2, ExactStep, TypeCorrect, PTL DEF Spec
================================================================================
