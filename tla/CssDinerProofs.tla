----------------------------- MODULE CssDinerProofs -----------------------------
(***************************************************************************)
(* Theorems about CssDiner for any levels, rules and number of timers.      *)
(***************************************************************************)
EXTENDS CssDiner, FiniteSetTheorems, SequenceTheorems, TLAPS

Pending(kinds) == \E i \in 1..Len(timers) : timers[i] \in kinds

\* A level is on the table only if there is one: the game's number is then not past the end.
LevelExists ==
  /\ shown = "level" => currentLevel < LevelCount /\ level < LevelCount
  /\ shown = "empty" => level = LevelCount

\* Only answers strobe, and there are no marks without a level.
OnlyAnswersStrobe ==
  /\ shown = "level" => strobe \subseteq Answer[level]
  /\ shown # "level" => strobe = {} /\ shake = {} /\ clean = {}

\* Every mark has the timeout pending that takes it away.
MarksPass ==
  /\ clean # {} => Pending({"load"})
  /\ shake # {} => Pending({"shake", "stale"})
  /\ Pending({"shake"}) => shown = "level"
  /\ shown = "level" =>
       strobe = Answer[level] \/ wiped \/ clean # {} \/ Pending({"shake"})

\* A page without a level is about to load one, or its number is past the end.
BlankPasses ==
  level = LevelCount =>
    Pending({"ready", "load"}) \/ (currentLevel = LevelCount /\ saved = LevelCount)

IInv == TypeOK /\ LevelExists /\ OnlyAnswersStrobe /\ MarksPass /\ ShownIsSaved /\ BlankPasses

------------------------------------------------------------------------------
(* Timers *)

\* Pending timeouts stay pending when one is added.
LEMMA AppendKeeps ==
  ASSUME timers \in Seq(TimerKinds), NEW k \in TimerKinds, timers' = Append(timers, k)
  PROVE  /\ timers' \in Seq(TimerKinds)
         /\ Pending({k})'
         /\ \A kinds : Pending(kinds) => Pending(kinds)'
         /\ \A kinds : Pending(kinds)' => Pending(kinds) \/ k \in kinds
<1>1. timers' \in Seq(TimerKinds) /\ Len(timers') = Len(timers) + 1 /\ Len(timers) \in Nat
  OBVIOUS
<1>2. timers'[Len(timers) + 1] = k
  OBVIOUS
<1>3. \A i \in 1..Len(timers) : timers'[i] = timers[i]
  OBVIOUS
<1>4. Pending({k})'
  BY <1>1, <1>2 DEF Pending
<1>5. ASSUME NEW kinds, Pending(kinds)
      PROVE  Pending(kinds)'
  BY <1>1, <1>3, <1>5 DEF Pending
<1>6. ASSUME NEW kinds, Pending(kinds)'
      PROVE  Pending(kinds) \/ k \in kinds
  BY <1>1, <1>2, <1>3, <1>6 DEF Pending
<1>7. QED
  BY <1>1, <1>4, <1>5, <1>6

\* The timeout that fires is gone; all others are still pending.
LEMMA RemoveKeeps ==
  ASSUME timers \in Seq(TimerKinds), NEW i \in 1..Len(timers)
  PROVE  LET rest == RemoveAt(timers, i) IN
         /\ rest \in Seq(TimerKinds)
         /\ \A j \in 1..Len(timers) : timers[j] # timers[i] =>
              \E m \in 1..Len(rest) : rest[m] = timers[j]
         /\ \A m \in 1..Len(rest) : \E j \in 1..Len(timers) : rest[m] = timers[j]
         /\ \A j \in 1..Len(timers) : j < i => j \in 1..Len(rest) /\ rest[j] = timers[j]
         /\ \A j \in 1..Len(timers) : j > i => j - 1 \in 1..Len(rest) /\ rest[j - 1] = timers[j]
<1> DEFINE a == SubSeq(timers, 1, i - 1)
           b == SubSeq(timers, i + 1, Len(timers))
           rest == RemoveAt(timers, i)
<1>1. Len(timers) \in Nat /\ i \in Nat /\ 1 <= i /\ i <= Len(timers)
  OBVIOUS
<1>2. a \in Seq(TimerKinds) /\ Len(a) = i - 1 /\ \A m \in 1..(i - 1) : a[m] = timers[m]
  BY <1>1
<1>3. b \in Seq(TimerKinds) /\ Len(b) = Len(timers) - i
      /\ \A m \in 1..(Len(timers) - i) : b[m] = timers[m + i]
  BY <1>1
<1>4. rest = a \o b
  BY DEF RemoveAt
<1> HIDE DEF a, b, rest
<1>5. rest \in Seq(TimerKinds) /\ Len(rest) = Len(timers) - 1
  <2>1. rest \in Seq(TimerKinds) /\ Len(rest) = Len(a) + Len(b)
    BY <1>2, <1>3, <1>4, ConcatProperties
  <2>2. (i - 1) + (Len(timers) - i) = Len(timers) - 1
    BY <1>1
  <2>3. QED
    BY <1>2, <1>3, <2>1, <2>2
<1>6. \A m \in 1..(i - 1) : rest[m] = timers[m]
  <2> SUFFICES ASSUME NEW m \in 1..(i - 1)
               PROVE  rest[m] = timers[m]
    OBVIOUS
  <2>1. m \in 1..(Len(a) + Len(b)) /\ m <= Len(a)
    BY <1>1, <1>2, <1>3
  <2>2. rest[m] = a[m]
    BY <1>2, <1>3, <1>4, <2>1, ConcatProperties
  <2>3. QED
    BY <1>2, <2>2
<1>7. \A m \in i..(Len(timers) - 1) : rest[m] = timers[m + 1]
  <2> SUFFICES ASSUME NEW m \in i..(Len(timers) - 1)
               PROVE  rest[m] = timers[m + 1]
    OBVIOUS
  <2>1. m \in 1..(Len(a) + Len(b)) /\ ~(m <= Len(a)) /\ m - Len(a) \in 1..Len(b)
    BY <1>1, <1>2, <1>3
  <2>2. rest[m] = b[m - Len(a)]
    BY <1>2, <1>3, <1>4, <2>1, ConcatProperties
  <2>3. m - Len(a) \in 1..(Len(timers) - i) /\ (m - Len(a)) + i = m + 1
    BY <1>1, <1>2, <1>3, <2>1
  <2>4. QED
    BY <1>3, <2>2, <2>3
<1>8. ASSUME NEW j \in 1..Len(timers)
      PROVE  /\ j < i => j \in 1..Len(rest) /\ rest[j] = timers[j]
             /\ j > i => j - 1 \in 1..Len(rest) /\ rest[j - 1] = timers[j]
  <2>1. CASE j < i
    BY <1>1, <1>5, <1>6, <2>1
  <2>2. CASE j > i
    <3>1. j - 1 \in i..(Len(timers) - 1) /\ (j - 1) + 1 = j
      BY <1>1, <2>2
    <3>2. rest[j - 1] = timers[j] /\ j - 1 \in 1..Len(rest)
      BY <1>1, <1>5, <1>7, <3>1
    <3>3. QED
      BY <1>1, <2>2, <3>2
  <2>3. CASE j = i
    BY <1>1, <2>3
  <2>4. QED
    BY <1>1, <2>1, <2>2, <2>3
<1>9. ASSUME NEW m \in 1..Len(rest)
      PROVE  \E j \in 1..Len(timers) : rest[m] = timers[j]
  <2>1. CASE m < i
    BY <1>1, <1>5, <1>6, <2>1
  <2>2. CASE m >= i
    <3>1. m \in i..(Len(timers) - 1) /\ m + 1 \in 1..Len(timers)
      BY <1>1, <1>5, <2>2
    <3>2. QED
      BY <1>7, <3>1
  <2>3. QED
    BY <1>1, <1>5, <2>1, <2>2
<1>10. ASSUME NEW j \in 1..Len(timers), timers[j] # timers[i]
       PROVE  \E m \in 1..Len(rest) : rest[m] = timers[j]
  <2>1. j < i \/ j > i
    BY <1>1, <1>10
  <2>2. QED
    BY <1>8, <2>1
<1>11. QED
  BY <1>5, <1>8, <1>9, <1>10 DEF rest

\* A new table keeps the timeouts that load levels; none of them remembers its elements.
LEMMA OutdatedKeeps ==
  ASSUME NEW ts \in Seq(TimerKinds)
  PROVE  /\ Outdated(ts) \in Seq(TimerKinds)
         /\ Len(Outdated(ts)) = Len(ts)
         /\ \A i \in 1..Len(ts) : Outdated(ts)[i] # "shake"
         /\ \A i \in 1..Len(ts) : ts[i] # "shake" => Outdated(ts)[i] = ts[i]
<1>1. Len(ts) \in Nat /\ \A i \in 1..Len(ts) : ts[i] \in TimerKinds
  OBVIOUS
<1>2. \A i \in 1..Len(ts) : (IF ts[i] = "shake" THEN "stale" ELSE ts[i]) \in TimerKinds
  BY <1>1 DEF TimerKinds
<1>3. Outdated(ts) \in [1..Len(ts) -> TimerKinds]
  BY <1>2 DEF Outdated
<1>4. QED
  BY <1>1, <1>3 DEF Outdated

\* What is pending after a timeout has fired.
LEMMA RemovePending ==
  ASSUME timers \in Seq(TimerKinds), NEW i \in 1..Len(timers), timers' = RemoveAt(timers, i)
  PROVE  /\ timers' \in Seq(TimerKinds)
         /\ \A kinds : Pending(kinds) /\ timers[i] \notin kinds => Pending(kinds)'
         /\ \A kinds : Pending(kinds)' => Pending(kinds)
<1>1. /\ timers' \in Seq(TimerKinds)
      /\ \A j \in 1..Len(timers) : timers[j] # timers[i] =>
           \E m \in 1..Len(timers') : timers'[m] = timers[j]
      /\ \A m \in 1..Len(timers') : \E j \in 1..Len(timers) : timers'[m] = timers[j]
  BY RemoveKeeps
<1>2. ASSUME NEW kinds, Pending(kinds), timers[i] \notin kinds
      PROVE  Pending(kinds)'
  <2>1. PICK j \in 1..Len(timers) : timers[j] \in kinds
    BY <1>2 DEF Pending
  <2>2. PICK m \in 1..Len(timers') : timers'[m] = timers[j]
    BY <1>1, <1>2, <2>1
  <2>3. QED
    BY <2>1, <2>2 DEF Pending
<1>3. ASSUME NEW kinds, Pending(kinds)'
      PROVE  Pending(kinds)
  <2>1. PICK m \in 1..Len(timers') : timers'[m] \in kinds
    BY <1>3 DEF Pending
  <2>2. PICK j \in 1..Len(timers) : timers'[m] = timers[j]
    BY <1>1, <2>1
  <2>3. QED
    BY <2>1, <2>2 DEF Pending
<1>4. QED
  BY <1>1, <1>2, <1>3

------------------------------------------------------------------------------
(* The steps *)

\* loadLevel keeps the invariant when the number is that of a level, or when it is a timeout
\* that finds the game past its end.
LEMMA LoadStep ==
  ASSUME IInv, NEW n \in 0..LevelCount, NEW pending \in Seq(TimerKinds),
         LoadLevel(n, pending), currentLevel' = n,
         n = LevelCount => currentLevel = n,
         \A m \in 1..Len(pending) : \E j \in 1..Len(timers) : pending[m] = timers[j]
  PROVE  IInv'
<1>1. LevelCount \in Nat /\ n \in Nat
  BY LevelAssumption
<1>2. CASE n < LevelCount
  <2>1. n \in Indexes /\ Answer[n] \in SUBSET Items /\ WithClass[n] \in SUBSET Items
    BY <1>1, <1>2, AnswerAssumption, ClassAssumption DEF Indexes
  <2>2. /\ level' = n /\ saved' = n /\ shown' = "level" /\ strobe' = Answer[n]
        /\ classed' = WithClass[n] \cup Answer[n]
        /\ shake' = {} /\ clean' = {} /\ timers' = Outdated(pending) /\ wiped' = FALSE
    BY <1>2 DEF LoadLevel, ReplaceTable
  <2>3. timers' \in Seq(TimerKinds) /\ \A i \in 1..Len(timers') : timers'[i] # "shake"
    BY <2>2, OutdatedKeeps
  <2>4. TypeOK'
    BY <2>1, <2>2, <2>3 DEF TypeOK
  <2>5. LevelExists' /\ OnlyAnswersStrobe' /\ ShownIsSaved' /\ BlankPasses'
    BY <1>1, <1>2, <2>2 DEF LevelExists, OnlyAnswersStrobe, ShownIsSaved, BlankPasses
  <2>6. ~Pending({"shake"})'
    BY <2>3 DEF Pending
  <2>7. MarksPass'
    BY <2>2, <2>6 DEF MarksPass
  <2>8. QED
    BY <2>4, <2>5, <2>7 DEF IInv
<1>3. CASE n = LevelCount
  <2>1. level' = n /\ saved' = n /\ timers' = pending /\ UNCHANGED table
    BY <1>1, <1>3 DEF LoadLevel
  <2>2. shown # "level" /\ strobe = {} /\ shake = {} /\ clean = {}
    BY <1>1, <1>3 DEF IInv, LevelExists, OnlyAnswersStrobe
  <2>3. ~Pending({"shake"})
    BY <2>2 DEF IInv, MarksPass
  <2>4. ~Pending({"shake"})'
    BY <2>1, <2>3 DEF Pending
  <2>5. TypeOK'
    BY <1>3, <2>1 DEF IInv, TypeOK, table
  <2>6. LevelExists' /\ OnlyAnswersStrobe' /\ ShownIsSaved' /\ BlankPasses'
    BY <1>3, <2>1, <2>2
    DEF LevelExists, OnlyAnswersStrobe, ShownIsSaved, BlankPasses, table
  <2>7. MarksPass'
    BY <2>1, <2>2, <2>4 DEF MarksPass, table
  <2>8. QED
    BY <2>5, <2>6, <2>7 DEF IInv
<1>4. QED
  BY <1>1, <1>2, <1>3

\* A rule selects elements, and none when no level is shown.
LEMMA SelectedType ==
  ASSUME IInv, level < LevelCount, NEW r \in Rules[level]
  PROVE  /\ level \in Indexes /\ ruleSelected(r) \in SUBSET Items
         /\ shown # "level" => ruleSelected(r) = {}
<1>1. level \in Indexes
  BY LevelAssumption DEF IInv, TypeOK, Indexes
<1>2. ruleSelected(r) \in SUBSET Items /\ (shown # "level" => ruleSelected(r) = {})
  BY DEF ruleSelected, Takes
<1>3. QED
  BY <1>1, <1>2

\* A winning rule leaves its elements marked and a timeout that takes the table away, or the
\* winner's banner.
LEMMA WinStep ==
  ASSUME IInv, level < LevelCount, NEW r \in Rules[level], RuleWins(r)
  PROVE  IInv'
<1>1. /\ ruleSelected(r) \in SUBSET Items /\ ruleSelected(r) # {} /\ shown = "level"
  BY SelectedType DEF RuleWins, Wins
<1>2. /\ currentLevel \in Nat /\ LevelCount \in Nat /\ currentLevel < LevelCount
      /\ currentLevel' = currentLevel + 1 /\ level' = level /\ saved' = saved
  BY <1>1, LevelAssumption DEF IInv, TypeOK, LevelExists, RuleWins
<1>0. /\ currentLevel' \in 0..LevelCount /\ level' \in 0..LevelCount /\ saved' \in 0..LevelCount
      /\ strobe \in SUBSET Items /\ clean \in SUBSET Items /\ classed \in SUBSET Items
      /\ wiped \in BOOLEAN
  BY <1>2 DEF IInv, TypeOK
<1>3. CASE currentLevel + 1 >= LevelCount
  <2>1. /\ shown' = "banner" /\ strobe' = {} /\ shake' = {} /\ clean' = {}
        /\ timers' = Outdated(timers) /\ wiped' = FALSE /\ classed' = {}
    BY <1>3 DEF RuleWins, winGame, ReplaceTable
  <2>2. timers' \in Seq(TimerKinds) /\ \A i \in 1..Len(timers') : timers'[i] # "shake"
    BY <2>1, OutdatedKeeps DEF IInv, TypeOK
  <2>3. TypeOK'
    BY <1>0, <2>1, <2>2 DEF TypeOK
  <2>4. LevelExists' /\ OnlyAnswersStrobe' /\ ShownIsSaved' /\ BlankPasses'
    BY <1>2, <2>1, LevelAssumption
    DEF LevelExists, OnlyAnswersStrobe, ShownIsSaved, BlankPasses
  <2>5. ~Pending({"shake"})'
    BY <2>2 DEF Pending
  <2>6. MarksPass'
    BY <2>1, <2>5 DEF MarksPass
  <2>7. QED
    BY <2>3, <2>4, <2>6 DEF IInv
<1>4. CASE ~(currentLevel + 1 >= LevelCount)
  <2>1. /\ strobe' = strobe \ ruleSelected(r) /\ clean' = clean \cup ruleSelected(r)
        /\ shake' = {} /\ timers' = Append(timers, "load")
        /\ shown' = shown /\ wiped' = wiped /\ classed' = classed \cup ruleSelected(r)
    BY <1>4 DEF RuleWins
  <2>2. timers' \in Seq(TimerKinds) /\ Pending({"load"})' /\ (Pending({"shake"})' => Pending({"shake"}))
    BY <2>1, AppendKeeps DEF IInv, TypeOK, TimerKinds
  <2>3. TypeOK'
    BY <1>0, <1>1, <2>1, <2>2 DEF TypeOK
  <2>4. LevelExists' /\ OnlyAnswersStrobe' /\ BlankPasses'
    BY <1>1, <1>2, <1>4, <2>1
    DEF IInv, LevelExists, OnlyAnswersStrobe, BlankPasses
  <2>5. ShownIsSaved'
    BY <1>1, <1>2, <2>1, <2>2 DEF IInv, ShownIsSaved, Pending
  <2>6. MarksPass'
    BY <1>1, <2>1, <2>2 DEF MarksPass
  <2>7. QED
    BY <2>3, <2>4, <2>5, <2>6 DEF IInv
<1>5. QED
  BY <1>3, <1>4

\* A failing rule leaves its elements shaking and the timeout that ends it.
LEMMA FailStep ==
  ASSUME IInv, level < LevelCount, NEW r \in Rules[level], RuleFails(r)
  PROVE  IInv'
<1> DEFINE k == IF shown = "level" THEN "shake" ELSE "stale"
<1>1. ruleSelected(r) \in SUBSET Items /\ (shown # "level" => ruleSelected(r) = {})
  BY SelectedType
<1>2. /\ strobe' = strobe \ ruleSelected(r) /\ shake' = ruleSelected(r)
      /\ timers' = Append(timers, k) /\ classed' = classed \cup ruleSelected(r)
      /\ UNCHANGED <<currentLevel, level, saved, shown, clean, wiped>>
  BY DEF RuleFails
<1>3. k \in TimerKinds /\ k \in {"shake", "stale"} /\ (k = "shake" <=> shown = "level")
  BY DEF TimerKinds
<1>4. /\ timers' \in Seq(TimerKinds) /\ Pending({k})'
      /\ \A kinds : Pending(kinds) => Pending(kinds)'
      /\ \A kinds : Pending(kinds)' => Pending(kinds) \/ k \in kinds
  BY <1>2, <1>3, AppendKeeps DEF IInv, TypeOK
<1>5. Pending({"shake", "stale"})'
  BY <1>3, <1>4 DEF Pending
<1>6. TypeOK'
  BY <1>1, <1>2, <1>4 DEF IInv, TypeOK
<1>7. LevelExists' /\ OnlyAnswersStrobe'
  BY <1>1, <1>2 DEF IInv, LevelExists, OnlyAnswersStrobe
<1>8. ShownIsSaved'
  <2>1. Pending({"load"}) => Pending({"load"})'
    BY <1>4
  <2>2. QED
    BY <1>2, <2>1 DEF IInv, ShownIsSaved, Pending
<1>9. BlankPasses'
  <2>1. level # LevelCount
    BY LevelAssumption DEF IInv, TypeOK
  <2>2. QED
    BY <1>2, <2>1 DEF BlankPasses
<1>10. MarksPass'
  <2>1. clean' # {} => Pending({"load"})'
    BY <1>2, <1>4 DEF IInv, MarksPass
  <2>2. Pending({"shake"})' => shown' = "level"
    BY <1>2, <1>3, <1>4 DEF IInv, MarksPass
  <2>3. shown' = "level" => Pending({"shake"})'
    BY <1>2, <1>3, <1>4
  <2>4. QED
    BY <1>5, <2>1, <2>2, <2>3 DEF MarksPass
<1>11. QED
  BY <1>6, <1>7, <1>8, <1>9, <1>10 DEF IInv

\* A rule that throws only ends the shaking.
LEMMA ThrowStep == IInv /\ RuleThrows => IInv'
<1> SUFFICES ASSUME IInv, RuleThrows
             PROVE  IInv'
  OBVIOUS
<1>1. shake' = {}
      /\ UNCHANGED <<currentLevel, level, saved, shown, classed, strobe, clean, timers, wiped>>
  BY DEF RuleThrows
<1>2. TypeOK' /\ LevelExists' /\ OnlyAnswersStrobe' /\ ShownIsSaved'
  BY <1>1 DEF IInv, TypeOK, LevelExists, OnlyAnswersStrobe, ShownIsSaved
<1>3. MarksPass' /\ BlankPasses'
  BY <1>1 DEF IInv, MarksPass, BlankPasses, Pending
<1>4. QED
  BY <1>2, <1>3 DEF IInv

\* The end of the shaking brings the strobes of its own table back and wipes another's.
LEMMA ShakeStep ==
  ASSUME IInv, NEW i \in 1..Len(timers), FireShake(i)
  PROVE  IInv'
<1>1. /\ timers[i] \in {"shake", "stale"} /\ timers' = RemoveAt(timers, i)
      /\ shake' = {} /\ strobe' = IF timers[i] = "shake" THEN Answer[level] ELSE {}
      /\ wiped' = (timers[i] = "stale" /\ shown = "level")
      /\ UNCHANGED <<currentLevel, level, saved, shown, classed, clean>>
  BY DEF FireShake
<1>2. /\ timers' \in Seq(TimerKinds)
      /\ \A kinds : Pending(kinds) /\ timers[i] \notin kinds => Pending(kinds)'
      /\ \A kinds : Pending(kinds)' => Pending(kinds)
  BY <1>1, RemovePending DEF IInv, TypeOK
<1>3. timers[i] = "shake" => shown = "level"
  BY DEF IInv, MarksPass, Pending
<1>4. /\ Pending({"load"}) => Pending({"load"})'
      /\ Pending({"ready", "load"}) => Pending({"ready", "load"})'
  BY <1>1, <1>2
<1>5. shown = "level" => Answer[level] \in SUBSET Items
  <2>1. shown = "level" => level \in Indexes
    BY LevelAssumption DEF IInv, TypeOK, LevelExists, Indexes
  <2>2. QED
    BY <2>1, AnswerAssumption
<1>6. wiped' \in BOOLEAN
  BY <1>1
<1>7. TypeOK'
  BY <1>1, <1>2, <1>3, <1>5, <1>6 DEF IInv, TypeOK
<1>8. LevelExists' /\ OnlyAnswersStrobe'
  BY <1>1, <1>3 DEF IInv, LevelExists, OnlyAnswersStrobe
<1>9. ShownIsSaved'
  BY <1>1, <1>4 DEF IInv, ShownIsSaved, Pending
<1>10. BlankPasses'
  BY <1>1, <1>4 DEF IInv, BlankPasses
<1>11. MarksPass'
  <2>1. clean' # {} => Pending({"load"})'
    BY <1>1, <1>4 DEF IInv, MarksPass
  <2>2. Pending({"shake"})' => shown' = "level"
    BY <1>1, <1>2 DEF IInv, MarksPass
  <2>3. shown' = "level" => strobe' = Answer[level'] \/ wiped'
    BY <1>1
  <2>4. QED
    BY <1>1, <2>1, <2>2, <2>3 DEF MarksPass
<1>12. QED
  BY <1>7, <1>8, <1>9, <1>10, <1>11 DEF IInv

\* A page that is loaded again is as it was at first, apart from the number.
LEMMA ReloadStep == IInv /\ Reload => IInv'
<1> SUFFICES ASSUME IInv, Reload
             PROVE  IInv'
  OBVIOUS
<1>1. /\ currentLevel' = saved /\ level' = LevelCount /\ saved' = saved /\ shown' = "empty"
      /\ classed' = {} /\ strobe' = {} /\ shake' = {} /\ clean' = {}
      /\ timers' = <<"ready">> /\ wiped' = FALSE
  BY DEF Reload
<1>2. timers' \in Seq(TimerKinds) /\ Len(timers') = 1 /\ timers'[1] = "ready"
  BY <1>1 DEF TimerKinds
<1>3. Pending({"ready", "load"})' /\ ~Pending({"shake"})'
  BY <1>2 DEF Pending
<1>4. TypeOK'
  <2>1. LevelCount \in 0..LevelCount /\ saved \in 0..LevelCount
    BY LevelAssumption DEF IInv, TypeOK
  <2>2. QED
    BY <1>1, <1>2, <2>1 DEF TypeOK
<1>5. QED
  BY <1>1, <1>3, <1>4
  DEF IInv, LevelExists, OnlyAnswersStrobe, MarksPass, ShownIsSaved, BlankPasses

\* The game begins in the invariant ...
LEMMA InitInv == Init => IInv
<1> SUFFICES ASSUME Init
             PROVE  IInv
  OBVIOUS
<1>1. timers \in Seq(TimerKinds) /\ Len(timers) = 1 /\ timers[1] = "ready"
  BY DEF Init, TimerKinds
<1>2. Pending({"ready", "load"}) /\ ~Pending({"shake"})
  BY <1>1 DEF Pending
<1>3. TypeOK
  <2>1. LevelCount \in 0..LevelCount /\ 0 \in 0..LevelCount
    BY LevelAssumption
  <2>2. QED
    BY <1>1, <2>1 DEF Init, TypeOK
<1>4. QED
  BY <1>2, <1>3
  DEF Init, IInv, LevelExists, OnlyAnswersStrobe, MarksPass, ShownIsSaved, BlankPasses

\* ... and every step keeps it.
LEMMA InvStep == IInv /\ [Next]_vars => IInv'
<1> SUFFICES ASSUME IInv, [Next]_vars
             PROVE  IInv'
  OBVIOUS
<1>1. CASE SubmitRule
  BY <1>1, WinStep, FailStep DEF SubmitRule
<1>2. CASE RuleThrows
  BY <1>2, ThrowStep
<1>3. CASE Jump
  <2>1. PICK n \in Indexes : GoTo(n)
    BY <1>3 DEF Jump, EnterNumber, ClickMenu, Indexes
  <2>2. n \in 0..LevelCount /\ n # LevelCount
    BY LevelAssumption DEF Indexes
  <2>3. timers \in Seq(TimerKinds)
    BY DEF IInv, TypeOK
  <2>4. \A m \in 1..Len(timers) : \E j \in 1..Len(timers) : timers[m] = timers[j]
    OBVIOUS
  <2>5. LoadLevel(n, timers) /\ currentLevel' = n
    BY <2>1 DEF GoTo
  <2>6. QED
    BY <2>2, <2>3, <2>4, <2>5, LoadStep
<1>4. CASE Reload
  BY <1>4, ReloadStep
<1>5. CASE \E i \in 1..Len(timers) : FireTimer(i)
  <2>1. PICK i \in 1..Len(timers) : FireTimer(i)
    BY <1>5
  <2>2. CASE FireShake(i)
    BY <2>2, ShakeStep
  <2>3. CASE FireLoad(i)
    <3>1. LoadLevel(currentLevel, RemoveAt(timers, i)) /\ currentLevel' = currentLevel
      BY <2>3 DEF FireLoad
    <3>2. currentLevel \in 0..LevelCount /\ timers \in Seq(TimerKinds)
      BY DEF IInv, TypeOK
    <3>3. /\ RemoveAt(timers, i) \in Seq(TimerKinds)
          /\ \A m \in 1..Len(RemoveAt(timers, i)) : \E j \in 1..Len(timers) :
               RemoveAt(timers, i)[m] = timers[j]
      BY <3>2, RemoveKeeps
    <3>4. QED
      BY <3>1, <3>2, <3>3, LoadStep
  <2>4. QED
    BY <2>1, <2>2, <2>3 DEF FireTimer
<1>6. CASE UNCHANGED vars
  BY <1>6 DEF vars, IInv, TypeOK, LevelExists, OnlyAnswersStrobe, MarksPass, ShownIsSaved,
              BlankPasses, Pending
<1>7. QED
  BY <1>1, <1>2, <1>3, <1>4, <1>5, <1>6 DEF Next

------------------------------------------------------------------------------
(* The theorems *)

\* The invariant holds of every reachable state of the game.
THEOREM Invariance == Spec => []IInv
<1>1. QED
  BY InitInv, InvStep, PTL DEF Spec

\* Type correctness; in particular a win never counts the level past the end.
THEOREM TypeCorrect == Spec => []TypeOK
<1>1. IInv => TypeOK
  BY DEF IInv
<1>2. QED
  BY <1>1, Invariance, PTL

\* Number, page and localStorage never part, but for a win that waits for its timeout.
THEOREM LevelIsSaved == Spec => []ShownIsSaved
<1>1. IInv => ShownIsSaved
  BY DEF IInv
<1>2. QED
  BY <1>1, Invariance, PTL

\* With no timeout pending the right elements strobe, unless an old timeout wiped them.
THEOREM TablesSettle == Spec => []SettledTableStrobes
<1>1. IInv => SettledTableStrobes
  <2> SUFFICES ASSUME IInv, timers = <<>>, shown = "level"
               PROVE  shake = {} /\ clean = {} /\ (strobe = Answer[level] \/ wiped)
    BY DEF SettledTableStrobes
  <2>1. \A kinds : ~Pending(kinds)
    BY DEF Pending
  <2>2. QED
    BY <2>1 DEF IInv, MarksPass
<1>2. QED
  BY <1>1, Invariance, PTL

\* A page at rest without a level is past the end.
THEOREM BlankIsPastTheEnd == Spec => []BlankOnlyPastTheEnd
<1>1. IInv => BlankOnlyPastTheEnd
  <2> SUFFICES ASSUME IInv, timers = <<>>, level = LevelCount
               PROVE  currentLevel = LevelCount /\ saved = LevelCount
    BY DEF BlankOnlyPastTheEnd
  <2>1. \A kinds : ~Pending(kinds)
    BY DEF Pending
  <2>2. QED
    BY <2>1 DEF IInv, BlankPasses
<1>2. QED
  BY <1>1, Invariance, PTL

\* The loads that wins have left pending.
Loads == {i \in 1..Len(timers) : timers[i] = "load"}

\* The game is ahead of the page by as many levels at most as there are loads pending: a
\* second win before the timeout of the first counts one level more (lines 269-275).
SkipsArePending ==
  shown = "level" => level <= currentLevel /\ currentLevel <= level + Cardinality(Loads)

\* Loads are finitely many.
LEMMA LoadsFinite ==
  ASSUME timers \in Seq(TimerKinds)
  PROVE  IsFiniteSet(Loads) /\ Cardinality(Loads) \in Nat
<1>1. Len(timers) \in Nat
  OBVIOUS
<1>2. IsFiniteSet(1..Len(timers))
  BY <1>1, FS_Interval
<1>3. Loads \subseteq 1..Len(timers)
  BY DEF Loads
<1>4. IsFiniteSet(Loads)
  BY <1>2, <1>3, FS_Subset
<1>5. QED
  BY <1>4, FS_CardinalityType

\* A win adds one load, a failure none.
LEMMA AppendCounts ==
  ASSUME timers \in Seq(TimerKinds), NEW k \in TimerKinds, timers' = Append(timers, k)
  PROVE  Cardinality(Loads') = Cardinality(Loads) + (IF k = "load" THEN 1 ELSE 0)
<1>1. /\ Len(timers') = Len(timers) + 1 /\ Len(timers) \in Nat
      /\ timers'[Len(timers) + 1] = k
      /\ \A i \in 1..Len(timers) : timers'[i] = timers[i]
  OBVIOUS
<1>2. IsFiniteSet(Loads) /\ Cardinality(Loads) \in Nat
  BY LoadsFinite
<1>3. CASE k = "load"
  <2>1. Loads' = Loads \cup {Len(timers) + 1}
    BY <1>1, <1>3 DEF Loads
  <2>2. Len(timers) + 1 \notin Loads
    BY <1>1 DEF Loads
  <2>3. Cardinality(Loads') = Cardinality(Loads) + 1
    BY <1>2, <2>1, <2>2, FS_AddElement
  <2>4. QED
    BY <1>3, <2>3
<1>4. CASE k # "load"
  <2>1. Loads' = Loads
    BY <1>1, <1>4 DEF Loads
  <2>2. QED
    BY <1>2, <1>4, <2>1
<1>5. QED
  BY <1>3, <1>4

\* The end of a shaking takes no load away.
LEMMA RemoveCounts ==
  ASSUME timers \in Seq(TimerKinds), NEW i \in 1..Len(timers), timers[i] # "load",
         timers' = RemoveAt(timers, i)
  PROVE  Cardinality(Loads) <= Cardinality(Loads')
<1> DEFINE f == [j \in Loads |-> IF j < i THEN j ELSE j - 1]
<1>1. Len(timers) \in Nat /\ i \in Nat /\ 1 <= i
  OBVIOUS
<1>2. /\ timers' \in Seq(TimerKinds)
      /\ \A j \in 1..Len(timers) : j < i => j \in 1..Len(timers') /\ timers'[j] = timers[j]
      /\ \A j \in 1..Len(timers) :
           j > i => j - 1 \in 1..Len(timers') /\ timers'[j - 1] = timers[j]
  BY RemoveKeeps
<1>3. \A j \in Loads : j \in 1..Len(timers) /\ j \in Nat /\ timers[j] = "load" /\ (j < i \/ j > i)
  BY <1>1 DEF Loads
<1>4. ASSUME NEW j \in Loads
      PROVE  f[j] \in Loads'
  <2>1. CASE j < i
    BY <1>2, <1>3, <2>1 DEF Loads
  <2>2. CASE j > i
    <3>1. f[j] = j - 1
      BY <1>1, <1>3, <2>2
    <3>2. QED
      BY <1>2, <1>3, <2>2, <3>1 DEF Loads
  <2>3. QED
    BY <1>3, <2>1, <2>2
<1>5. ASSUME NEW j \in Loads, NEW k \in Loads, f[j] = f[k]
      PROVE  j = k
  <2>1. j \in Nat /\ k \in Nat /\ (j < i \/ j > i) /\ (k < i \/ k > i)
    BY <1>3
  <2>2. (IF j < i THEN j ELSE j - 1) = (IF k < i THEN k ELSE k - 1)
    BY <1>5
  <2>3. QED
    BY <1>1, <2>1, <2>2
<1>6. f \in Injection(Loads, Loads')
  BY <1>4, <1>5 DEF Injection, IsInjective
<1>7. IsFiniteSet(Loads')
  <2>1. Len(timers') \in Nat
    BY <1>2
  <2>2. IsFiniteSet(1..Len(timers')) /\ Loads' \subseteq 1..Len(timers')
    BY <2>1, FS_Interval DEF Loads
  <2>3. QED
    BY <2>2, FS_Subset
<1>8. QED
  BY <1>6, <1>7, FS_Injection

\* Loading a level brings the page to where the game is.
LEMMA LoadSkips ==
  ASSUME IInv, NEW n \in 0..LevelCount, NEW pending \in Seq(TimerKinds),
         LoadLevel(n, pending), currentLevel' = n, n = LevelCount => currentLevel = n
  PROVE  SkipsArePending'
<1>1. LevelCount \in Nat /\ n \in Nat
  BY LevelAssumption
<1>2. CASE n < LevelCount
  <2>1. level' = n /\ timers' = Outdated(pending)
    BY <1>2 DEF LoadLevel, ReplaceTable
  <2>2. timers' \in Seq(TimerKinds)
    BY <2>1, OutdatedKeeps
  <2>3. Cardinality(Loads') \in Nat
    <3>1. Len(timers') \in Nat
      BY <2>2
    <3>2. IsFiniteSet(1..Len(timers')) /\ Loads' \subseteq 1..Len(timers')
      BY <3>1, FS_Interval DEF Loads
    <3>3. QED
      BY <3>2, FS_Subset, FS_CardinalityType
  <2>4. QED
    BY <1>1, <2>1, <2>3 DEF SkipsArePending
<1>3. CASE n = LevelCount
  <2>1. shown' = shown /\ shown # "level"
    BY <1>1, <1>3 DEF LoadLevel, table, IInv, LevelExists
  <2>2. QED
    BY <2>1 DEF SkipsArePending
<1>4. QED
  BY <1>1, <1>2, <1>3

LEMMA SkipStep == IInv /\ SkipsArePending /\ [Next]_vars => SkipsArePending'
<1> SUFFICES ASSUME IInv, SkipsArePending, [Next]_vars
             PROVE  SkipsArePending'
  OBVIOUS
<1>0. /\ timers \in Seq(TimerKinds) /\ currentLevel \in Nat /\ level \in Nat
      /\ currentLevel \in 0..LevelCount /\ Cardinality(Loads) \in Nat
  BY LoadsFinite, LevelAssumption DEF IInv, TypeOK
<1>1. ASSUME NEW r \in Rules[level], RuleWins(r)
      PROVE  SkipsArePending'
  <2>1. CASE currentLevel + 1 >= LevelCount
    BY <1>1, <2>1 DEF RuleWins, winGame, ReplaceTable, SkipsArePending
  <2>2. CASE ~(currentLevel + 1 >= LevelCount)
    <3>1. /\ shown' = shown /\ level' = level /\ currentLevel' = currentLevel + 1
          /\ timers' = Append(timers, "load")
      BY <1>1, <2>2 DEF RuleWins
    <3>2. Cardinality(Loads') = Cardinality(Loads) + 1
      BY <1>0, <3>1, AppendCounts DEF TimerKinds
    <3>3. QED
      BY <1>0, <3>1, <3>2 DEF SkipsArePending
  <2>3. QED
    BY <2>1, <2>2
<1>2. ASSUME NEW r \in Rules[level], RuleFails(r)
      PROVE  SkipsArePending'
  <2> DEFINE k == IF shown = "level" THEN "shake" ELSE "stale"
  <2>1. UNCHANGED <<currentLevel, level, shown>> /\ timers' = Append(timers, k)
    BY <1>2 DEF RuleFails
  <2>2. k \in TimerKinds /\ k # "load"
    BY DEF TimerKinds
  <2> HIDE DEF k
  <2>3. Cardinality(Loads') = Cardinality(Loads)
    BY <1>0, <2>1, <2>2, AppendCounts
  <2>4. QED
    BY <2>1, <2>3 DEF SkipsArePending
<1>3. CASE RuleThrows
  BY <1>3 DEF RuleThrows, SkipsArePending, Loads
<1>4. CASE Jump
  <2>1. PICK n \in Indexes : GoTo(n)
    BY <1>4 DEF Jump, EnterNumber, ClickMenu, Indexes
  <2>2. n \in 0..LevelCount /\ n # LevelCount
    BY LevelAssumption DEF Indexes
  <2>3. QED
    BY <1>0, <2>1, <2>2, LoadSkips DEF GoTo
<1>5. CASE Reload
  BY <1>5 DEF Reload, SkipsArePending
<1>6. ASSUME NEW i \in 1..Len(timers), FireLoad(i)
      PROVE  SkipsArePending'
  <2>1. LoadLevel(currentLevel, RemoveAt(timers, i)) /\ currentLevel' = currentLevel
    BY <1>6 DEF FireLoad
  <2>2. RemoveAt(timers, i) \in Seq(TimerKinds)
    BY <1>0, RemoveKeeps
  <2>3. QED
    BY <1>0, <2>1, <2>2, LoadSkips
<1>7. ASSUME NEW i \in 1..Len(timers), FireShake(i)
      PROVE  SkipsArePending'
  <2>1. /\ timers[i] # "load" /\ timers' = RemoveAt(timers, i)
        /\ UNCHANGED <<currentLevel, level, shown>>
    BY <1>7 DEF FireShake
  <2>2. Cardinality(Loads) <= Cardinality(Loads')
    BY <1>0, <2>1, RemoveCounts
  <2>3. Cardinality(Loads') \in Nat
    <3>1. timers' \in Seq(TimerKinds)
      BY <1>0, <2>1, RemoveKeeps
    <3>2. IsFiniteSet(1..Len(timers')) /\ Loads' \subseteq 1..Len(timers')
      BY <3>1, FS_Interval DEF Loads
    <3>3. QED
      BY <3>2, FS_Subset, FS_CardinalityType
  <2>4. QED
    BY <1>0, <2>1, <2>2, <2>3 DEF SkipsArePending
<1>8. CASE UNCHANGED vars
  BY <1>8 DEF vars, SkipsArePending, Loads
<1>9. QED
  BY <1>1, <1>2, <1>3, <1>4, <1>5, <1>6, <1>7, <1>8 DEF Next, SubmitRule, FireTimer

\* Wins that overtake a load skip levels, never more than loads are pending; so with no
\* load pending the page shows the level the game goes by.
THEOREM SkipsAreBounded == Spec => []SkipsArePending
<1>1. Init => SkipsArePending
  BY DEF Init, SkipsArePending
<1>2. QED
  BY <1>1, Invariance, SkipStep, PTL DEF Spec

\* The answer to the level, typed as it is.
RightAnswer == Plain(Answer[level])

\* A rule that looks at no marks takes the same elements whatever strobes.
LEMMA PlainTakes ==
  ASSUME NEW S \in SUBSET Items, NEW strobing
  PROVE  Takes(Plain(S), strobing) = S
<1>1. \A i \in Items : MarksOf(i, strobing) \in SUBSET Marks
  BY DEF MarksOf
<1>2. \A i \in Items : Plain(S).takes[i] = IF i \in S THEN SUBSET Marks ELSE {}
  BY DEF Plain
<1>3. QED
  BY <1>1, <1>2 DEF Takes

\* On a table at rest the right answer wins, unless an old timeout took the strobes.
RightAnswerWins ==
  timers = <<>> /\ shown = "level" /\ ~wiped /\ Answer[level] # {} => Wins(RightAnswer)

\* What PersistenceWins relies on: no sequence of wins, failures, jumps, reloads and
\* timeouts leaves a table at rest that its own answer does not solve.
THEOREM AnswersAreAccepted == Spec => []RightAnswerWins
<1>1. IInv => RightAnswerWins
  <2> SUFFICES ASSUME IInv, timers = <<>>, shown = "level", ~wiped, Answer[level] # {}
               PROVE  Wins(RightAnswer)
    BY DEF RightAnswerWins
  <2>1. \A kinds : ~Pending(kinds)
    BY DEF Pending
  <2>2. strobe = Answer[level]
    BY <2>1 DEF IInv, MarksPass
  <2>3. Answer[level] \in SUBSET Items
    <3>1. level \in Indexes
      BY LevelAssumption DEF IInv, TypeOK, LevelExists, Indexes
    <3>2. QED
      BY <3>1, AnswerAssumption
  <2>4. /\ ruleSelected(RightAnswer) = Answer[level]
        /\ MatchesClone(RightAnswer) = Answer[level]
        /\ levelSelected = Answer[level]
    BY <2>3, PlainTakes DEF ruleSelected, MatchesClone, levelSelected, RightAnswer, Plain
  <2>5. QED
    BY <2>2, <2>4 DEF Wins, checkResults
<1>2. QED
  BY <1>1, Invariance, PTL

\* The marks of an element that does not strobe are those of its clone.
LEMMA ClonesAlike ==
  ASSUME NEW i, i \notin strobe
  PROVE  MarksOf(i, strobe) = MarksOf(i, {})
<1>1. ASSUME NEW m \in Marks
      PROVE  (i \in [class |-> classed, strobe |-> strobe, clean |-> clean][m])
               <=> (i \in [class |-> classed, strobe |-> {}, clean |-> clean][m])
  BY DEF Marks
<1>2. QED
  BY <1>1 DEF MarksOf

\* A rule that wins without naming the table selects what the level asks for: what it selects
\* strobes, what strobes is part of the answer, and a part with as many elements is the whole.
LEMMA WinnerAnswers ==
  ASSUME IInv, level < LevelCount, NEW r \in Rules[level], Wins(r), ~r.rooted
  PROVE  ruleSelected(r) = Answer[level] /\ MatchesClone(r) = Answer[level]
<1>1. /\ Cardinality(ruleSelected(r)) = Cardinality(levelSelected)
      /\ ruleSelected(r) # {} /\ MatchesClone(r) = strobe
  BY DEF Wins, checkResults
<1>2. shown = "level" /\ level \in Indexes
  BY <1>1, SelectedType
<1>3. levelSelected = Answer[level] /\ strobe \subseteq Answer[level]
  BY <1>2 DEF levelSelected, IInv, OnlyAnswersStrobe
<1>4. ruleSelected(r) = Takes(r, strobe) /\ strobe = Takes(r, {})
  BY <1>1, <1>2 DEF ruleSelected, MatchesClone
<1>5. Takes(r, strobe) \subseteq strobe
  <2> SUFFICES ASSUME NEW i \in Takes(r, strobe), i \notin strobe
               PROVE  i \in Takes(r, {})
    BY <1>4
  <2>1. MarksOf(i, strobe) = MarksOf(i, {})
    BY ClonesAlike
  <2>2. QED
    BY <2>1 DEF Takes
<1>6. Answer[level] \in SUBSET Items /\ IsFiniteSet(Items)
  BY <1>2, AnswerAssumption, ItemAssumption
<1>7. IsFiniteSet(Answer[level])
  BY <1>6, FS_Subset
<1>8. ruleSelected(r) \subseteq Answer[level]
  BY <1>3, <1>4, <1>5
<1>9. ruleSelected(r) = Answer[level]
  BY <1>1, <1>3, <1>7, <1>8, FS_Subset
<1>10. QED
  BY <1>1, <1>3, <1>4, <1>5, <1>9

\* Nobody wins by what strobes, in whatever state failures, wins and timeouts have left the
\* classes and however a rule judges an element by them.
THEOREM NoCheating == Spec => []OnlyAnswersWin
<1>1. IInv => OnlyAnswersWin
  BY WinnerAnswers DEF OnlyAnswersWin
<1>2. QED
  BY <1>1, Invariance, PTL
================================================================================
