------------------------------- MODULE CssDiner -------------------------------
(***************************************************************************)
(* restaurant.js, the game of the css diner: a player submits selectors or   *)
(* level numbers while timers load levels and put the strobes back.          *)
(*                                                                           *)
(* Handlers and timer callbacks run one at a time; what races is what they   *)
(* left pending.  The table is known by which of its elements have a class    *)
(* attribute and which carry strobe, shake and clean, because checkResults    *)
(* compares its html with that of a clone in which the rule strobes.         *)
(***************************************************************************)
EXTENDS Naturals, Sequences, FiniteSets, SequencesExt

CONSTANTS
  LevelCount,  \* levels.length; also stands for an undefined level: levels[levels.length]
  Items,       \* the elements a table can have
  WithClass,   \* the elements that the board of each level gives a class attribute
  Answer,      \* what the selector of each level selects on its table
  Rules,       \* the selectors a player tries at each level
  MaxTimers    \* bound: how many timers a player gets to be pending at once

Indexes == 0..(LevelCount - 1)

\* What a rule can see of the class attribute of an element, besides "small": that there
\* is one, however empty, and two of the classes that come and go ("shake" is gone, line 223).
Marks == {"class", "strobe", "clean"}

\* A rule judges each element by what and where it is and by its marks: of each element
\* the marks under which it takes it, and whether it names the table as an ancestor.
Rule == [takes : [Items -> SUBSET SUBSET Marks], rooted : BOOLEAN]

\* A rule that looks at no marks
Plain(S) == [takes |-> [i \in Items |-> IF i \in S THEN SUBSET Marks ELSE {}], rooted |-> FALSE]

ASSUME LevelAssumption == LevelCount \in Nat \ {0}
ASSUME ItemAssumption == IsFiniteSet(Items)
ASSUME ClassAssumption == WithClass \in [Indexes -> SUBSET Items]
ASSUME AnswerAssumption == Answer \in [Indexes -> SUBSET Items]
ASSUME RuleAssumption == Rules \in [Indexes -> SUBSET Rule]
ASSUME BoundAssumption == MaxTimers \in Nat \ {0}

VARIABLES
  currentLevel,  \* the number the game goes by
  level,         \* the level object, by its index
  saved,         \* localStorage.currentLevel, 0 when absent
  shown,         \* what the table holds: nothing, a level or the winner's banner
  classed,       \* the elements of the table with a class attribute
  strobe, shake, clean,  \* the elements of the table with these classes
  timers,        \* pending timeouts in the order they were set
  wiped          \* ghost: a timeout of an earlier table took this table's strobes

vars == <<currentLevel, level, saved, shown, classed, strobe, shake, clean, timers, wiped>>
table == <<shown, classed, strobe, shake, clean, wiped>>

\* "ready" and "load" load the current level; "shake" ends the shaking and strobes the
\* elements it remembers, "stale" remembers elements of a table that is gone.
TimerKinds == {"ready", "load", "shake", "stale"}
Delay == [ready |-> 50, load |-> 1000, shake |-> 500, stale |-> 500]

TypeOK ==
  /\ currentLevel \in 0..LevelCount
  /\ level \in 0..LevelCount
  /\ saved \in 0..LevelCount
  /\ shown \in {"empty", "level", "banner"}
  /\ classed \in SUBSET Items
  /\ strobe \in SUBSET Items /\ shake \in SUBSET Items /\ clean \in SUBSET Items
  /\ timers \in Seq(TimerKinds)
  /\ wiped \in BOOLEAN

\* document.ready has run; localStorage is empty.
Init ==
  /\ currentLevel = 0 /\ level = LevelCount /\ saved = 0
  /\ shown = "empty" /\ classed = {} /\ strobe = {} /\ shake = {} /\ clean = {}
  /\ timers = <<"ready">>
  /\ wiped = FALSE

------------------------------------------------------------------------------
(* The table *)

Outdated(ts) == [i \in 1..Len(ts) |-> IF ts[i] = "shake" THEN "stale" ELSE ts[i]]

\* $(".table").html(...): whatever the pending timeouts remember of the table is detached.
ReplaceTable(with, attribute, strobing, pending) ==
  /\ shown' = with
  /\ classed' = attribute \cup strobing
  /\ strobe' = strobing /\ shake' = {} /\ clean' = {}
  /\ timers' = Outdated(pending)
  /\ wiped' = FALSE

\* Fault: the level is not saved (line 397 left out).
LoadUnsaved(n, pending) ==
  /\ level' = n
  /\ saved' = saved
  /\ IF n < LevelCount
     THEN ReplaceTable("level", WithClass[n], Answer[n], pending)
     ELSE timers' = pending /\ UNCHANGED table

\* loadLevel with currentLevel = n.  Past the last level the number is saved and the
\* board of an undefined level throws.
LoadLevel(n, pending) ==
  /\ level' = n
  /\ saved' = n
  /\ IF n < LevelCount
     THEN ReplaceTable("level", WithClass[n], Answer[n], pending)
     ELSE timers' = pending /\ UNCHANGED table

winGame == ReplaceTable("banner", {}, {}, timers)

\* The marks of an element when these elements strobe.
MarksOf(i, strobing) ==
  {m \in Marks : i \in [class |-> classed, strobe |-> strobing, clean |-> clean][m]}
Takes(r, strobing) == {i \in Items : MarksOf(i, strobing) \in r.takes[i]}

\* $(".table-wrapper").find(rule) and .find(level.selector)
ruleSelected(r) == IF shown = "level" THEN Takes(r, strobe) ELSE {}
levelSelected == IF shown = "level" THEN Answer[level] ELSE {}

\* ruleTable.find(rule): the clone has lost its strobes, not the attribute nor the other
\* classes, and it is not inside a .table.
MatchesClone(r) == IF r.rooted THEN {} ELSE Takes(r, {})

\* Fault: the clone keeps its strobes (line 303 left out).
CheckStrobingClone(r) == r.rooted \/ Takes(r, strobe) \subseteq strobe

\* The html is the same if and only if the clone strobes where the table does.
checkResults(r) == MatchesClone(r) = strobe

Wins(r) ==
  /\ Cardinality(ruleSelected(r)) = Cardinality(levelSelected)
  /\ ruleSelected(r) # {}
  /\ checkResults(r)

------------------------------------------------------------------------------
(* The player *)

GoTo(n) ==
  /\ currentLevel' = n
  /\ LoadLevel(n, timers)

\* handleInput of a number
EnterNumber(n) ==
  /\ n > 0 /\ n < LevelCount + 1
  /\ GoTo(n - 1)

\* an entry of the level menu
ClickMenu(n) == GoTo(n)

\* fireRule throws: the rule is no selector, or no level is loaded yet.
RuleThrows ==
  /\ shake' = {}
  /\ UNCHANGED <<currentLevel, level, saved, shown, classed, strobe, clean, timers, wiped>>

\* Fault: the end is one level later (">" for ">=" in line 270).
WinsPastTheEnd(r) ==
  /\ Len(timers) < MaxTimers
  /\ Wins(r)
  /\ currentLevel' = currentLevel + 1
  /\ strobe' = strobe \ ruleSelected(r)
  /\ clean' = clean \cup ruleSelected(r)
  /\ classed' = classed \cup ruleSelected(r)
  /\ shake' = {}
  /\ timers' = Append(timers, "load")
  /\ UNCHANGED <<shown, wiped, level, saved>>

\* Fault: the next level is never loaded (lines 273-275 left out).
WinsAndStays(r) ==
  /\ Len(timers) < MaxTimers
  /\ Wins(r)
  /\ currentLevel' = currentLevel + 1
  /\ IF currentLevel + 1 >= LevelCount
     THEN winGame
     ELSE /\ strobe' = strobe \ ruleSelected(r)
          /\ clean' = clean \cup ruleSelected(r)
          /\ classed' = classed \cup ruleSelected(r)
          /\ shake' = {}
          /\ UNCHANGED <<shown, wiped, timers>>
  /\ UNCHANGED <<level, saved>>

\* fireRule, win
RuleWins(r) ==
  /\ Len(timers) < MaxTimers
  /\ Wins(r)
  /\ currentLevel' = currentLevel + 1
  /\ IF currentLevel + 1 >= LevelCount
     THEN winGame
     ELSE /\ strobe' = strobe \ ruleSelected(r)
          /\ clean' = clean \cup ruleSelected(r)
          /\ classed' = classed \cup ruleSelected(r)
          /\ shake' = {}
          /\ timers' = Append(timers, "load")
          /\ UNCHANGED <<shown, wiped>>
  /\ UNCHANGED <<level, saved>>

\* fireRule, no win
RuleFails(r) ==
  /\ Len(timers) < MaxTimers
  /\ ~Wins(r)
  /\ strobe' = strobe \ ruleSelected(r)
  /\ shake' = ruleSelected(r)
  /\ classed' = classed \cup ruleSelected(r)
  /\ timers' = Append(timers, IF shown = "level" THEN "shake" ELSE "stale")
  /\ UNCHANGED <<currentLevel, level, saved, shown, clean, wiped>>

\* Fault: nothing loads the first level (lines 80-83 left out).
ReloadBlank ==
  /\ currentLevel' = saved /\ level' = LevelCount /\ saved' = saved
  /\ shown' = "empty" /\ classed' = {} /\ strobe' = {} /\ shake' = {} /\ clean' = {}
  /\ timers' = <<>>
  /\ wiped' = FALSE

\* The page is loaded again.
Reload ==
  /\ currentLevel' = saved /\ level' = LevelCount /\ saved' = saved
  /\ shown' = "empty" /\ classed' = {} /\ strobe' = {} /\ shake' = {} /\ clean' = {}
  /\ timers' = <<"ready">>
  /\ wiped' = FALSE

------------------------------------------------------------------------------
(* Timeouts *)

\* A timeout fires unless one set before it is due before it.
Due(i) ==
  /\ i \in 1..Len(timers)
  /\ \A j \in 1..(i - 1) : Delay[timers[j]] > Delay[timers[i]]

FireLoad(i) ==
  /\ Due(i)
  /\ timers[i] \in {"ready", "load"}
  /\ LoadLevel(currentLevel, RemoveAt(timers, i))
  /\ UNCHANGED currentLevel

\* Fault: the shaking does not end (line 286 left out).
FireShaking(i) ==
  /\ Due(i)
  /\ timers[i] \in {"shake", "stale"}
  /\ timers' = RemoveAt(timers, i)
  /\ strobe' = IF timers[i] = "shake" THEN Answer[level] ELSE {}
  /\ wiped' = (timers[i] = "stale" /\ shown = "level")
  /\ UNCHANGED <<currentLevel, level, saved, shown, classed, shake, clean>>

\* Fault: the strobes do not come back (line 288 left out).
FireDull(i) ==
  /\ Due(i)
  /\ timers[i] \in {"shake", "stale"}
  /\ timers' = RemoveAt(timers, i)
  /\ shake' = {}
  /\ strobe' = {}
  /\ wiped' = (timers[i] = "stale" /\ shown = "level")
  /\ UNCHANGED <<currentLevel, level, saved, shown, classed, clean>>

FireShake(i) ==
  /\ Due(i)
  /\ timers[i] \in {"shake", "stale"}
  /\ timers' = RemoveAt(timers, i)
  /\ shake' = {}
  /\ strobe' = IF timers[i] = "shake" THEN Answer[level] ELSE {}
  /\ wiped' = (timers[i] = "stale" /\ shown = "level")
  /\ UNCHANGED <<currentLevel, level, saved, shown, classed, clean>>

FireTimer(i) == FireLoad(i) \/ FireShake(i)

SubmitRule == level < LevelCount /\ \E r \in Rules[level] : RuleWins(r) \/ RuleFails(r)
Jump == \E n \in Indexes : EnterNumber(n + 1) \/ ClickMenu(n)

Next ==
  \/ SubmitRule \/ RuleThrows \/ Jump \/ Reload
  \/ \E i \in 1..Len(timers) : FireTimer(i)

Spec == Init /\ [][Next]_vars

\* The browser runs the timeouts: the oldest one fires.
FairSpec == Spec /\ WF_vars(FireTimer(1))

------------------------------------------------------------------------------
(* Properties *)

\* The level on the table is the one a reload brings back and the one the game goes by,
\* unless a win waits for its timeout (lines 269-275, 382 and 397): no timeout, jump or
\* second win in between leaves the number, the page and localStorage apart.
ShownIsSaved ==
  (shown = "level" /\ level < LevelCount) =>
    /\ saved = level
    /\ currentLevel = level \/ \E i \in 1..Len(timers) : timers[i] = "load"

\* "Strobe what's supposed to be selected" (line 410).  When nothing is pending, a level's
\* table has settled: nothing shakes or is marked as done and the right elements strobe,
\* unless a timeout that belonged to the table before took the strobes away.
SettledTableStrobes ==
  (timers = <<>> /\ shown = "level") =>
    shake = {} /\ clean = {} /\ (strobe = Answer[level] \/ wiped)

\* A page that has come to rest without a level was sent past the last one: only then
\* does loadLevel throw (lines 382 and 316).
BlankOnlyPastTheEnd ==
  (timers = <<>> /\ level = LevelCount) => currentLevel = LevelCount /\ saved = LevelCount

\* "prevent cheating" (line 218): in whatever state of the classes, a rule that wins without
\* naming the table selects the level's answer, and would if nothing strobed.  Rules on the
\* attribute or on ".clean" may win; a rule that needs the strobes never does.
OnlyAnswersWin ==
  level < LevelCount =>
    \A r \in Rules[level] :
      (Wins(r) /\ ~r.rooted) => ruleSelected(r) = Answer[level] /\ MatchesClone(r) = Answer[level]

\* A level that was won is left: its elements do not stay marked as done (lines 265-275).
WonLevelIsLeft == clean # {} ~> clean = {}

\* "If you get it right, you'll advance to the next level" (index.html:46), in the long run:
\* a player who stops jumping and again and again submits the answer to a table at rest
\* gets past the last level, whatever else is tried meanwhile.
AnswerAtRest ==
  /\ timers = <<>>
  /\ level < LevelCount
  /\ RuleWins(Plain(Answer[level])) \/ RuleFails(Plain(Answer[level]))
Undisturbed == ~Jump /\ ~Reload
PersistenceWins ==
  (<>[][Undisturbed]_vars /\ []<><<AnswerAtRest>>_vars) => <>(currentLevel = LevelCount)
================================================================================
