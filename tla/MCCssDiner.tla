------------------------------ MODULE MCCssDiner ------------------------------
(* The game on all the levels of levels.js.  A player tries selectors the levels *)
(* teach and the answer, and the answer and everything in the ways that name the *)
(* table, the class attribute, the strobes or what a win has marked.             *)
EXTENDS CssDiner, DinerLevels

\* levels.js has no board on which an end tag closes an outer element.
ASSUME BoardsAssumption ==
  \A i \in 1..Len(levels) : levels[i].board \in Seq(STRING) /\ WellNested(levels[i].board)

MCLevelCount == Len(levels)
MCIndexes == 0..(MCLevelCount - 1)
MCItems == 1..10

Boards == [i \in MCIndexes |-> loadBoard(levels[i + 1].board)]
Answers == [i \in MCIndexes |-> Select(loadBoard(levels[i + 1].board).table, levels[i + 1].selector)]

ClassItems ==
  [i \in MCIndexes |-> {n \in 1..Len(Boards[i].table) : Boards[i].table[n].small}]

With(S, mark) ==
  [Plain(S) EXCEPT !.takes = [i \in Items |-> {marks \in @[i] : mark \in marks}]]
Without(S, mark) ==
  [Plain(S) EXCEPT !.takes = [i \in Items |-> {marks \in @[i] : mark \notin marks}]]

Tried == {{}, {Only({})}} \cup {levels[i].selector : i \in 1..7}
RulesAt(l) ==
  LET selects(s) == Select(loadBoard(l.board).table, s)
      marked == {selects({Only({})}), selects(l.selector)}
  IN {Plain(selects(s)) : s \in Tried \cup {l.selector}}
       \cup {With(S, m) : S \in marked, m \in Marks}
       \cup {Without(S, m) : S \in marked, m \in Marks}
       \cup {[Plain(S) EXCEPT !.rooted = TRUE] : S \in marked}
AllRules == [i \in MCIndexes |-> RulesAt(levels[i + 1])]

MCWithClass == ClassItems
MCAnswer == Answers
MCRules == AllRules

------------------------------------------------------------------------------
(* Properties of the level that is on the table *)

\* The selector of a level selects something (fireRule counts no win otherwise, line 259)
\* and exactly what the sentence above the table asks for (doThis, levels.js; order, 403).
AnswerIsTheOrder ==
  level < LevelCount =>
    Answer[level] # {} /\ Answer[level] = doThis(level + 1, Boards[level].table)

\* Table and viewer are built in parallel but closed by different tags: still, hovering over
\* an element of either shows the tooltip of one element and enhances its own markup with
\* what lies inside it, also on the boards that open a plate with "{" and close it with ")"
\* (lines 44-59, 106-111, 322-377).
TooltipsPair == level \in MCIndexes => TooltipsMatch(Boards[level])
================================================================================
