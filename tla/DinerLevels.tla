------------------------------ MODULE DinerLevels ------------------------------
(***************************************************************************)
(* The data of the css diner (restaurant.js, levels.js): the 26 levels with  *)
(* their boards and selectors, how loadBoard turns a board into the table    *)
(* and into the html viewer beside it, what a selector selects on a table,    *)
(* and which elements the tooltips pair.                                     *)
(*                                                                           *)
(* A board is the sequence of its characters.  Table and viewer are trees,   *)
(* kept as the sequence of their elements in document order, each with the   *)
(* index of its parent (0: none).                                            *)
(***************************************************************************)
EXTENDS Naturals, Sequences, FiniteSets, SequencesExt

------------------------------------------------------------------------------
(* Selectors: alternatives, each a compound of tests with at most one         *)
(* combinator and a compound to its left.                                     *)

Test(kind, name, step, from) == [kind |-> kind, name |-> name, step |-> step, from |-> from]
Type(t) == Test("type", t, 0, 0)
Small == Test("class", "small", 0, 0)
NotSmall == Test("not class", "small", 0, 0)
Fancy == Test("id", "fancy", 0, 0)
Empty == Test("empty", "", 0, 0)
NthChild(step, from) == Test("nth-child", "", step, from)
NthLastChild(step, from) == Test("nth-last-child", "", step, from)
NthOfType(step, from) == Test("nth-of-type", "", step, from)
NthLastOfType(step, from) == Test("nth-last-of-type", "", step, from)

Only(right) == [left |-> {}, by |-> "", right |-> right]
Related(left, by, right) == [left |-> left, by |-> by, right |-> right]

Apple == Type("apple")
Plate == Type("plate")
Bento == Type("bento")

SameParent(t, n) == {m \in 1..Len(t) : t[m].parent = t[n].parent}
SameType(t, n) == {m \in SameParent(t, n) : t[m].type = t[n].type}
UpTo(S, n) == Cardinality({m \in S : m <= n})
From(S, n) == Cardinality({m \in S : m >= n})
IsNth(i, s) == \E k \in 0..i : i = s.step * k + s.from

Passes(t, n, s) ==
  CASE s.kind = "type" -> t[n].type = s.name
    [] s.kind = "class" -> t[n].small
    [] s.kind = "not class" -> ~t[n].small
    [] s.kind = "id" -> t[n].fancy
    [] s.kind = "empty" -> \A m \in 1..Len(t) : t[m].parent # n
    [] s.kind = "nth-child" -> IsNth(UpTo(SameParent(t, n), n), s)
    [] s.kind = "nth-last-child" -> IsNth(From(SameParent(t, n), n), s)
    [] s.kind = "nth-of-type" -> IsNth(UpTo(SameType(t, n), n), s)
    [] s.kind = "nth-last-of-type" -> IsNth(From(SameType(t, n), n), s)

PassesAll(t, n, tests) == \A s \in tests : Passes(t, n, s)

\* The elements around element n; a parent comes before its children.
Ancestors(t, n) ==
  LET around[m \in 0..Len(t)] ==
        IF m = 0 THEN {} ELSE ({t[m].parent} \ {0}) \cup around[t[m].parent]
  IN around[n]
Descendants(t, n) == {m \in 1..Len(t) : n \in Ancestors(t, m)}
Before(t, n) == {m \in SameParent(t, n) : m < n}
Adjacent(t, n) == {m \in Before(t, n) : \A k \in Before(t, n) : k <= m}

Relatives(t, n, by) ==
  CASE by = " " -> Ancestors(t, n)
    [] by = ">" -> {t[n].parent} \ {0}
    [] by = "~" -> Before(t, n)
    [] by = "+" -> Adjacent(t, n)

\* What $(".table-wrapper").find(selector) returns, the table itself left out.
Select(t, selector) ==
  {n \in 1..Len(t) : \E a \in selector :
     /\ PassesAll(t, n, a.right)
     /\ a.by = "" \/ \E m \in Relatives(t, n, a.by) : PassesAll(t, m, a.left)}

------------------------------------------------------------------------------
(* levels.js; of each level what the game runs on. *)

Level(board, selector) == [board |-> board, selector |-> selector]

levelsByTypeAndPlace == <<
  Level(<<"(", ")", "(", ")">>, {Only({Plate})}),
  Level(<<"[", "]", "(", ")", "[", "]">>, {Only({Bento})}),
  Level(<<"{", "}", "(", ")", "[", "]">>, {Only({Fancy})}),
  Level(<<"[", "]", "(", "A", ")", "A">>, {Related({Plate}, " ", {Apple})}),
  Level(<<"[", "O", "]", "{", "P", "}", "(", "P", ")">>,
        {Related({Fancy}, " ", {Type("pickle")})}),
  Level(<<"A", "a", "(", "a", ")", "(", ")">>, {Only({Small})}),
  Level(<<"A", "a", "[", "o", "]", "(", "O", ")", "(", "o", ")">>,
        {Only({Type("orange"), Small})}),
  Level(<<"A", "(", "o", ")", "[", "o", "]", "[", "a", "]", "[", "o", "]">>,
        {Related({Bento}, " ", {Type("orange"), Small})}),
  Level(<<"p", "P", "(", "P", ")", "[", "P", "]", "(", "P", ")", "P", "p">>,
        {Only({Plate}), Only({Bento})}),
  Level(<<"A", "(", "o", ")", "[", "]", "[", "O", "]", "{", ")">>, {Only({})}) >>

levelsByRelation == <<
  Level(<<"{", "o", "}", "(", "P", ")", "a", "(", "A", ")">>, {Related({Plate}, " ", {})}),
  Level(<<"[", "a", "]", "(", ")", "a", "(", ")", "A", "a", "a">>,
        {Related({Plate}, "+", {Apple})}),
  Level(<<"P", "[", "o", "]", "p", "P", "(", "P", ")", "(", "p", ")">>,
        {Related({Bento}, "~", {Type("pickle")})}),
  Level(<<"(", "[", "A", "]", ")", "(", "A", ")", "(", ")", "A", "a">>,
        {Related({Plate}, ">", {Apple})}),
  Level(<<"[", "]", "(", ")", "(", "O", "O", "O", ")", "p">>,
        {Related({Plate}, " ", {NthChild(0, 1)})}),
  Level(<<"(", "A", ")", "(", "p", ")", "[", "]", "P", "(", "o", "O", ")", "p">>,
        {Related({Plate}, " ", {NthChild(0, 1), NthLastChild(0, 1)})}),
  Level(<<"{", "a", ")", "(", ")", "(", "o", "O", ")", "p">>,
        {Only({Small, NthLastChild(0, 1)})}),
  Level(<<"(", ")", "(", ")", "(", ")", "{", "}">>, {Only({NthChild(0, 3)})}),
  Level(<<"(", ")", "[", "]", "a", "(", "O", "O", "O", ")", "[", "]">>,
        {Only({Bento, NthLastChild(0, 4)})}) >>

levelsByCount == <<
  Level(<<"A", "a", "a", "a", "(", "o", "O", ")">>, {Only({Apple, NthOfType(0, 1)})}),
  Level(<<"(", ")", "(", ")", "(", ")", "(", ")", "{", "}", "(", ")">>,
        {Only({Plate, NthOfType(2, 0)})}),
  Level(<<"(", ")", "(", "p", ")", "(", "a", ")", "(", ")", "(", "A", ")", "(", ")">>,
        {Only({Plate, NthOfType(2, 3)})}),
  Level(<<"(", "a", "A", ")", "(", "a", ")", "(", "p", ")">>,
        {Only({Apple, NthOfType(0, 1), NthLastOfType(0, 1)})}),
  Level(<<"o", "o", "P", "P", "a", "a">>, {Only({Small, NthLastOfType(0, 1)})}),
  Level(<<"[", "]", "[", "p", "]", "[", "]", "[", "]">>, {Only({Bento, Empty})}),
  Level(<<"{", "a", "}", "(", "A", ")", "A", "(", "o", ")", "p">>,
        {Only({Apple, NotSmall})}) >>

levels == levelsByTypeAndPlace \o levelsByRelation \o levelsByCount

------------------------------------------------------------------------------
(* loadBoard *)

Food == [C |-> "carrot", A |-> "apple", O |-> "orange", P |-> "pickle",
         a |-> "apple", o |-> "orange", p |-> "pickle"]
Opens == [c \in {"{", "(", "["} |-> IF c = "[" THEN "bento" ELSE "plate"]
Closes == [c \in {"}", ")", "]"} |-> IF c = "]" THEN "bento" ELSE "plate"]

\* Fault: "p" is written like "P" (line 351 without the class).
ElementBigPickle(type, c, parent) ==
  [type |-> type, small |-> c \in {"a", "o"}, fancy |-> c = "{", parent |-> parent]

Element(type, c, parent) ==
  [type |-> type, small |-> c \in {"a", "o", "p"}, fancy |-> c = "{", parent |-> parent]

Top(open) == IF open = <<>> THEN 0 ELSE Last(open)

\* An end tag in the table closes up to the nearest open element of its type, if any ...
CloseElement(t, open, type) ==
  LET same == {i \in 1..Len(open) : t[open[i]].type = type}
  IN IF same = {} THEN open ELSE SubSeq(open, 1, Max(same) - 1)
\* ... while all tags of the viewer are divs.
CloseDiv(open) == IF open = <<>> THEN open ELSE Front(open)

\* An element goes to the end of both; a plate or a bento stays open.
WriteElement(s, type, c) ==
  LET t == Append(s.table, Element(type, c, Top(s.open)))
      v == Append(s.viewer, Element(type, c, Top(s.divs)))
      opened(open, n) == IF c \in DOMAIN Opens THEN Append(open, n) ELSE open
  IN [table |-> t, open |-> opened(s.open, Len(t)),
      viewer |-> v, divs |-> opened(s.divs, Len(v))]

\* One turn of the loop over boardString; other characters are passed over.
ReadChar(s, c) ==
  CASE c \in DOMAIN Food -> WriteElement(s, Food[c], c)
    [] c \in DOMAIN Opens -> WriteElement(s, Opens[c], c)
    [] c \in DOMAIN Closes -> [s EXCEPT !.open = CloseElement(s.table, s.open, Closes[c]),
                                        !.divs = CloseDiv(s.divs)]
    [] OTHER -> s

\* The viewer begins with the div of the table itself.
BlankBoard ==
  [table |-> <<>>, open |-> <<>>, viewer |-> <<Element("div", "", 0)>>, divs |-> <<1>>]

\* The loop: what is there after each turn.
Turns(board) ==
  LET turn[k \in 0..Len(board)] ==
        IF k = 0 THEN BlankBoard ELSE ReadChar(turn[k - 1], board[k])
  IN turn

loadBoard(board) == Turns(board)[Len(board)]

\* Every end tag on the board closes the element that was opened last.
WellNested(board) ==
  \A k \in 1..Len(board) : board[k] \in DOMAIN Closes =>
    LET s == Turns(board)[k - 1] IN
    s.open # <<>> /\ s.table[Last(s.open)].type = Closes[board[k]]

------------------------------------------------------------------------------
(* Tooltips *)

\* ".markup > div *"
InnerMarkup(v) == {m \in 1..Len(v) : v[m].parent # 0}

\* showTooltip for the n-th element of the table: what is enhanced in the viewer.
ShowTooltip(b, n) ==
  LET paired == {m \in InnerMarkup(b.viewer) : UpTo(InnerMarkup(b.viewer), m) = n}
  IN paired \cup UNION {Descendants(b.viewer, m) : m \in paired}

\* Fault: the div of the table is counted (line 55 without "-1").
HoverMarkupWithTable(m) == m

\* mouseover on the m-th element of the viewer: the element of the table it shows.
HoverMarkup(m) == m - 1

Label(e) == <<e.type, e.small, e.fancy>>

\* Hovering over an element of the viewer shows the tooltip of its own element of the table, and
\* enhances it in the viewer with what lies inside it and nothing else.
TooltipsMatch(b) ==
  \A m \in InnerMarkup(b.viewer) :
    LET n == HoverMarkup(m) IN
    /\ n \in 1..Len(b.table) /\ Label(b.table[n]) = Label(b.viewer[m])
    /\ ShowTooltip(b, n) = {m} \cup {d + 1 : d \in Descendants(b.table, n)}

------------------------------------------------------------------------------
(* What doThis asks for, read as English about what stands where.             *)

Things(t) == 1..Len(t)
Those(t, type) == {n \in Things(t) : t[n].type = type}
SmallOnes(t) == {n \in Things(t) : t[n].small}
On(t, S, type) == {n \in S : \E m \in Ancestors(t, n) : t[m].type = type}
The(t, i, type) == {n \in Those(t, type) : UpTo(Those(t, type), n) = i}
\* Side by side on the same thing, nothing between them.
NextTo(t, n, m) ==
  /\ n # m /\ t[n].parent = t[m].parent
  /\ \A k \in SameParent(t, n) : ~(n < k /\ k < m) /\ ~(m < k /\ k < n)

doThis(k, t) ==
  CASE k = 1 -> Those(t, "plate")
    [] k = 2 -> Those(t, "bento")
    [] k = 3 -> {n \in Those(t, "plate") : t[n].fancy}
    [] k = 4 -> On(t, Those(t, "apple"), "plate")
    [] k = 5 -> {n \in Those(t, "pickle") : \E m \in Ancestors(t, n) : t[m].fancy}
    [] k = 6 -> Those(t, "apple") \cap SmallOnes(t)
    [] k = 7 -> Those(t, "orange") \cap SmallOnes(t)
    [] k = 8 -> On(t, Those(t, "orange") \cap SmallOnes(t), "bento")
    [] k = 9 -> Those(t, "plate") \cup Those(t, "bento")
    [] k = 10 -> Things(t)
    [] k = 11 -> On(t, Things(t), "plate")
    [] k = 12 -> {n \in Those(t, "apple") : \E m \in Those(t, "plate") : NextTo(t, n, m)}
    [] k = 13 -> {n \in Those(t, "pickle") : \E m \in Those(t, "bento") :
                    t[m].parent = t[n].parent /\ m < n}
    [] k = 14 -> {n \in Those(t, "apple") : t[n].parent \in Those(t, "plate")}
    [] k = 15 -> The(t, 1, "orange")
    [] k = 16 -> On(t, Those(t, "apple") \cup Those(t, "pickle"), "plate")
    [] k = 17 -> (Those(t, "apple") \cap SmallOnes(t)) \cup Those(t, "pickle")
    [] k = 18 -> The(t, 3, "plate")
    [] k = 19 -> The(t, 1, "bento")
    [] k = 20 -> The(t, 1, "apple")
    [] k = 21 -> {n \in Those(t, "plate") : UpTo(Those(t, "plate"), n) % 2 = 0}
    [] k = 22 -> {n \in Those(t, "plate") : UpTo(Those(t, "plate"), n) \in {3, 5, 7}}
    [] k = 23 -> On(t, Those(t, "apple"), "plate") \cap
                 {n \in Things(t) : t[n].parent \in The(t, 2, "plate")}
    [] k = 24 -> The(t, 2, "apple") \cup The(t, 2, "orange")
    [] k = 25 -> {n \in Those(t, "bento") : \A m \in Things(t) : t[m].parent # n}
    [] k = 26 -> Those(t, "apple") \ SmallOnes(t)
================================================================================
