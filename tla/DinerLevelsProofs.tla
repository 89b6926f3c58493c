--------------------------- MODULE DinerLevelsProofs ---------------------------
(***************************************************************************)
(* Theorems about the boards of the css diner: on every board whose end tags *)
(* close the element opened last, table and viewer agree element by element, *)
(* and the tooltips pair what belongs together; any board at all loads into a *)
(* table whose elements stand on earlier ones, and there the selectors of the *)
(* plain levels select what their sentences ask for.                         *)
(***************************************************************************)
EXTENDS MCCssDiner, FiniteSetTheorems, SequenceTheorems, WellFoundedInduction, TLAPS

------------------------------------------------------------------------------
(* Induction, by the least number for which something fails *)

\* A non-empty set of natural numbers has a least one.
LEMMA LeastNumber ==
  ASSUME NEW T \in SUBSET Nat, T # {}
  PROVE  \E x \in T : \A y \in T : x <= y
<1> DEFINE R == OpToRel(<, Nat)
<1>1. R = {p \in Nat \X Nat : p[1] < p[2]}
  BY DEF OpToRel
<1>2. IsWellFoundedOn(R, Nat)
  BY NatLessThanWellFounded
<1> HIDE DEF R
<1>3. PICK x \in T : \A y \in T : ~(<<y, x>> \in R)
  BY <1>2, WFMin
<1>4. ASSUME NEW y \in T
      PROVE  x <= y
  <2>1. x \in Nat /\ y \in Nat
    OBVIOUS
  <2>2. ~(y < x)
    BY <1>1, <1>3, <2>1
  <2>3. QED
    BY <2>1, <2>2
<1>5. QED
  BY <1>4

\* A set of places that has the first and with each place the next has them all.
LEMMA AllPlaces ==
  ASSUME NEW a \in Nat, NEW b \in Nat, NEW P \in SUBSET (a..b), a <= b, a \in P,
         \A k \in (a + 1)..b : k - 1 \in P => k \in P
  PROVE  P = a..b
<1> DEFINE T == (a..b) \ P
<1>1. SUFFICES ASSUME T # {}
               PROVE  FALSE
  OBVIOUS
<1>2. T \in SUBSET Nat
  OBVIOUS
<1>3. PICK k \in T : \A y \in T : k <= y
  BY <1>1, <1>2, LeastNumber
<1>4. k \in (a + 1)..b /\ k - 1 \in a..b /\ ~(k <= k - 1)
  OBVIOUS
<1>5. k - 1 \in P
  BY <1>3, <1>4
<1>6. QED
  BY <1>4, <1>5

------------------------------------------------------------------------------
(* The recursive definitions are what their recursion says *)

\* Function f is the loop over the board up to turn m.
TurnsTo(f, board, m) ==
  f = [k \in 0..m |-> IF k = 0 THEN BlankBoard ELSE ReadChar(f[k - 1], board[k])]

\* There is such a function up to the end of the board.
LEMMA TurnsExist ==
  ASSUME NEW board, Len(board) \in Nat
  PROVE  \E f : TurnsTo(f, board, Len(board))
<1> DEFINE n == Len(board)
           P == {m \in 0..n : \E f : TurnsTo(f, board, m)}
<1>1. 0 \in P
  <2> DEFINE f == [k \in 0..0 |-> BlankBoard]
  <2>1. f = [k \in 0..0 |-> IF k = 0 THEN BlankBoard ELSE ReadChar(f[k - 1], board[k])]
    OBVIOUS
  <2>2. TurnsTo(f, board, 0)
    BY <2>1 DEF TurnsTo
  <2>3. QED
    BY <2>2
<1>2. ASSUME NEW m \in (0 + 1)..n, m - 1 \in P
      PROVE  m \in P
  <2>1. PICK f : TurnsTo(f, board, m - 1)
    BY <1>2
  <2> DEFINE next == ReadChar(f[m - 1], board[m])
             h == [k \in 0..m |-> IF k = m THEN next ELSE f[k]]
  <2>2. f = [k \in 0..(m - 1) |-> IF k = 0 THEN BlankBoard ELSE ReadChar(f[k - 1], board[k])]
    BY <2>1 DEF TurnsTo
  <2>3. ASSUME NEW k \in 0..m
        PROVE  h[k] = IF k = 0 THEN BlankBoard ELSE ReadChar(h[k - 1], board[k])
    <3>1. CASE k = m
      <4>1. k - 1 \in 0..m /\ k - 1 # m /\ k # 0 /\ h[k - 1] = f[m - 1]
        BY <3>1
      <4>2. QED
        BY <3>1, <4>1
    <3>2. CASE k # m /\ k # 0
      <4>1. k \in 0..(m - 1) /\ k - 1 \in 0..m /\ k - 1 # m
        BY <3>2
      <4>2. h[k] = f[k] /\ h[k - 1] = f[k - 1]
        BY <3>2, <4>1
      <4>3. f[k] = ReadChar(f[k - 1], board[k])
        BY <2>2, <3>2, <4>1
      <4>4. QED
        BY <3>2, <4>2, <4>3
    <3>3. CASE k # m /\ k = 0
      <4>1. k \in 0..(m - 1)
        BY <3>3
      <4>2. QED
        BY <2>2, <3>3, <4>1
    <3>4. QED
      BY <3>1, <3>2, <3>3
  <2>4. h = [k \in 0..m |-> IF k = 0 THEN BlankBoard ELSE ReadChar(h[k - 1], board[k])]
    BY <2>3
  <2>5. TurnsTo(h, board, m)
    BY <2>4 DEF TurnsTo
  <2>6. QED
    BY <2>5
<1> HIDE DEF P
<1>3. P = 0..n
  <2>1. P \in SUBSET (0..n)
    BY DEF P
  <2>2. \A m \in (0 + 1)..n : m - 1 \in P => m \in P
    BY <1>2
  <2>3. QED
    BY <1>1, <2>1, <2>2, AllPlaces
<1>4. n \in P
  BY <1>3
<1>5. QED
  BY <1>4 DEF P

\* The loop starts with the blank board and reads a character per turn.
LEMMA TurnsRecursion ==
  ASSUME NEW board, Len(board) \in Nat
  PROVE  /\ Turns(board)[0] = BlankBoard
         /\ \A k \in 1..Len(board) : Turns(board)[k] = ReadChar(Turns(board)[k - 1], board[k])
<1> DEFINE f == Turns(board)
<1>1. TurnsTo(f, board, Len(board))
  <2>1. \E g : g = [k \in 0..Len(board) |->
                      IF k = 0 THEN BlankBoard ELSE ReadChar(g[k - 1], board[k])]
    BY TurnsExist DEF TurnsTo
  <2>2. QED
    BY <2>1, Zenon DEF Turns, TurnsTo
<1> HIDE DEF f
<1>2. f = [k \in 0..Len(board) |-> IF k = 0 THEN BlankBoard ELSE ReadChar(f[k - 1], board[k])]
  BY <1>1 DEF TurnsTo
<1>3. 0 \in 0..Len(board) /\ \A k \in 1..Len(board) : k \in 0..Len(board) /\ k # 0
  OBVIOUS
<1>4. f[0] = BlankBoard /\ \A k \in 1..Len(board) : f[k] = ReadChar(f[k - 1], board[k])
  BY <1>2, <1>3
<1>5. QED
  BY <1>4 DEF f

Types == {Food[c] : c \in DOMAIN Food} \cup {Opens[c] : c \in DOMAIN Opens} \cup {"div"}
Elem == [type : Types, small : BOOLEAN, fancy : BOOLEAN, parent : Nat]

\* A parent comes before its children.
IsTree(t) == t \in Seq(Elem) /\ \A n \in 1..Len(t) : t[n].parent \in 0..(n - 1)

\* Function f gives the ancestors of the elements up to m.
AroundIn(f, t, m) ==
  f = [k \in 0..m |-> IF k = 0 THEN {} ELSE ({t[k].parent} \ {0}) \cup f[t[k].parent]]

\* There is such a function for all of a tree.
LEMMA AroundExists ==
  ASSUME NEW t, IsTree(t)
  PROVE  \E f : AroundIn(f, t, Len(t))
<1> DEFINE n == Len(t)
           P == {m \in 0..n : \E f : AroundIn(f, t, m)}
<1>0. n \in Nat /\ \A k \in 1..n : t[k].parent \in 0..(k - 1)
  BY DEF IsTree
<1>1. 0 \in P
  <2> DEFINE f == [k \in 0..0 |-> {}]
  <2>1. f = [k \in 0..0 |-> IF k = 0 THEN {} ELSE ({t[k].parent} \ {0}) \cup f[t[k].parent]]
    OBVIOUS
  <2>2. AroundIn(f, t, 0)
    BY <2>1 DEF AroundIn
  <2>3. QED
    BY <1>0, <2>2
<1>2. ASSUME NEW m \in (0 + 1)..n, m - 1 \in P
      PROVE  m \in P
  <2>1. PICK f : AroundIn(f, t, m - 1)
    BY <1>2
  <2> DEFINE last == ({t[m].parent} \ {0}) \cup f[t[m].parent]
             h == [k \in 0..m |-> IF k = m THEN last ELSE f[k]]
  <2>2. f = [k \in 0..(m - 1) |->
               IF k = 0 THEN {} ELSE ({t[k].parent} \ {0}) \cup f[t[k].parent]]
    BY <2>1 DEF AroundIn
  <2>3. ASSUME NEW k \in 0..m
        PROVE  h[k] = IF k = 0 THEN {} ELSE ({t[k].parent} \ {0}) \cup h[t[k].parent]
    <3>1. CASE k = 0
      <4>1. k \in 0..(m - 1) /\ k # m
        BY <1>0, <3>1
      <4>2. QED
        BY <2>2, <3>1, <4>1
    <3>2. CASE k # 0
      <4> DEFINE p == t[k].parent
      <4>1. p \in 0..(k - 1) /\ p \in 0..m /\ p # m
        BY <1>0, <3>2
      <4>2. h[p] = f[p]
        BY <4>1
      <4>3. CASE k = m
        BY <3>2, <4>2, <4>3
      <4>4. CASE k # m
        <5>1. k \in 0..(m - 1)
          BY <4>4
        <5>2. f[k] = ({p} \ {0}) \cup f[p]
          BY <2>2, <3>2, <5>1
        <5>3. QED
          BY <3>2, <4>2, <4>4, <5>2
      <4>5. QED
        BY <4>3, <4>4
    <3>3. QED
      BY <3>1, <3>2
  <2>4. h = [k \in 0..m |-> IF k = 0 THEN {} ELSE ({t[k].parent} \ {0}) \cup h[t[k].parent]]
    BY <2>3
  <2>5. AroundIn(h, t, m)
    BY <2>4 DEF AroundIn
  <2>6. QED
    BY <2>5
<1> HIDE DEF P
<1>3. P = 0..n
  <2>1. P \in SUBSET (0..n)
    BY DEF P
  <2>2. \A m \in (0 + 1)..n : m - 1 \in P => m \in P
    BY <1>2
  <2>3. QED
    BY <1>0, <1>1, <2>1, <2>2, AllPlaces
<1>4. n \in P
  BY <1>0, <1>3
<1>5. QED
  BY <1>4 DEF P

\* The ancestors of an element are its parent and the parent's ancestors.
LEMMA AncestorsRecursion ==
  ASSUME NEW t, IsTree(t)
  PROVE  /\ Ancestors(t, 0) = {}
         /\ \A n \in 1..Len(t) :
              Ancestors(t, n) = ({t[n].parent} \ {0}) \cup Ancestors(t, t[n].parent)
<1>1. Len(t) \in Nat /\ \A k \in 1..Len(t) : t[k].parent \in 0..(k - 1)
  BY DEF IsTree
<1> DEFINE F == CHOOSE f : f = [k \in 0..Len(t) |->
                  IF k = 0 THEN {} ELSE ({t[k].parent} \ {0}) \cup f[t[k].parent]]
<1>2. \A n : Ancestors(t, n) = F[n]
  BY Zenon DEF Ancestors
<1>3. F = [k \in 0..Len(t) |-> IF k = 0 THEN {} ELSE ({t[k].parent} \ {0}) \cup F[t[k].parent]]
  <2>1. \E f : f = [k \in 0..Len(t) |->
                  IF k = 0 THEN {} ELSE ({t[k].parent} \ {0}) \cup f[t[k].parent]]
    BY AroundExists DEF AroundIn
  <2>2. QED
    BY <2>1, Zenon
<1> HIDE DEF F
<1>4. 0 \in 0..Len(t) /\ \A k \in 1..Len(t) : k \in 0..Len(t) /\ k # 0
  BY <1>1
<1>5. F[0] = {} /\ \A k \in 1..Len(t) : F[k] = ({t[k].parent} \ {0}) \cup F[t[k].parent]
  BY <1>3, <1>4
<1>6. QED
  BY <1>2, <1>5

------------------------------------------------------------------------------
(* Table and viewer are built in parallel *)

\* The viewer is the table with a div around it, and open there is what is open here.
Parallel(s) ==
  /\ s \in [table : Seq(Elem), open : Seq(Nat), viewer : Seq(Elem), divs : Seq(Nat)]
  /\ Len(s.viewer) = Len(s.table) + 1 /\ s.viewer[1].parent = 0
  /\ \A n \in 1..Len(s.table) :
       /\ s.table[n].parent \in 0..(n - 1)
       /\ s.viewer[n + 1].parent = s.table[n].parent + 1
       /\ Label(s.viewer[n + 1]) = Label(s.table[n])
  /\ Len(s.divs) = Len(s.open) + 1 /\ s.divs[1] = 1
  /\ \A i \in 1..Len(s.open) : s.open[i] \in 1..Len(s.table) /\ s.divs[i + 1] = s.open[i] + 1

\* An element has a label and a parent.
LEMMA ElementIs ==
  ASSUME NEW type \in Types, NEW c, NEW p \in Nat, NEW q \in Nat
  PROVE  /\ Element(type, c, p) \in Elem /\ Element(type, c, p).parent = p
         /\ Label(Element(type, c, p)) = Label(Element(type, c, q))
<1>1. (c \in {"a", "o", "p"}) \in BOOLEAN /\ (c = "{") \in BOOLEAN
  OBVIOUS
<1>2. Element(type, c, p) \in Elem
  BY <1>1 DEF Element, Elem
<1>3. QED
  BY <1>2 DEF Element, Label

\* The board is blank at first.
LEMMA BlankParallel == Parallel(BlankBoard)
<1> DEFINE e == Element("div", "", 0)
<1>1. "div" \in Types
  BY DEF Types
<1>2. e \in Elem /\ e.parent = 0
  BY <1>1, ElementIs
<1> HIDE DEF e
<1>3. /\ BlankBoard = [table |-> <<>>, open |-> <<>>, viewer |-> <<e>>, divs |-> <<1>>]
  BY DEF BlankBoard, e
<1>4. QED
  BY <1>2, <1>3 DEF Parallel

\* An element is written into the element opened last, here and there.
LEMMA TopParallel ==
  ASSUME NEW s, Parallel(s)
  PROVE  Top(s.open) \in 0..Len(s.table) /\ Top(s.divs) = Top(s.open) + 1
<1>1. s.open \in Seq(Nat) /\ s.divs \in Seq(Nat) /\ Len(s.divs) = Len(s.open) + 1 /\ s.divs[1] = 1
      /\ Len(s.table) \in Nat
  BY DEF Parallel
<1>2. \A i \in 1..Len(s.open) : s.open[i] \in 1..Len(s.table) /\ s.divs[i + 1] = s.open[i] + 1
  BY DEF Parallel
<1>3. s.divs # <<>> /\ Top(s.divs) = s.divs[Len(s.open) + 1]
  BY <1>1 DEF Top, Last
<1>4. CASE s.open = <<>>
  BY <1>1, <1>3, <1>4 DEF Top
<1>5. CASE s.open # <<>>
  <2>1. Len(s.open) \in 1..Len(s.open) /\ Top(s.open) = s.open[Len(s.open)]
    BY <1>1, <1>5 DEF Top, Last
  <2>2. s.open[Len(s.open)] \in 1..Len(s.table)
        /\ s.divs[Len(s.open) + 1] = s.open[Len(s.open)] + 1
    BY <1>2, <2>1
  <2>3. QED
    BY <1>1, <1>3, <2>1, <2>2
<1>6. QED
  BY <1>4, <1>5

\* Writing an element keeps table and viewer parallel.
LEMMA WriteParallel ==
  ASSUME NEW s, Parallel(s), NEW type \in Types, NEW c
  PROVE  Parallel(WriteElement(s, type, c))
<1> DEFINE p == Top(s.open)
           q == Top(s.divs)
           d == Element(type, c, p)
           e == Element(type, c, q)
           t == Append(s.table, d)
           v == Append(s.viewer, e)
           w == WriteElement(s, type, c)
<1>1. /\ s.table \in Seq(Elem) /\ s.viewer \in Seq(Elem) /\ s.open \in Seq(Nat)
      /\ s.divs \in Seq(Nat) /\ Len(s.table) \in Nat /\ Len(s.open) \in Nat
      /\ Len(s.viewer) = Len(s.table) + 1 /\ Len(s.divs) = Len(s.open) + 1
      /\ s.viewer[1].parent = 0 /\ s.divs[1] = 1
  BY DEF Parallel
<1>2. p \in 0..Len(s.table) /\ q = p + 1 /\ p \in Nat /\ q \in Nat
  BY TopParallel, <1>1
<1> HIDE DEF p, q
<1>3. d \in Elem /\ e \in Elem /\ d.parent = p /\ e.parent = q /\ Label(e) = Label(d)
  BY <1>2, ElementIs
<1>4. w.table = t /\ w.viewer = v
      /\ w = [table |-> w.table, open |-> w.open, viewer |-> w.viewer, divs |-> w.divs]
  BY DEF WriteElement, p, q
<1>5. \/ w.open = s.open /\ w.divs = s.divs
      \/ w.open = Append(s.open, Len(t)) /\ w.divs = Append(s.divs, Len(v))
  BY DEF WriteElement, p, q
<1> HIDE DEF d, e, w
<1>6. t \in Seq(Elem) /\ Len(t) = Len(s.table) + 1 /\ t[Len(s.table) + 1] = d
      /\ \A i \in 1..Len(s.table) : t[i] = s.table[i]
  BY <1>1, <1>3, AppendProperties
<1>7. v \in Seq(Elem) /\ Len(v) = Len(s.table) + 2 /\ v[Len(s.table) + 2] = e
      /\ \A i \in 1..(Len(s.table) + 1) : v[i] = s.viewer[i]
  <2>1. v \in Seq(Elem) /\ Len(v) = Len(s.viewer) + 1 /\ v[Len(s.viewer) + 1] = e
        /\ \A i \in 1..Len(s.viewer) : v[i] = s.viewer[i]
    BY <1>1, <1>3, AppendProperties
  <2>2. Len(s.viewer) + 1 = Len(s.table) + 2
    BY <1>1
  <2>3. QED
    BY <1>1, <2>1, <2>2
<1> HIDE DEF t, v
<1>8. v[1].parent = 0
  <2>1. 1 \in 1..(Len(s.table) + 1)
    BY <1>1
  <2>2. v[1] = s.viewer[1]
    BY <1>7, <2>1
  <2>3. QED
    BY <1>1, <2>2
<1>9. ASSUME NEW n \in 1..Len(t)
      PROVE  t[n].parent \in 0..(n - 1) /\ v[n + 1].parent = t[n].parent + 1
             /\ Label(v[n + 1]) = Label(t[n])
  <2>1. CASE n = Len(s.table) + 1
    <3>1. n + 1 = Len(s.table) + 2 /\ n - 1 = Len(s.table)
      BY <1>1, <2>1
    <3>2. t[n] = d /\ v[n + 1] = e
      BY <1>6, <1>7, <2>1, <3>1, Zenon
    <3>3. d.parent \in 0..(n - 1) /\ e.parent = d.parent + 1
      BY <1>2, <1>3, <3>1
    <3>4. QED
      BY <1>3, <3>2, <3>3, Zenon
  <2>2. CASE n # Len(s.table) + 1
    <3>1. n \in 1..Len(s.table) /\ n + 1 \in 1..(Len(s.table) + 1)
      BY <1>1, <1>6, <2>2
    <3>2. t[n] = s.table[n] /\ v[n + 1] = s.viewer[n + 1]
      BY <1>6, <1>7, <3>1, Zenon
    <3>3. /\ s.table[n].parent \in 0..(n - 1)
          /\ s.viewer[n + 1].parent = s.table[n].parent + 1
          /\ Label(s.viewer[n + 1]) = Label(s.table[n])
      BY <3>1, Zenon DEF Parallel
    <3>4. QED
      BY <3>2, <3>3, Zenon
  <2>3. QED
    BY <2>1, <2>2
<1>10. /\ w.open \in Seq(Nat) /\ w.divs \in Seq(Nat) /\ Len(w.divs) = Len(w.open) + 1
       /\ w.divs[1] = 1
       /\ \A i \in 1..Len(w.open) : w.open[i] \in 1..Len(t) /\ w.divs[i + 1] = w.open[i] + 1
  <2>1. \A i \in 1..Len(s.open) : s.open[i] \in 1..Len(t) /\ s.divs[i + 1] = s.open[i] + 1
    BY <1>1, <1>6 DEF Parallel
  <2>2. CASE w.open = s.open /\ w.divs = s.divs
    BY <1>1, <2>1, <2>2
  <2>3. CASE w.open = Append(s.open, Len(t)) /\ w.divs = Append(s.divs, Len(v))
    <3> DEFINE k == Len(s.open)
    <3>1. Len(t) \in Nat /\ Len(v) \in Nat /\ Len(v) = Len(t) + 1 /\ Len(t) \in 1..Len(t)
      BY <1>1, <1>6, <1>7
    <3>2. w.open \in Seq(Nat) /\ Len(w.open) = k + 1 /\ w.open[k + 1] = Len(t)
          /\ \A i \in 1..k : w.open[i] = s.open[i]
      BY <1>1, <2>3, <3>1, AppendProperties
    <3>3. w.divs \in Seq(Nat) /\ Len(w.divs) = Len(s.divs) + 1 /\ w.divs[Len(s.divs) + 1] = Len(v)
          /\ \A i \in 1..Len(s.divs) : w.divs[i] = s.divs[i]
      <4> DEFINE u == s.divs
                 m == Len(v)
                 x == w.divs
      <4>1. u \in Seq(Nat) /\ m \in Nat /\ x = Append(u, m)
        BY <1>1, <2>3, <3>1
      <4> HIDE DEF u, m, x
      <4>2. x \in Seq(Nat) /\ Len(x) = Len(u) + 1 /\ x[Len(u) + 1] = m
            /\ \A i \in 1..Len(u) : x[i] = u[i]
        BY <4>1, AppendProperties
      <4>3. QED
        BY <4>2 DEF u, m, x
    <3>4. ASSUME NEW i \in 1..Len(w.open)
          PROVE  w.open[i] \in 1..Len(t) /\ w.divs[i + 1] = w.open[i] + 1
      <4>1. CASE i = k + 1
        BY <1>1, <3>1, <3>2, <3>3, <4>1
      <4>2. CASE i # k + 1
        <5>1. i \in 1..k /\ i + 1 \in 1..Len(s.divs)
          BY <1>1, <3>2, <4>2
        <5>2. w.open[i] = s.open[i] /\ w.divs[i + 1] = s.divs[i + 1]
          BY <3>2, <3>3, <5>1
        <5>3. QED
          BY <2>1, <5>1, <5>2
      <4>3. QED
        BY <4>1, <4>2
    <3>5. w.divs[1] = 1 /\ Len(w.divs) = Len(w.open) + 1
      <4>1. 1 \in 1..Len(s.divs)
        BY <1>1
      <4>2. w.divs[1] = s.divs[1]
        BY <3>3, <4>1
      <4>3. QED
        BY <1>1, <3>2, <3>3, <4>2
    <3>6. QED
      BY <3>2, <3>3, <3>4, <3>5
  <2>4. QED
    BY <1>5, <2>2, <2>3
<1>11. w \in [table : Seq(Elem), open : Seq(Nat), viewer : Seq(Elem), divs : Seq(Nat)]
  BY <1>4, <1>6, <1>7, <1>10
<1>12. Len(w.viewer) = Len(w.table) + 1
  BY <1>1, <1>4, <1>6, <1>7
<1>13. QED
  BY <1>4, <1>8, <1>9, <1>10, <1>11, <1>12 DEF Parallel, w

\* An end tag that closes the element opened last is a step back in both.
LEMMA CloseIsBack ==
  ASSUME NEW t, NEW open \in Seq(Nat), open # <<>>, NEW type, t[Last(open)].type = type
  PROVE  CloseElement(t, open, type) = SubSeq(open, 1, Len(open) - 1)
<1> DEFINE n == Len(open)
           same == {i \in 1..n : t[open[i]].type = type}
<1>1. n \in Nat /\ n \in same
  BY DEF Last
<1>2. \A y \in same : n >= y
  OBVIOUS
<1>3. Max(same) \in same /\ \A y \in same : Max(same) >= y
  <2> HIDE DEF same
  <2>1. \E x \in same : \A y \in same : x >= y
    BY <1>1, <1>2
  <2>2. QED
    BY <2>1 DEF Max
<1>4. Max(same) = n
  BY <1>1, <1>2, <1>3
<1>5. QED
  BY <1>1, <1>4 DEF CloseElement

\* Closing what was opened last keeps table and viewer parallel.
LEMMA CloseParallel ==
  ASSUME NEW s, Parallel(s), NEW type, s.open # <<>>, s.table[Last(s.open)].type = type
  PROVE  Parallel([s EXCEPT !.open = CloseElement(s.table, s.open, type),
                            !.divs = CloseDiv(s.divs)])
<1> DEFINE n == Len(s.open)
           open == CloseElement(s.table, s.open, type)
           divs == CloseDiv(s.divs)
           w == [s EXCEPT !.open = open, !.divs = divs]
<1>0. /\ s \in [table : Seq(Elem), open : Seq(Nat), viewer : Seq(Elem), divs : Seq(Nat)]
      /\ Len(s.divs) = n + 1 /\ s.divs[1] = 1
  BY DEF Parallel
<1>1. /\ s.open \in Seq(Nat) /\ s.divs \in Seq(Nat)
      /\ n \in Nat \ {0} /\ Len(s.divs) = n + 1 /\ s.divs[1] = 1
  BY <1>0
<1>2. open = SubSeq(s.open, 1, n - 1)
  BY <1>1, CloseIsBack
<1>3. divs = SubSeq(s.divs, 1, n)
  BY <1>1 DEF CloseDiv, Front
<1> HIDE DEF open, divs
<1>4. /\ w.table = s.table /\ w.viewer = s.viewer /\ w.open = open /\ w.divs = divs
  BY <1>0
<1> HIDE DEF w
<1>5. w.open \in Seq(Nat) /\ Len(w.open) = n - 1 /\ \A i \in 1..(n - 1) : w.open[i] = s.open[i]
  <2> DEFINE u == s.open
             m == n - 1
  <2>1. \A i \in 1..m : u[i] \in Nat
    <3>1. \A q \in Seq(Nat) : \A i \in 1..Len(q) : q[i] \in Nat
      OBVIOUS
    <3>2. n \in Nat
      BY <1>1
    <3> HIDE DEF n
    <3>3. \A i \in 1..m : i \in 1..n
      BY <3>2
    <3>4. QED
      BY <1>1, <3>1, <3>3, Zenon DEF n
  <2>2. m \in Int /\ 1 \in Int /\ m - 1 + 1 = m /\ (1 <= m \/ m = 0)
    <3>1. n \in Nat /\ n # 0
      BY <1>1
    <3> HIDE DEF n
    <3>2. QED
      BY <3>1
  <2> HIDE DEF u, m
  <2>3. /\ SubSeq(u, 1, m) \in Seq(Nat)
        /\ Len(SubSeq(u, 1, m)) = IF 1 <= m THEN m - 1 + 1 ELSE 0
        /\ \A i \in 1..(m - 1 + 1) : SubSeq(u, 1, m)[i] = u[1 + i - 1]
    BY <2>1, <2>2, SubSeqProperties
  <2>4. Len(SubSeq(u, 1, m)) = m /\ \A i \in 1..m : SubSeq(u, 1, m)[i] = u[i]
    BY <2>2, <2>3
  <2>5. QED
    BY <1>2, <1>4, <2>3, <2>4 DEF u, m
<1>6. w.divs \in Seq(Nat) /\ Len(w.divs) = n /\ \A i \in 1..n : w.divs[i] = s.divs[i]
  BY <1>1, <1>3, <1>4
<1>7. /\ Len(w.divs) = Len(w.open) + 1 /\ w.divs[1] = 1
      /\ \A i \in 1..Len(w.open) : w.open[i] \in 1..Len(w.table) /\ w.divs[i + 1] = w.open[i] + 1
  <2>1. Len(w.divs) = Len(w.open) + 1 /\ w.divs[1] = 1
    <3>1. 1 \in 1..n
      BY <1>1
    <3>2. QED
      BY <1>1, <1>5, <1>6, <3>1
  <2>2. ASSUME NEW i \in 1..Len(w.open)
        PROVE  w.open[i] \in 1..Len(w.table) /\ w.divs[i + 1] = w.open[i] + 1
    <3>1. i \in 1..(n - 1) /\ i \in 1..n /\ i + 1 \in 1..n
      BY <1>1, <1>5
    <3>2. s.open[i] \in 1..Len(s.table) /\ s.divs[i + 1] = s.open[i] + 1
      BY <3>1 DEF Parallel
    <3>3. QED
      BY <1>4, <1>5, <1>6, <3>1, <3>2
  <2>3. QED
    BY <2>1, <2>2
<1>8. w \in [table : Seq(Elem), open : Seq(Nat), viewer : Seq(Elem), divs : Seq(Nat)]
  <2>1. open \in Seq(Nat) /\ divs \in Seq(Nat)
    BY <1>4, <1>5, <1>6
  <2>2. QED
    BY <1>0, <2>1 DEF w
<1>9. QED
  BY <1>4, <1>7, <1>8 DEF Parallel, w, open, divs

\* One turn of the loop keeps table and viewer parallel.
LEMMA ReadParallel ==
  ASSUME NEW s, Parallel(s), NEW c,
         c \in DOMAIN Closes => s.open # <<>> /\ s.table[Last(s.open)].type = Closes[c]
  PROVE  Parallel(ReadChar(s, c))
<1>0. /\ ~(c \in DOMAIN Food /\ c \in DOMAIN Opens) /\ ~(c \in DOMAIN Food /\ c \in DOMAIN Closes)
      /\ ~(c \in DOMAIN Opens /\ c \in DOMAIN Closes)
  BY DEF Food, Opens, Closes
<1>1. CASE c \in DOMAIN Food
  <2>1. ReadChar(s, c) = WriteElement(s, Food[c], c)
    BY <1>0, <1>1 DEF ReadChar
  <2>2. Food[c] \in Types
    BY <1>1, Zenon DEF Types
  <2>3. QED
    BY <2>1, <2>2, WriteParallel
<1>2. CASE c \notin DOMAIN Food /\ c \in DOMAIN Opens
  <2>1. ReadChar(s, c) = WriteElement(s, Opens[c], c)
    BY <1>0, <1>2 DEF ReadChar
  <2>2. Opens[c] \in Types
    BY <1>2, Zenon DEF Types
  <2>3. QED
    BY <2>1, <2>2, WriteParallel
<1>3. CASE c \notin DOMAIN Food /\ c \notin DOMAIN Opens /\ c \in DOMAIN Closes
  <2> DEFINE type == Closes[c]
  <2>1. ReadChar(s, c) = [s EXCEPT !.open = CloseElement(s.table, s.open, type),
                                   !.divs = CloseDiv(s.divs)]
    BY <1>3 DEF ReadChar
  <2>2. s.open # <<>> /\ s.table[Last(s.open)].type = type
    BY <1>3
  <2> HIDE DEF type
  <2>3. Parallel([s EXCEPT !.open = CloseElement(s.table, s.open, type),
                           !.divs = CloseDiv(s.divs)])
    BY <2>2, CloseParallel
  <2>4. QED
    BY <2>1, <2>3
<1>4. CASE c \notin DOMAIN Food /\ c \notin DOMAIN Opens /\ c \notin DOMAIN Closes
  BY <1>4 DEF ReadChar
<1>5. QED
  BY <1>1, <1>2, <1>3, <1>4

\* What loadBoard makes of a well-nested board is a table and the viewer of it.
THEOREM BoardsLoadParallel ==
  \A board : Len(board) \in Nat /\ WellNested(board) => Parallel(loadBoard(board))
<1> SUFFICES ASSUME NEW board, Len(board) \in Nat, WellNested(board)
             PROVE  Parallel(loadBoard(board))
  OBVIOUS
<1> DEFINE n == Len(board)
           P == {k \in 0..n : Parallel(Turns(board)[k])}
<1>1. 0 \in P
  BY BlankParallel, TurnsRecursion
<1>2. ASSUME NEW k \in (0 + 1)..n, k - 1 \in P
      PROVE  k \in P
  <2>1. k \in 1..Len(board) /\ Parallel(Turns(board)[k - 1])
    BY <1>2
  <2>2. Turns(board)[k] = ReadChar(Turns(board)[k - 1], board[k])
    BY <2>1, TurnsRecursion
  <2> DEFINE s == Turns(board)[k - 1]
             c == board[k]
  <2>3. c \in DOMAIN Closes => s.open # <<>> /\ s.table[Last(s.open)].type = Closes[c]
    BY <2>1, Zenon DEF WellNested
  <2> HIDE DEF s, c
  <2>4. Parallel(ReadChar(s, c))
    <3>1. Parallel(s)
      BY <2>1 DEF s
    <3>2. QED
      BY <2>3, <3>1, ReadParallel
  <2>5. Parallel(Turns(board)[k])
    BY <2>2, <2>4 DEF s, c
  <2>6. QED
    BY <2>5
<1>3. P = 0..n
  <2> HIDE DEF P
  <2>1. \A k \in (0 + 1)..n : k - 1 \in P => k \in P
    BY <1>2
  <2>2. P \in SUBSET (0..n) /\ 0 \in Nat /\ 0 <= n
    BY DEF P
  <2>3. QED
    BY <1>1, <2>1, <2>2, AllPlaces
<1>4. n \in P
  BY <1>3
<1>5. QED
  BY <1>4 DEF loadBoard

------------------------------------------------------------------------------
(* What loadBoard makes of any board *)

\* A table: a tree on which the fancy elements are plates ("{" opens a plate, line 343).
IsTable(t) == IsTree(t) /\ \A n \in 1..Len(t) : t[n].fancy => t[n].type = "plate"

\* The state of the loop on any board, also where end tags close what is not open.
Loaded(s) ==
  /\ s \in [table : Seq(Elem), open : Seq(Nat), viewer : Seq(Elem), divs : Seq(Nat)]
  /\ IsTable(s.table)
  /\ \A i \in 1..Len(s.open) : s.open[i] \in 1..Len(s.table)

\* Places up to n that are not none have a last one.
LEMMA LastPlace ==
  ASSUME NEW n \in Nat, NEW S \in SUBSET (1..n), S # {}
  PROVE  Max(S) \in S
<1> DEFINE T == {n - x : x \in S}
<1>1. T \in SUBSET Nat /\ T # {}
  <2>1. \A x \in S : n - x \in Nat
    OBVIOUS
  <2>2. PICK x : x \in S
    OBVIOUS
  <2>3. n - x \in T
    BY <2>2
  <2>4. QED
    BY <2>1, <2>3
<1>2. PICK y \in T : \A z \in T : y <= z
  BY <1>1, LeastNumber
<1>3. PICK x \in S : y = n - x
  BY <1>2
<1>4. \A z \in S : x >= z
  <2> SUFFICES ASSUME NEW z \in S
               PROVE  x >= z
    OBVIOUS
  <2>1. n - x <= n - z
    BY <1>2, <1>3
  <2>2. x \in Nat /\ z \in Nat
    OBVIOUS
  <2>3. QED
    BY <2>1, <2>2
<1>5. QED
  BY <1>3, <1>4 DEF Max

\* An end tag closes some of what is open, or nothing.
LEMMA CloseShortens ==
  ASSUME NEW t, NEW open \in Seq(Nat), NEW type
  PROVE  /\ CloseElement(t, open, type) \in Seq(Nat)
         /\ Len(CloseElement(t, open, type)) <= Len(open)
         /\ \A i \in 1..Len(CloseElement(t, open, type)) : CloseElement(t, open, type)[i] = open[i]
<1> DEFINE same == {i \in 1..Len(open) : t[open[i]].type = type}
<1>1. Len(open) \in Nat
  OBVIOUS
<1>2. CASE same = {}
  <2>1. CloseElement(t, open, type) = open
    BY <1>2 DEF CloseElement
  <2>2. QED
    BY <1>1, <2>1
<1>3. CASE same # {}
  <2>1. CloseElement(t, open, type) = SubSeq(open, 1, Max(same) - 1)
    BY <1>3 DEF CloseElement
  <2>2. same \in SUBSET (1..Len(open))
    OBVIOUS
  <2> HIDE DEF same
  <2>3. Max(same) \in 1..Len(open)
    BY <1>1, <1>3, <2>2, LastPlace
  <2> DEFINE m == Max(same) - 1
  <2>4. m \in Nat /\ m <= Len(open)
    BY <1>1, <2>3
  <2> HIDE DEF m
  <2>5. /\ SubSeq(open, 1, m) \in Seq(Nat) /\ Len(SubSeq(open, 1, m)) = m
        /\ \A i \in 1..m : SubSeq(open, 1, m)[i] = open[i]
    BY <1>1, <2>4
  <2>6. QED
    BY <2>1, <2>4, <2>5 DEF m
<1>4. QED
  BY <1>2, <1>3

\* The viewer's end tag too.
LEMMA CloseDivType ==
  ASSUME NEW open \in Seq(Nat)
  PROVE  CloseDiv(open) \in Seq(Nat)
<1>1. CASE open = <<>>
  BY <1>1 DEF CloseDiv
<1>2. CASE open # <<>>
  <2>1. CloseDiv(open) = SubSeq(open, 1, Len(open) - 1)
    BY <1>2 DEF CloseDiv, Front
  <2>2. Len(open) \in Nat \ {0}
    BY <1>2
  <2>3. QED
    BY <2>1, <2>2
<1>3. QED
  BY <1>1, <1>2

\* The element opened last, or none.
LEMMA TopType ==
  ASSUME NEW open \in Seq(Nat)
  PROVE  Top(open) \in Nat /\ (Top(open) = 0 \/ \E i \in 1..Len(open) : Top(open) = open[i])
<1>1. CASE open = <<>>
  BY <1>1 DEF Top
<1>2. CASE open # <<>>
  <2>1. Top(open) = open[Len(open)] /\ Len(open) \in 1..Len(open)
    BY <1>2 DEF Top, Last
  <2>2. QED
    BY <2>1
<1>3. QED
  BY <1>1, <1>2

\* The character of the fancy things is that of a plate.
FancyIsPlate(type, c) == c = "{" => type = "plate"

\* Writing an element appends one child of an open element to the table.
LEMMA WriteLoads ==
  ASSUME NEW s, Loaded(s), NEW type \in Types, NEW c, FancyIsPlate(type, c)
  PROVE  Loaded(WriteElement(s, type, c))
<1> DEFINE p == Top(s.open)
           q == Top(s.divs)
           d == Element(type, c, p)
           e == Element(type, c, q)
           t == Append(s.table, d)
           v == Append(s.viewer, e)
           w == WriteElement(s, type, c)
<1>1. /\ s.table \in Seq(Elem) /\ s.viewer \in Seq(Elem) /\ s.open \in Seq(Nat)
      /\ s.divs \in Seq(Nat) /\ Len(s.table) \in Nat /\ Len(s.viewer) \in Nat
      /\ Len(s.open) \in Nat /\ IsTable(s.table)
      /\ \A i \in 1..Len(s.open) : s.open[i] \in 1..Len(s.table)
  BY DEF Loaded
<1>2. p \in Nat /\ q \in Nat /\ p \in 0..Len(s.table)
  <2>1. p \in Nat /\ (p = 0 \/ \E i \in 1..Len(s.open) : p = s.open[i])
    BY <1>1, TopType
  <2>2. q \in Nat
    BY <1>1, TopType
  <2> HIDE DEF p, q
  <2>3. p \in 0..Len(s.table)
    BY <1>1, <2>1
  <2>4. QED
    BY <2>1, <2>2, <2>3
<1>3. d.fancy => d.type = "plate"
  BY DEF Element, FancyIsPlate
<1>4. /\ w.table = t /\ w.viewer = v
      /\ w.open = s.open \/ w.open = Append(s.open, Len(t))
      /\ w.divs = s.divs \/ w.divs = Append(s.divs, Len(v))
      /\ w = [table |-> w.table, open |-> w.open, viewer |-> w.viewer, divs |-> w.divs]
  BY DEF WriteElement, p, q
<1> HIDE DEF p, q
<1>5. d \in Elem /\ e \in Elem /\ d.parent = p
  BY <1>2, ElementIs
<1> HIDE DEF d, e, w
<1>6. t \in Seq(Elem) /\ Len(t) = Len(s.table) + 1 /\ t[Len(s.table) + 1] = d
      /\ \A i \in 1..Len(s.table) : t[i] = s.table[i]
  BY <1>1, <1>5, AppendProperties
<1>7. v \in Seq(Elem) /\ Len(v) \in Nat
  BY <1>1, <1>5, AppendProperties
<1> HIDE DEF t, v
<1>8. IsTable(t)
  <2>1. ASSUME NEW n \in 1..Len(t)
        PROVE  t[n].parent \in 0..(n - 1) /\ (t[n].fancy => t[n].type = "plate")
    <3>1. CASE n = Len(s.table) + 1
      BY <1>1, <1>2, <1>3, <1>5, <1>6, <3>1
    <3>2. CASE n # Len(s.table) + 1
      <4>1. n \in 1..Len(s.table)
        BY <1>1, <1>6, <3>2
      <4>2. QED
        BY <1>1, <1>6, <4>1 DEF IsTable, IsTree
    <3>3. QED
      BY <3>1, <3>2
  <2>2. QED
    BY <1>6, <2>1 DEF IsTable, IsTree
<1>9. /\ w.open \in Seq(Nat)
      /\ \A i \in 1..Len(w.open) : w.open[i] \in 1..Len(t)
  <2>1. CASE w.open = s.open
    BY <1>1, <1>6, <2>1
  <2>2. CASE w.open = Append(s.open, Len(t))
    <3>1. Len(t) \in Nat /\ Len(t) \in 1..Len(t)
      BY <1>1, <1>6
    <3>2. /\ w.open \in Seq(Nat) /\ Len(w.open) = Len(s.open) + 1
          /\ w.open[Len(s.open) + 1] = Len(t)
          /\ \A i \in 1..Len(s.open) : w.open[i] = s.open[i]
      BY <1>1, <2>2, <3>1, AppendProperties
    <3>3. ASSUME NEW i \in 1..Len(w.open)
          PROVE  w.open[i] \in 1..Len(t)
      <4>1. CASE i = Len(s.open) + 1
        BY <3>1, <3>2, <4>1
      <4>2. CASE i # Len(s.open) + 1
        <5>1. i \in 1..Len(s.open)
          BY <1>1, <3>2, <4>2
        <5>2. w.open[i] = s.open[i] /\ s.open[i] \in 1..Len(s.table)
          BY <1>1, <3>2, <5>1
        <5>3. QED
          BY <1>1, <1>6, <5>2
      <4>3. QED
        BY <4>1, <4>2
    <3>4. QED
      BY <3>2, <3>3
  <2>3. QED
    BY <1>4, <2>1, <2>2
<1>10. w.divs \in Seq(Nat)
  <2>1. Append(s.divs, Len(v)) \in Seq(Nat)
    <3> DEFINE u == s.divs
               m == Len(v)
    <3>1. u \in Seq(Nat) /\ m \in Nat
      BY <1>1, <1>7
    <3> HIDE DEF u, m
    <3>2. Append(u, m) \in Seq(Nat)
      BY <3>1, AppendProperties
    <3>3. QED
      BY <3>2 DEF u, m
  <2>2. QED
    BY <1>1, <1>4, <2>1
<1>11. w \in [table : Seq(Elem), open : Seq(Nat), viewer : Seq(Elem), divs : Seq(Nat)]
  BY <1>4, <1>6, <1>7, <1>9, <1>10
<1>12. QED
  BY <1>4, <1>8, <1>9, <1>11 DEF Loaded, w

\* One turn of the loop, whatever the character and whatever is open.
LEMMA ReadLoads ==
  ASSUME NEW s, Loaded(s), NEW c
  PROVE  Loaded(ReadChar(s, c))
<1>0. /\ ~(c \in DOMAIN Food /\ c \in DOMAIN Opens) /\ ~(c \in DOMAIN Food /\ c \in DOMAIN Closes)
      /\ ~(c \in DOMAIN Opens /\ c \in DOMAIN Closes) /\ "{" \notin DOMAIN Food
      /\ Opens["{"] = "plate"
  BY DEF Food, Opens, Closes
<1>1. CASE c \in DOMAIN Food
  <2>1. ReadChar(s, c) = WriteElement(s, Food[c], c)
    BY <1>0, <1>1 DEF ReadChar
  <2>2. Food[c] \in Types
    BY <1>1, Zenon DEF Types
  <2>3. FancyIsPlate(Food[c], c)
    BY <1>0, <1>1, Zenon DEF FancyIsPlate
  <2>4. QED
    BY <2>1, <2>2, <2>3, WriteLoads
<1>2. CASE c \notin DOMAIN Food /\ c \in DOMAIN Opens
  <2>1. ReadChar(s, c) = WriteElement(s, Opens[c], c)
    BY <1>0, <1>2 DEF ReadChar
  <2>2. Opens[c] \in Types
    BY <1>2, Zenon DEF Types
  <2>3. FancyIsPlate(Opens[c], c)
    BY <1>0, Zenon DEF FancyIsPlate
  <2>4. QED
    BY <2>1, <2>2, <2>3, WriteLoads
<1>3. CASE c \notin DOMAIN Food /\ c \notin DOMAIN Opens /\ c \in DOMAIN Closes
  <2> DEFINE type == Closes[c]
             open == CloseElement(s.table, s.open, type)
             divs == CloseDiv(s.divs)
             w == [s EXCEPT !.open = open, !.divs = divs]
  <2>1. ReadChar(s, c) = w
    BY <1>3 DEF ReadChar
  <2>2. /\ s \in [table : Seq(Elem), open : Seq(Nat), viewer : Seq(Elem), divs : Seq(Nat)]
        /\ IsTable(s.table)
        /\ \A i \in 1..Len(s.open) : s.open[i] \in 1..Len(s.table)
    BY DEF Loaded
  <2>3. open \in Seq(Nat) /\ Len(open) <= Len(s.open) /\ \A i \in 1..Len(open) : open[i] = s.open[i]
    BY <2>2, CloseShortens
  <2>4. divs \in Seq(Nat)
    BY <2>2, CloseDivType
  <2> HIDE DEF open, divs
  <2>5. /\ w \in [table : Seq(Elem), open : Seq(Nat), viewer : Seq(Elem), divs : Seq(Nat)]
        /\ w.table = s.table /\ w.open = open
    BY <2>2, <2>3, <2>4
  <2>6. \A i \in 1..Len(open) : open[i] \in 1..Len(s.table)
    BY <2>2, <2>3
  <2>7. QED
    BY <2>1, <2>2, <2>5, <2>6 DEF Loaded
<1>4. CASE c \notin DOMAIN Food /\ c \notin DOMAIN Opens /\ c \notin DOMAIN Closes
  BY <1>4 DEF ReadChar
<1>5. QED
  BY <1>1, <1>2, <1>3, <1>4

\* Whatever is written on a board, loadBoard makes a table of it: a stray end tag closes
\* nothing that is needed, and what is not a letter of the board is passed over.
THEOREM BoardsLoadTables ==
  \A board \in Seq(STRING) : IsTable(loadBoard(board).table)
<1> SUFFICES ASSUME NEW board \in Seq(STRING)
             PROVE  IsTable(loadBoard(board).table)
  OBVIOUS
<1> DEFINE n == Len(board)
           P == {k \in 0..n : Loaded(Turns(board)[k])}
<1>0. Len(board) \in Nat
  OBVIOUS
<1>1. 0 \in P
  <2>1. Loaded(BlankBoard)
    <3>1. Parallel(BlankBoard) /\ BlankBoard.table = <<>> /\ BlankBoard.open = <<>>
      BY BlankParallel DEF BlankBoard
    <3>2. QED
      BY <3>1 DEF Parallel, Loaded, IsTable, IsTree
  <2>2. Turns(board)[0] = BlankBoard
    BY <1>0, TurnsRecursion
  <2>3. QED
    BY <1>0, <2>1, <2>2
<1>2. ASSUME NEW k \in (0 + 1)..n, k - 1 \in P
      PROVE  k \in P
  <2>1. k \in 1..Len(board) /\ Loaded(Turns(board)[k - 1])
    BY <1>2
  <2>2. Turns(board)[k] = ReadChar(Turns(board)[k - 1], board[k])
    BY <1>0, <2>1, TurnsRecursion
  <2>3. Loaded(Turns(board)[k])
    BY <2>1, <2>2, ReadLoads
  <2>4. QED
    BY <2>3
<1>3. P = 0..n
  <2> HIDE DEF P
  <2>1. \A k \in (0 + 1)..n : k - 1 \in P => k \in P
    BY <1>2
  <2>2. P \in SUBSET (0..n) /\ 0 \in Nat /\ 0 <= n
    BY <1>0 DEF P
  <2>3. QED
    BY <1>0, <1>1, <2>1, <2>2, AllPlaces
<1>4. n \in P
  BY <1>0, <1>3
<1>5. QED
  BY <1>4 DEF loadBoard, Loaded

------------------------------------------------------------------------------
(* The tooltips *)

\* The ancestors of element k, and those of its div: the table's own div and theirs.
ShiftsTo(t, v, k) ==
  /\ Ancestors(t, k) \subseteq Nat
  /\ Ancestors(v, k + 1) = IF k = 0 THEN {} ELSE {1} \cup {a + 1 : a \in Ancestors(t, k)}

\* Table and viewer are trees.
LEMMA ParallelTrees ==
  ASSUME NEW b, Parallel(b)
  PROVE  IsTree(b.table) /\ IsTree(b.viewer)
<1>1. /\ b.table \in Seq(Elem) /\ b.viewer \in Seq(Elem) /\ Len(b.table) \in Nat
      /\ Len(b.viewer) = Len(b.table) + 1 /\ b.viewer[1].parent = 0
  BY DEF Parallel
<1>2. \A n \in 1..Len(b.table) : b.table[n].parent \in 0..(n - 1)
                                 /\ b.viewer[n + 1].parent = b.table[n].parent + 1
  BY DEF Parallel
<1>3. ASSUME NEW m \in 1..Len(b.viewer)
      PROVE  b.viewer[m].parent \in 0..(m - 1)
  <2>1. CASE m = 1
    BY <1>1, <2>1
  <2>2. CASE m # 1
    <3> DEFINE n == m - 1
    <3>1. n \in 1..Len(b.table) /\ n + 1 = m
      BY <1>1, <2>2
    <3> HIDE DEF n
    <3>2. b.table[n].parent \in 0..(n - 1) /\ b.viewer[n + 1].parent = b.table[n].parent + 1
      BY <1>2, <3>1
    <3>3. QED
      BY <3>1, <3>2
  <2>3. QED
    BY <2>1, <2>2
<1>4. QED
  BY <1>1, <1>2, <1>3 DEF IsTree

\* The ancestors of a div are the divs of the ancestors, and the table's.
LEMMA AncestorsShift ==
  ASSUME NEW b, Parallel(b), NEW k \in 0..Len(b.table)
  PROVE  ShiftsTo(b.table, b.viewer, k)
<1> DEFINE t == b.table
           v == b.viewer
           n == Len(t)
           P == {m \in 0..n : \A j \in 0..m : ShiftsTo(t, v, j)}
<1>1. /\ n \in Nat /\ Len(v) = n + 1 /\ v[1].parent = 0
      /\ \A m \in 1..n : t[m].parent \in 0..(m - 1) /\ v[m + 1].parent = t[m].parent + 1
  BY DEF Parallel
<1>2. /\ Ancestors(t, 0) = {} /\ Ancestors(v, 0) = {}
      /\ \A m \in 1..n : Ancestors(t, m) = ({t[m].parent} \ {0}) \cup Ancestors(t, t[m].parent)
      /\ \A m \in 1..Len(v) :
           Ancestors(v, m) = ({v[m].parent} \ {0}) \cup Ancestors(v, v[m].parent)
  BY ParallelTrees, AncestorsRecursion
<1> HIDE DEF t, v
<1>3. ShiftsTo(t, v, 0)
  <2>1. 1 \in 1..Len(v) /\ 0 + 1 = 1
    BY <1>1
  <2>2. Ancestors(v, 1) = {}
    BY <1>1, <1>2, <2>1
  <2>3. QED
    BY <1>2, <2>1, <2>2 DEF ShiftsTo
<1>4. ASSUME NEW m \in 1..n, \A j \in 0..(m - 1) : ShiftsTo(t, v, j)
      PROVE  ShiftsTo(t, v, m)
  <2> DEFINE p == t[m].parent
  <2>1. p \in 0..(m - 1) /\ p \in Nat /\ v[m + 1].parent = p + 1 /\ p + 1 # 0
        /\ m + 1 \in 1..Len(v) /\ m # 0
    BY <1>1
  <2>2. Ancestors(t, m) = ({p} \ {0}) \cup Ancestors(t, p)
    BY <1>2
  <2>3. Ancestors(v, m + 1) = {p + 1} \cup Ancestors(v, p + 1)
    BY <1>2, <2>1
  <2> HIDE DEF p
  <2>4. /\ Ancestors(t, p) \subseteq Nat
        /\ Ancestors(v, p + 1) = IF p = 0 THEN {} ELSE {1} \cup {a + 1 : a \in Ancestors(t, p)}
    BY <1>4, <2>1 DEF ShiftsTo
  <2>5. Ancestors(t, m) \subseteq Nat
    BY <2>1, <2>2, <2>4
  <2>6. Ancestors(v, m + 1) = {1} \cup {a + 1 : a \in Ancestors(t, m)}
    <3>1. CASE p = 0
      BY <1>2, <2>2, <2>3, <2>4, <3>1
    <3>2. CASE p # 0
      <4>1. {a + 1 : a \in Ancestors(t, m)} = {p + 1} \cup {a + 1 : a \in Ancestors(t, p)}
        BY <2>2, <3>2
      <4>2. Ancestors(v, m + 1) = {p + 1} \cup ({1} \cup {a + 1 : a \in Ancestors(t, p)})
        BY <2>3, <2>4, <3>2
      <4>3. QED
        BY <4>1, <4>2
    <3>3. QED
      BY <3>1, <3>2
  <2>7. QED
    BY <2>1, <2>5, <2>6 DEF ShiftsTo
<1>5. P = 0..n
  <2>1. 0 \in P
    BY <1>1, <1>3
  <2>2. ASSUME NEW m \in (0 + 1)..n, m - 1 \in P
        PROVE  m \in P
    <3>1. m \in 1..n /\ \A j \in 0..(m - 1) : ShiftsTo(t, v, j)
      BY <2>2
    <3>2. ShiftsTo(t, v, m)
      BY <1>4, <3>1
    <3>3. \A j \in 0..m : j \in 0..(m - 1) \/ j = m
      OBVIOUS
    <3>4. QED
      BY <3>1, <3>2, <3>3
  <2> HIDE DEF P
  <2>3. \A m \in (0 + 1)..n : m - 1 \in P => m \in P
    BY <2>2
  <2>4. P \in SUBSET (0..n) /\ 0 \in Nat /\ 0 <= n
    BY <1>1 DEF P
  <2>5. QED
    BY <1>1, <2>1, <2>3, <2>4, AllPlaces
<1>6. k \in P /\ k \in 0..k
  BY <1>5 DEF t
<1>7. QED
  BY <1>6 DEF t, v

\* What lies inside the div of an element are the divs of what lies inside the element.
LEMMA DescendantsShift ==
  ASSUME NEW b, Parallel(b), NEW n \in 1..Len(b.table)
  PROVE  Descendants(b.viewer, n + 1) = {d + 1 : d \in Descendants(b.table, n)}
<1> DEFINE t == b.table
           v == b.viewer
<1>1. Len(t) \in Nat /\ Len(v) = Len(t) + 1 /\ n \in Nat \ {0} /\ n + 1 # 1
  BY DEF Parallel
<1>2. \A k \in 0..Len(t) : ShiftsTo(t, v, k)
  BY AncestorsShift
<1> HIDE DEF t, v
<1>3. \A k \in 1..Len(t) : n + 1 \in Ancestors(v, k + 1) <=> n \in Ancestors(t, k)
  <2>1. SUFFICES ASSUME NEW k \in 1..Len(t)
                 PROVE  n + 1 \in Ancestors(v, k + 1) <=> n \in Ancestors(t, k)
    OBVIOUS
  <2>2. Ancestors(t, k) \subseteq Nat
        /\ Ancestors(v, k + 1) = {1} \cup {a + 1 : a \in Ancestors(t, k)}
    <3>1. k \in 0..Len(t) /\ k # 0
      BY <1>1
    <3>2. ShiftsTo(t, v, k)
      BY <1>2, <3>1
    <3>3. QED
      BY <3>1, <3>2 DEF ShiftsTo
  <2>3. \A a \in Ancestors(t, k) : n + 1 = a + 1 => n = a
    BY <1>1, <2>2
  <2>4. QED
    BY <1>1, <2>2, <2>3
<1>4. ~(n + 1 \in Ancestors(v, 1))
  <2>1. 0 \in 0..Len(t) /\ 0 + 1 = 1
    BY <1>1
  <2>2. Ancestors(v, 1) = {}
    BY <1>2, <2>1 DEF ShiftsTo
  <2>3. QED
    BY <2>2
<1>5. ASSUME NEW m \in Descendants(v, n + 1)
      PROVE  m \in {d + 1 : d \in Descendants(t, n)}
  <2>1. m \in 1..Len(v) /\ n + 1 \in Ancestors(v, m) /\ m # 1
    BY <1>4 DEF Descendants
  <2>2. m - 1 \in 1..Len(t) /\ (m - 1) + 1 = m
    BY <1>1, <2>1
  <2>3. n \in Ancestors(t, m - 1)
    BY <1>3, <2>1, <2>2
  <2>4. m - 1 \in Descendants(t, n)
    BY <2>2, <2>3 DEF Descendants
  <2>5. QED
    BY <2>2, <2>4
<1>6. ASSUME NEW d \in Descendants(t, n)
      PROVE  d + 1 \in Descendants(v, n + 1)
  BY <1>1, <1>3 DEF Descendants
<1>7. QED
  BY <1>5, <1>6 DEF t, v

\* The divs inside the table's div are counted by their places.
LEMMA InnerMarkupCounts ==
  ASSUME NEW b, Parallel(b)
  PROVE  /\ InnerMarkup(b.viewer) = 2..(Len(b.table) + 1)
         /\ \A m \in InnerMarkup(b.viewer) : UpTo(InnerMarkup(b.viewer), m) = m - 1
<1> DEFINE t == b.table
           v == b.viewer
           S == InnerMarkup(v)
<1>1. /\ Len(t) \in Nat /\ Len(v) = Len(t) + 1 /\ v[1].parent = 0
      /\ \A n \in 1..Len(t) : t[n].parent \in 0..(n - 1) /\ v[n + 1].parent = t[n].parent + 1
  BY DEF Parallel
<1> HIDE DEF t, v
<1>2. ASSUME NEW m \in 1..Len(v)
      PROVE  v[m].parent # 0 <=> m \in 2..(Len(t) + 1)
  <2>1. CASE m = 1
    BY <1>1, <2>1
  <2>2. CASE m # 1
    <3> DEFINE n == m - 1
    <3>1. n \in 1..Len(t) /\ n + 1 = m
      BY <1>1, <2>2
    <3> HIDE DEF n
    <3>2. t[n].parent \in 0..(n - 1) /\ v[n + 1].parent = t[n].parent + 1
      BY <1>1, <3>1
    <3>3. QED
      BY <1>1, <3>1, <3>2
  <2>3. QED
    BY <2>1, <2>2
<1>3. S = 2..(Len(t) + 1)
  BY <1>1, <1>2 DEF InnerMarkup
<1>4. ASSUME NEW m \in S
      PROVE  UpTo(S, m) = m - 1
  <2>1. m \in 2..(Len(t) + 1)
    BY <1>3
  <2>2. {k \in S : k <= m} = 2..m
    BY <1>1, <1>3, <2>1
  <2>3. m \in Int /\ 2 \in Int /\ ~(2 > m) /\ m - 2 + 1 = m - 1
    BY <1>1, <2>1
  <2>4. Cardinality(2..m) = IF 2 > m THEN 0 ELSE m - 2 + 1
    BY <2>3, FS_Interval
  <2> HIDE DEF S
  <2>5. UpTo(S, m) = Cardinality(2..m)
    BY <2>2 DEF UpTo
  <2>6. QED
    BY <2>3, <2>4, <2>5
<1>5. QED
  BY <1>3, <1>4 DEF t, v

\* Parallel table and viewer have matching tooltips.
LEMMA ParallelMatch ==
  ASSUME NEW b, Parallel(b)
  PROVE  TooltipsMatch(b)
<1> DEFINE S == InnerMarkup(b.viewer)
<1>1. Len(b.table) \in Nat /\ S = 2..(Len(b.table) + 1) /\ \A m \in S : UpTo(S, m) = m - 1
  <2>1. Len(b.table) \in Nat
    BY DEF Parallel
  <2>2. QED
    BY <2>1, InnerMarkupCounts, Zenon
<1>2. ASSUME NEW m \in S
      PROVE  /\ m - 1 \in 1..Len(b.table)
             /\ Label(b.table[m - 1]) = Label(b.viewer[m])
             /\ ShowTooltip(b, m - 1) = {m} \cup {d + 1 : d \in Descendants(b.table, m - 1)}
  <2> DEFINE n == m - 1
             paired == {k \in S : UpTo(S, k) = n}
  <2>1. n \in 1..Len(b.table) /\ n + 1 = m
    BY <1>1
  <2>2. Label(b.table[n]) = Label(b.viewer[n + 1])
    BY <2>1 DEF Parallel
  <2>3. paired = {m}
    <3>1. \A k \in S : UpTo(S, k) = n <=> k = m
      BY <1>1
    <3>2. QED
      BY <3>1
  <2>4. ShowTooltip(b, n) = paired \cup UNION {Descendants(b.viewer, k) : k \in paired}
    BY DEF ShowTooltip
  <2>5. ShowTooltip(b, n) = {m} \cup Descendants(b.viewer, m)
    <3> HIDE DEF paired, n
    <3>1. QED
      BY <2>3, <2>4
  <2>6. Descendants(b.viewer, n + 1) = {d + 1 : d \in Descendants(b.table, n)}
    BY <2>1, DescendantsShift
  <2> HIDE DEF n
  <2>7. /\ n \in 1..Len(b.table) /\ Label(b.table[n]) = Label(b.viewer[m])
        /\ ShowTooltip(b, n) = {m} \cup {d + 1 : d \in Descendants(b.table, n)}
    BY <2>1, <2>2, <2>5, <2>6
  <2>8. QED
    BY <2>7 DEF n
<1>3. QED
  BY <1>2 DEF TooltipsMatch, HoverMarkup

\* On every well-nested board, of whatever length and depth, hovering shows the tooltip of
\* one element and enhances its own markup (lines 44-59, 106-111, 322-377): "{" may be closed
\* with ")", and what is not a letter of the board is passed over.
THEOREM NestedBoardsMatch ==
  \A board \in Seq(STRING) : WellNested(board) => TooltipsMatch(loadBoard(board))
<1> SUFFICES ASSUME NEW board \in Seq(STRING), WellNested(board)
             PROVE  TooltipsMatch(loadBoard(board))
  OBVIOUS
<1>1. Len(board) \in Nat
  OBVIOUS
<1>2. QED
  BY <1>1, BoardsLoadParallel, ParallelMatch

\* The game has levels.
LEMMA CountOfLevels == Len(levels) \in Nat
BY DEF levels, levelsByTypeAndPlace, levelsByRelation, levelsByCount

\* So the tooltips of every level pair, whatever the player does.
THEOREM LevelsPair == Spec => []TooltipsPair
<1>1. TooltipsPair
  <2>1. SUFFICES ASSUME level \in MCIndexes
                 PROVE  TooltipsMatch(Boards[level])
    BY DEF TooltipsPair
  <2> DEFINE board == levels[level + 1].board
  <2>2. level + 1 \in 1..Len(levels)
    BY <2>1, CountOfLevels DEF MCIndexes, MCLevelCount
  <2>3. board \in Seq(STRING) /\ WellNested(board)
    BY <2>2, BoardsAssumption
  <2>4. Boards[level] = loadBoard(board)
    BY <2>1 DEF Boards
  <2>5. QED
    BY <2>3, <2>4, NestedBoardsMatch
<1>2. QED
  BY <1>1, PTL
------------------------------------------------------------------------------
(* The levels: what is asked for and what is selected *)

\* One sequence after another.
LEMMA Joined ==
  ASSUME NEW S, NEW a \in Seq(S), NEW b \in Seq(S)
  PROVE  /\ a \o b \in Seq(S) /\ Len(a \o b) = Len(a) + Len(b)
         /\ \A i \in 1..Len(a) : (a \o b)[i] = a[i]
         /\ \A i \in 1..Len(b) : (a \o b)[Len(a) + i] = b[i]
<1> DEFINE m == Len(a)
           n == Len(b)
<1>1. m \in Nat /\ n \in Nat
  OBVIOUS
<1>2. /\ a \o b \in Seq(S) /\ Len(a \o b) = m + n
      /\ \A i \in 1..(m + n) : (a \o b)[i] = IF i <= m THEN a[i] ELSE b[i - m]
  BY ConcatProperties
<1> HIDE DEF m, n
<1>3. \A i \in 1..m : i \in 1..(m + n) /\ i <= m
  BY <1>1
<1>4. \A i \in 1..n : m + i \in 1..(m + n) /\ ~(m + i <= m) /\ (m + i) - m = i
  BY <1>1
<1>5. \A i \in 1..m : (a \o b)[i] = a[i]
  BY <1>2, <1>3
<1>6. \A i \in 1..n : (a \o b)[m + i] = b[i]
  BY <1>2, <1>4
<1>7. QED
  BY <1>2, <1>5, <1>6 DEF m, n

\* What is given at the places up to n is a sequence.
LEMMA PlacesAreSequence ==
  ASSUME NEW S, NEW n \in Nat, NEW f, f = [i \in 1..n |-> f[i]], \A i \in 1..n : f[i] \in S
  PROVE  f \in Seq(S) /\ Len(f) = n
<1>1. f \in [1..n -> S]
  OBVIOUS
<1>2. QED
  BY <1>1

\* Three sequences one after another.
LEMMA ThreeJoined ==
  ASSUME NEW S, NEW a \in Seq(S), NEW b \in Seq(S), NEW c \in Seq(S)
  PROVE  /\ \A i \in 1..Len(a) : ((a \o b) \o c)[i] = a[i]
         /\ \A i \in 1..Len(b) : ((a \o b) \o c)[Len(a) + i] = b[i]
         /\ \A i \in 1..Len(c) : ((a \o b) \o c)[(Len(a) + Len(b)) + i] = c[i]
<1> DEFINE d == a \o b
<1>0. Len(a) \in Nat /\ Len(b) \in Nat
  OBVIOUS
<1>1. d \in Seq(S) /\ Len(d) = Len(a) + Len(b)
  BY Joined
<1>2. \A i \in 1..Len(a) : d[i] = a[i]
  BY Joined
<1>3. \A i \in 1..Len(b) : d[Len(a) + i] = b[i]
  BY Joined
<1> HIDE DEF d
<1>4. \A i \in 1..Len(d) : (d \o c)[i] = d[i]
  BY <1>1, Joined
<1>5. \A i \in 1..Len(c) : (d \o c)[Len(d) + i] = c[i]
  BY <1>1, Joined
<1>6. \A i \in 1..Len(a) : i \in 1..Len(d)
  BY <1>0, <1>1
<1>7. \A i \in 1..Len(b) : Len(a) + i \in 1..Len(d)
  BY <1>0, <1>1
<1>8. \A i \in 1..Len(a) : (d \o c)[i] = a[i]
  BY <1>2, <1>4, <1>6
<1>9. \A i \in 1..Len(b) : (d \o c)[Len(a) + i] = b[i]
  BY <1>3, <1>4, <1>7
<1>10. QED
  BY <1>1, <1>5, <1>8, <1>9 DEF d

\* The levels are the three parts of levels.js one after another.
LEMMA LevelsJoined ==
  /\ \A i \in {1, 2, 3, 4, 5, 7, 8, 9, 10} : levels[i] = levelsByTypeAndPlace[i]
  /\ levels[11] = levelsByRelation[1] /\ levels[13] = levelsByRelation[3]
  /\ levels[14] = levelsByRelation[4]
  /\ levels[25] = levelsByCount[6] /\ levels[26] = levelsByCount[7]
<1> DEFINE a == levelsByTypeAndPlace
           b == levelsByRelation
           c == levelsByCount
           S == {a[i] : i \in 1..10} \cup {b[i] : i \in 1..9} \cup {c[i] : i \in 1..7}
<1>1. a = [i \in 1..10 |-> a[i]]
  BY DEF levelsByTypeAndPlace
<1>2. b = [i \in 1..9 |-> b[i]]
  BY DEF levelsByRelation
<1>3. c = [i \in 1..7 |-> c[i]]
  BY DEF levelsByCount
<1>4. levels = (a \o b) \o c
  BY Zenon DEF levels
<1>5. /\ \A i \in 1..10 : a[i] \in S
      /\ \A i \in 1..9 : b[i] \in S
      /\ \A i \in 1..7 : c[i] \in S
  OBVIOUS
<1> HIDE DEF a, b, c, S
<1>6. a \in Seq(S) /\ Len(a) = 10
  BY <1>1, <1>5, PlacesAreSequence
<1>7. b \in Seq(S) /\ Len(b) = 9
  BY <1>2, <1>5, PlacesAreSequence
<1>8. c \in Seq(S) /\ Len(c) = 7
  BY <1>3, <1>5, PlacesAreSequence
<1>9. /\ \A i \in 1..Len(a) : levels[i] = a[i]
      /\ \A i \in 1..Len(b) : levels[Len(a) + i] = b[i]
      /\ \A i \in 1..Len(c) : levels[(Len(a) + Len(b)) + i] = c[i]
  <2>1. a \in Seq(S) /\ b \in Seq(S) /\ c \in Seq(S)
    BY <1>6, <1>7, <1>8
  <2>2. /\ \A i \in 1..Len(a) : ((a \o b) \o c)[i] = a[i]
        /\ \A i \in 1..Len(b) : ((a \o b) \o c)[Len(a) + i] = b[i]
        /\ \A i \in 1..Len(c) : ((a \o b) \o c)[(Len(a) + Len(b)) + i] = c[i]
    BY <2>1, ThreeJoined
  <2>3. QED
    BY <1>4, <2>2
<1>10. /\ \A i \in 1..10 : levels[i] = a[i]
       /\ \A i \in 1..9 : levels[10 + i] = b[i]
  BY <1>6, <1>7, <1>9
<1>11. \A i \in 1..7 : levels[19 + i] = c[i]
  <2>1. Len(a) + Len(b) = 19
    BY <1>6, <1>7
  <2>2. QED
    BY <1>8, <1>9, <2>1
<1>12. /\ levels[10 + 1] = b[1] /\ levels[10 + 3] = b[3] /\ levels[10 + 4] = b[4]
       /\ levels[19 + 6] = c[6] /\ levels[19 + 7] = c[7]
  BY <1>10, <1>11
<1>13. \A i \in {1, 2, 3, 4, 5, 7, 8, 9, 10} : levels[i] = a[i]
  BY <1>10
<1>14. QED
  BY <1>12, <1>13 DEF a, b, c

\* The selectors of the levels whose sentence does not count and says what it says on any
\* table; the others ("the 3rd plate", "every 2nd plate", ...) mean their own boards.
LEMMA SelectorsAre ==
  /\ levels[1].selector = {Only({Plate})}
  /\ levels[2].selector = {Only({Bento})}
  /\ levels[3].selector = {Only({Fancy})}
  /\ levels[4].selector = {Related({Plate}, " ", {Apple})}
  /\ levels[5].selector = {Related({Fancy}, " ", {Type("pickle")})}
  /\ levels[7].selector = {Only({Type("orange"), Small})}
  /\ levels[8].selector = {Related({Bento}, " ", {Type("orange"), Small})}
  /\ levels[9].selector = {Only({Plate}), Only({Bento})}
  /\ levels[10].selector = {Only({})}
  /\ levels[11].selector = {Related({Plate}, " ", {})}
  /\ levels[13].selector = {Related({Bento}, "~", {Type("pickle")})}
  /\ levels[14].selector = {Related({Plate}, ">", {Apple})}
  /\ levels[25].selector = {Only({Bento, Empty})}
  /\ levels[26].selector = {Only({Apple, NotSmall})}
<1>1. /\ levelsByTypeAndPlace[1].selector = {Only({Plate})}
      /\ levelsByTypeAndPlace[2].selector = {Only({Bento})}
      /\ levelsByTypeAndPlace[3].selector = {Only({Fancy})}
      /\ levelsByTypeAndPlace[4].selector = {Related({Plate}, " ", {Apple})}
      /\ levelsByTypeAndPlace[5].selector = {Related({Fancy}, " ", {Type("pickle")})}
      /\ levelsByTypeAndPlace[7].selector = {Only({Type("orange"), Small})}
      /\ levelsByTypeAndPlace[8].selector = {Related({Bento}, " ", {Type("orange"), Small})}
      /\ levelsByTypeAndPlace[9].selector = {Only({Plate}), Only({Bento})}
      /\ levelsByTypeAndPlace[10].selector = {Only({})}
  BY DEF levelsByTypeAndPlace, Level
<1>2. /\ levelsByRelation[1].selector = {Related({Plate}, " ", {})}
      /\ levelsByRelation[3].selector = {Related({Bento}, "~", {Type("pickle")})}
      /\ levelsByRelation[4].selector = {Related({Plate}, ">", {Apple})}
  BY DEF levelsByRelation, Level
<1>3. /\ levelsByCount[6].selector = {Only({Bento, Empty})}
      /\ levelsByCount[7].selector = {Only({Apple, NotSmall})}
  BY DEF levelsByCount, Level
<1>4. QED
  BY <1>1, <1>2, <1>3, LevelsJoined

\* A compound without a combinator selects what passes its tests ...
LEMMA SelectOnly ==
  ASSUME NEW t, NEW R
  PROVE  \A n : n \in Select(t, {Only(R)}) <=> n \in 1..Len(t) /\ PassesAll(t, n, R)
BY DEF Select, Only

\* ... two of them what passes either's ...
LEMMA SelectEither ==
  ASSUME NEW t, NEW L, NEW R
  PROVE  \A n : n \in Select(t, {Only(L), Only(R)}) <=>
                 n \in 1..Len(t) /\ (PassesAll(t, n, L) \/ PassesAll(t, n, R))
BY DEF Select, Only

\* ... and each kind of combinator what has such a relative.
LEMMA SelectInside ==
  ASSUME NEW t, NEW L, NEW R
  PROVE  \A n : n \in Select(t, {Related(L, " ", R)}) <=>
                 /\ n \in 1..Len(t) /\ PassesAll(t, n, R)
                 /\ \E m \in Ancestors(t, n) : PassesAll(t, m, L)
BY DEF Select, Related, Relatives

\* The child combinator.
LEMMA SelectChild ==
  ASSUME NEW t, NEW L, NEW R
  PROVE  \A n : n \in Select(t, {Related(L, ">", R)}) <=>
                 /\ n \in 1..Len(t) /\ PassesAll(t, n, R)
                 /\ t[n].parent # 0 /\ PassesAll(t, t[n].parent, L)
BY DEF Select, Related, Relatives

\* The general sibling combinator.
LEMMA SelectAfter ==
  ASSUME NEW t, NEW L, NEW R
  PROVE  \A n : n \in Select(t, {Related(L, "~", R)}) <=>
                 /\ n \in 1..Len(t) /\ PassesAll(t, n, R)
                 /\ \E m \in Before(t, n) : PassesAll(t, m, L)
BY DEF Select, Related, Relatives

\* What the compounds test.
LEMMA CompoundsAre ==
  ASSUME NEW t, NEW n
  PROVE  /\ PassesAll(t, n, {})
         /\ PassesAll(t, n, {Plate}) <=> t[n].type = "plate"
         /\ PassesAll(t, n, {Bento}) <=> t[n].type = "bento"
         /\ PassesAll(t, n, {Apple}) <=> t[n].type = "apple"
         /\ PassesAll(t, n, {Type("pickle")}) <=> t[n].type = "pickle"
         /\ PassesAll(t, n, {Type("orange"), Small}) <=> t[n].type = "orange" /\ t[n].small
         /\ PassesAll(t, n, {Apple, NotSmall}) <=> t[n].type = "apple" /\ ~t[n].small
         /\ PassesAll(t, n, {Fancy}) <=> t[n].fancy
         /\ PassesAll(t, n, {Bento, Empty}) <=>
              t[n].type = "bento" /\ \A m \in 1..Len(t) : t[m].parent # n
BY DEF PassesAll, Passes, Plate, Bento, Apple, Type, Small, NotSmall, Fancy, Empty, Test

\* What a parent can be.
LEMMA ParentIs ==
  ASSUME NEW t, IsTable(t), NEW n \in 1..Len(t)
  PROVE  t[n].parent # 0 <=> t[n].parent \in 1..Len(t)
BY DEF IsTable, IsTree

\* The levels whose sentence is true to the selector on any table.
PlainLevels == {1, 2, 3, 4, 5, 7, 8, 9, 10, 11, 13, 14, 25, 26}

\* Their sentences.
LEMMA SentencesAre ==
  ASSUME NEW t
  PROVE  /\ doThis(1, t) = Those(t, "plate")
         /\ doThis(2, t) = Those(t, "bento")
         /\ doThis(3, t) = {n \in Those(t, "plate") : t[n].fancy}
         /\ doThis(4, t) = On(t, Those(t, "apple"), "plate")
         /\ doThis(5, t) = {n \in Those(t, "pickle") : \E m \in Ancestors(t, n) : t[m].fancy}
         /\ doThis(7, t) = Those(t, "orange") \cap SmallOnes(t)
         /\ doThis(8, t) = On(t, Those(t, "orange") \cap SmallOnes(t), "bento")
         /\ doThis(9, t) = Those(t, "plate") \cup Those(t, "bento")
         /\ doThis(10, t) = Things(t)
         /\ doThis(11, t) = On(t, Things(t), "plate")
         /\ doThis(13, t) = {n \in Those(t, "pickle") : \E m \in Those(t, "bento") :
                              t[m].parent = t[n].parent /\ m < n}
         /\ doThis(14, t) = {n \in Those(t, "apple") : t[n].parent \in Those(t, "plate")}
         /\ doThis(25, t) = {n \in Those(t, "bento") : \A m \in Things(t) : t[m].parent # n}
         /\ doThis(26, t) = Those(t, "apple") \ SmallOnes(t)
BY DEF doThis

\* On a table, whatever stands on it, the selector of such a level selects what its sentence
\* asks for.
LEMMA SelectorsSelect ==
  ASSUME NEW t, IsTable(t), NEW k \in PlainLevels
  PROVE  Select(t, levels[k].selector) = doThis(k, t)
<1>1. CASE k = 1
  <2>1. \A n : n \in Select(t, {Only({Plate})}) <=> n \in 1..Len(t) /\ t[n].type = "plate"
    BY SelectOnly, CompoundsAre
  <2>2. Select(t, {Only({Plate})}) = Those(t, "plate")
    BY <2>1 DEF Those, Things
  <2>3. QED
    BY <1>1, <2>2, SelectorsAre, SentencesAre
<1>2. CASE k = 2
  <2>1. \A n : n \in Select(t, {Only({Bento})}) <=> n \in 1..Len(t) /\ t[n].type = "bento"
    BY SelectOnly, CompoundsAre
  <2>2. Select(t, {Only({Bento})}) = Those(t, "bento")
    BY <2>1 DEF Those, Things
  <2>3. QED
    BY <1>2, <2>2, SelectorsAre, SentencesAre
<1>3. CASE k = 3
  <2>1. \A n : n \in Select(t, {Only({Fancy})}) <=> n \in 1..Len(t) /\ t[n].fancy
    BY SelectOnly, CompoundsAre
  <2>2. Select(t, {Only({Fancy})}) =
          {n \in Those(t, "plate") : t[n].fancy}
    BY <2>1 DEF Those, Things, IsTable
  <2>3. QED
    BY <1>3, <2>2, SelectorsAre, SentencesAre
<1>4. CASE k = 4
  <2>1. \A n : n \in Select(t, {Related({Plate}, " ", {Apple})}) <=>
          /\ n \in 1..Len(t) /\ t[n].type = "apple"
          /\ \E m \in Ancestors(t, n) : t[m].type = "plate"
    <3>1. \A n : n \in Select(t, {Related({Plate}, " ", {Apple})}) <=>
            /\ n \in 1..Len(t) /\ PassesAll(t, n, {Apple})
            /\ \E m \in Ancestors(t, n) : PassesAll(t, m, {Plate})
      BY SelectInside
    <3>2. \A n : PassesAll(t, n, {Apple}) <=> t[n].type = "apple"
      BY CompoundsAre
    <3>3. \A m : PassesAll(t, m, {Plate}) <=> t[m].type = "plate"
      BY CompoundsAre
    <3>4. QED
      BY <3>1, <3>2, <3>3
  <2>2. Select(t, {Related({Plate}, " ", {Apple})}) =
          On(t, Those(t, "apple"), "plate")
    BY <2>1 DEF Those, Things, On
  <2>3. QED
    BY <1>4, <2>2, SelectorsAre, SentencesAre
<1>5. CASE k = 5
  <2>1. \A n : n \in Select(t, {Related({Fancy}, " ", {Type("pickle")})}) <=>
          /\ n \in 1..Len(t) /\ t[n].type = "pickle"
          /\ \E m \in Ancestors(t, n) : t[m].fancy
    <3>1. \A n : n \in Select(t, {Related({Fancy}, " ", {Type("pickle")})}) <=>
            /\ n \in 1..Len(t) /\ PassesAll(t, n, {Type("pickle")})
            /\ \E m \in Ancestors(t, n) : PassesAll(t, m, {Fancy})
      BY SelectInside
    <3>2. \A n : PassesAll(t, n, {Type("pickle")}) <=> t[n].type = "pickle"
      BY CompoundsAre
    <3>3. \A m : PassesAll(t, m, {Fancy}) <=> t[m].fancy
      BY CompoundsAre
    <3>4. QED
      BY <3>1, <3>2, <3>3
  <2>2. Select(t, {Related({Fancy}, " ", {Type("pickle")})}) =
          {n \in Those(t, "pickle") : \E m \in Ancestors(t, n) : t[m].fancy}
    BY <2>1 DEF Those, Things
  <2>3. QED
    BY <1>5, <2>2, SelectorsAre, SentencesAre
<1>7. CASE k = 7
  <2>1. \A n : n \in Select(t, {Only({Type("orange"), Small})}) <=>
          n \in 1..Len(t) /\ t[n].type = "orange" /\ t[n].small
    BY SelectOnly, CompoundsAre
  <2>2. Select(t, {Only({Type("orange"), Small})}) =
          Those(t, "orange") \cap SmallOnes(t)
    BY <2>1 DEF Those, Things, SmallOnes
  <2>3. QED
    BY <1>7, <2>2, SelectorsAre, SentencesAre
<1>8. CASE k = 8
  <2>1. \A n : n \in Select(t, {Related({Bento}, " ", {Type("orange"), Small})}) <=>
          /\ n \in 1..Len(t) /\ t[n].type = "orange" /\ t[n].small
          /\ \E m \in Ancestors(t, n) : t[m].type = "bento"
    <3>1. \A n : n \in Select(t, {Related({Bento}, " ", {Type("orange"), Small})}) <=>
            /\ n \in 1..Len(t) /\ PassesAll(t, n, {Type("orange"), Small})
            /\ \E m \in Ancestors(t, n) : PassesAll(t, m, {Bento})
      BY SelectInside
    <3>2. \A n : PassesAll(t, n, {Type("orange"), Small}) <=> t[n].type = "orange" /\ t[n].small
      BY CompoundsAre
    <3>3. \A m : PassesAll(t, m, {Bento}) <=> t[m].type = "bento"
      BY CompoundsAre
    <3>4. QED
      BY <3>1, <3>2, <3>3
  <2>2. Select(t, {Related({Bento}, " ", {Type("orange"), Small})}) =
          On(t, Those(t, "orange") \cap SmallOnes(t), "bento")
    BY <2>1 DEF Those, Things, SmallOnes, On
  <2>3. QED
    BY <1>8, <2>2, SelectorsAre, SentencesAre
<1>9. CASE k = 9
  <2>1. \A n : n \in Select(t, {Only({Plate}), Only({Bento})}) <=>
          n \in 1..Len(t) /\ (t[n].type = "plate" \/ t[n].type = "bento")
    BY SelectEither, CompoundsAre
  <2>2. Select(t, {Only({Plate}), Only({Bento})}) =
          Those(t, "plate") \cup Those(t, "bento")
    BY <2>1 DEF Those, Things
  <2>3. QED
    BY <1>9, <2>2, SelectorsAre, SentencesAre
<1>10. CASE k = 10
  <2>1. \A n : n \in Select(t, {Only({})}) <=> n \in 1..Len(t)
    BY SelectOnly, CompoundsAre
  <2>2. Select(t, {Only({})}) = Things(t)
    BY <2>1 DEF Those, Things
  <2>3. QED
    BY <1>10, <2>2, SelectorsAre, SentencesAre
<1>11. CASE k = 11
  <2>1. \A n : n \in Select(t, {Related({Plate}, " ", {})}) <=>
          /\ n \in 1..Len(t)
          /\ \E m \in Ancestors(t, n) : t[m].type = "plate"
    <3>1. \A n : n \in Select(t, {Related({Plate}, " ", {})}) <=>
            /\ n \in 1..Len(t) /\ PassesAll(t, n, {})
            /\ \E m \in Ancestors(t, n) : PassesAll(t, m, {Plate})
      BY SelectInside
    <3>2. \A n : PassesAll(t, n, {})
      BY CompoundsAre
    <3>3. \A m : PassesAll(t, m, {Plate}) <=> t[m].type = "plate"
      BY CompoundsAre
    <3>4. QED
      BY <3>1, <3>2, <3>3
  <2>2. Select(t, {Related({Plate}, " ", {})}) =
          On(t, Things(t), "plate")
    BY <2>1 DEF Those, Things, On
  <2>3. QED
    BY <1>11, <2>2, SelectorsAre, SentencesAre
<1>13. CASE k = 13
  <2>1. \A n : n \in Select(t, {Related({Bento}, "~", {Type("pickle")})}) <=>
          /\ n \in 1..Len(t) /\ t[n].type = "pickle"
          /\ \E m \in Before(t, n) : t[m].type = "bento"
    <3>1. \A n : n \in Select(t, {Related({Bento}, "~", {Type("pickle")})}) <=>
            /\ n \in 1..Len(t) /\ PassesAll(t, n, {Type("pickle")})
            /\ \E m \in Before(t, n) : PassesAll(t, m, {Bento})
      BY SelectAfter
    <3>2. \A n : PassesAll(t, n, {Type("pickle")}) <=> t[n].type = "pickle"
      BY CompoundsAre
    <3>3. \A m : PassesAll(t, m, {Bento}) <=> t[m].type = "bento"
      BY CompoundsAre
    <3>4. QED
      BY <3>1, <3>2, <3>3
  <2>2. Select(t, {Related({Bento}, "~", {Type("pickle")})}) =
          {n \in Those(t, "pickle") :
           \E m \in Those(t, "bento") : t[m].parent = t[n].parent /\ m < n}
    BY <2>1 DEF Those, Things, Before, SameParent
  <2>3. QED
    BY <1>13, <2>2, SelectorsAre, SentencesAre
<1>14. CASE k = 14
  <2>1. \A n : n \in Select(t, {Related({Plate}, ">", {Apple})}) <=>
          n \in 1..Len(t) /\ t[n].type = "apple" /\ t[n].parent # 0 /\ t[t[n].parent].type = "plate"
    <3>1. \A n : n \in Select(t, {Related({Plate}, ">", {Apple})}) <=>
            /\ n \in 1..Len(t) /\ PassesAll(t, n, {Apple})
            /\ t[n].parent # 0 /\ PassesAll(t, t[n].parent, {Plate})
      BY SelectChild
    <3>2. \A n : PassesAll(t, n, {Apple}) <=> t[n].type = "apple"
      BY CompoundsAre
    <3>3. \A m : PassesAll(t, m, {Plate}) <=> t[m].type = "plate"
      BY CompoundsAre
    <3>4. QED
      BY <3>1, <3>2, <3>3
  <2>2. Select(t, {Related({Plate}, ">", {Apple})}) =
          {n \in Those(t, "apple") : t[n].parent \in Those(t, "plate")}
    <3>1. \A n \in 1..Len(t) : t[n].parent # 0 <=> t[n].parent \in 1..Len(t)
      BY ParentIs
    <3>2. \A n : n \in Those(t, "apple") <=> n \in 1..Len(t) /\ t[n].type = "apple"
      BY DEF Those, Things
    <3>3. \A n : t[n].parent \in Those(t, "plate") <=>
                   t[n].parent \in 1..Len(t) /\ t[t[n].parent].type = "plate"
      BY DEF Those, Things
    <3>4. \A n : n \in Select(t, {Related({Plate}, ">", {Apple})}) <=>
                   n \in {i \in Those(t, "apple") : t[i].parent \in Those(t, "plate")}
      BY <2>1, <3>1, <3>2, <3>3
    <3>5. QED
      BY <3>4
  <2>3. QED
    BY <1>14, <2>2, SelectorsAre, SentencesAre
<1>25. CASE k = 25
  <2>1. \A n : n \in Select(t, {Only({Bento, Empty})}) <=>
          n \in 1..Len(t) /\ t[n].type = "bento" /\ \A m \in 1..Len(t) : t[m].parent # n
    BY SelectOnly, CompoundsAre
  <2>2. Select(t, {Only({Bento, Empty})}) =
          {n \in Those(t, "bento") : \A m \in Things(t) : t[m].parent # n}
    BY <2>1 DEF Those, Things
  <2>3. QED
    BY <1>25, <2>2, SelectorsAre, SentencesAre
<1>26. CASE k = 26
  <2>1. \A n : n \in Select(t, {Only({Apple, NotSmall})}) <=>
          n \in 1..Len(t) /\ t[n].type = "apple" /\ ~t[n].small
    BY SelectOnly, CompoundsAre
  <2>2. Select(t, {Only({Apple, NotSmall})}) =
          Those(t, "apple") \ SmallOnes(t)
    BY <2>1 DEF Those, Things, SmallOnes
  <2>3. QED
    BY <1>26, <2>2, SelectorsAre, SentencesAre
<1>27. QED
  BY <1>1, <1>2, <1>3, <1>4, <1>5, <1>7, <1>8, <1>9, <1>10, <1>11, <1>13, <1>14, <1>25, <1>26
     DEF PlainLevels

\* Fourteen of the levels mean what they say on every board, not only on their own: whatever
\* loadBoard has put on the table, their selector (levels.js) selects just what their sentence
\* asks for.
THEOREM PlainLevelsSayWhatTheySelect ==
  \A board \in Seq(STRING), k \in PlainLevels :
    Select(loadBoard(board).table, levels[k].selector) = doThis(k, loadBoard(board).table)
BY BoardsLoadTables, SelectorsSelect
================================================================================
